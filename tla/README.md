# Verification of the four systems of this repository

The repository holds four independent C programs. This directory models them in
TLA+, checks the models with TLC on small instances, and proves the main safety
properties for all instances with TLAPS.

| system | source | modules | state |
| --- | --- | --- | --- |
| thread pool | `src/MultiThread` | `ThreadPool`, `JobService`, `ThreadPoolProofs` | modelled, checked, proved |
| user-level threads | `src/UserLevelThreadLibrary` | `ThreadTools`, `FifoLock`, `ThreadProgram`, `ThreadToolsProofs`, `ProgramNumbers`, `ThreadProgramProofs` | modelled, checked, proved |
| bulletin board | `src/csieBulletinBoard` | `BulletinBoard`, `RecentPosts`, `BulletinBoardProofs`, `ProgramNumbers` | modelled with ends and restarts, checked, proved |
| hierarchical services | `src/HierarchicalServiceManagementSystem` | `Service`, `ServiceTree`, `ServiceProofs`, `ServiceTradeProofs`, `ServiceAnswerProofs` | modelled, checked, proved |

## Inventory

### Thread pool (`my_pool.c`)

*State*: the list `head..tail` of jobs, `jc` (jobs taken and not accounted for),
`tc` (workers that have not left), `shutdown`, one mutex `mylock`, the condition
variables `Acond` (work or shutdown), `Bcond` (idle), `Ccond` (a worker left).
*Operations*: `tpool_init`, `tpool_add`, `tpool_wait`, `tpool_destroy` (which calls
`wait2`), and the thread function `eachthread`.
*Interaction*: shared memory under `mylock`; `eachthread` calls the job's function
with `mylock` held (line 52), so jobs never overlap.
*Hard*: sleeping and waking on three conditions, the gap between lines 58 and 62,
freeing the pool while workers leave.
*Correct when*: each job runs once, in order; `tpool_wait` returns exactly when
everything added has been done; `tpool_destroy` returns and frees only what nobody
touches any more.

### User-level threads (`threadtools.h`, `scheduler.c`, `threads.c`, `main.c`)

*State*: `ready_queue`/`rq_size`/`rq_current`, `waiting_queue`/`wq_size`,
`bank.lock_owner`, the alarm and pending signals, the TCBs with the variables that
survive a switch.
*Operations*: the macros `thread_create`, `thread_setup`, `thread_yield`,
`thread_exit`, `lock`, `unlock`; `sighandler`; `scheduler`.
*Interaction*: control moves by `siglongjmp(sched_buf, see)`, where `see` is 1 for a
caught signal, 2 for `lock`, 3 for `thread_exit`.
*Hard*: signals that become pending at any time; six combinations of caller and lock
state, each moving threads between two arrays by hand.
*Correct when*: no thread is lost or duplicated, the processor never goes to an empty
slot, the lock is exclusive and first come first served, every thread finishes with
the right result.

### Bulletin board (`server.c`, `client.c`)

*State*: the file of `RECORD_NUM` records, shared by all servers; an `fcntl` write lock
per record and process; in each server `mylock`, `last` and `LAST[fd]`; the streams
between clients and servers. Only the file outlives a process.
*Operations*: accept (with a welcome text that is a pull), `post` (reserve a record),
`[SP]` (write it), `pull`, `exit`; the client's command loop; the start of a server on an existing file.
*Interaction*: between servers through the locks and the file only, without waiting
(`F_SETLK`); between client and server by messages on a stream without boundaries.
*Hard*: every `fcntl` is a point where another server gets in; locks are per process, so
a server's own clients are kept apart by `mylock` alone; a submission is not answered; a client that
ends with an answer unread makes the server's next receive fail, and the server exits.
*Correct when*: a record being written belongs to one author, a pull shows what is
published, the board keeps the last posts, everyone is answered, and the end of any process spoils none of it.

### Hierarchical services (`service.c`)

*State*: a tree of processes, each with its name, its secret, a pipe from and one to its
parent, and its list of children; for an exchange two FIFOs and a file for each partner.
*Operations*: `spawn`, `kill`, `exchange`, read by the Manager from its user, passed down the
tree child by child, the answer (one number) passed up.
*Interaction*: messages in pipes read with blocking calls, `waitpid`, FIFOs whose `open` waits for
the other end, and files whose existence the others watch.
*Hard*: in an exchange both partners, the services between them and the Manager run at once; a
subtree dies one process at a time; the Manager as a partner does not wait for the other.
*Correct when*: what the Manager reports is true; `kill` ends exactly the subtree and counts it, with
no orphan; `exchange` swaps two secrets; every command ends and leaves nothing behind.

## Modules and how they correspond to the code

`PROJECT.json` gives for each definition the lines it models.

**`ThreadPool`**. One action is the code between two points where another thread can get
in: taking `mylock`, releasing it, waiting on a condition. `pc[w]` is where a worker is in
`eachthread`, `main` where the calling program is in the library. A job is its rank in the
order of the `tpool_add` calls. `SpuriousA`, `SpuriousB` and `SpuriousC` are the wake-ups
without a signal that POSIX allows. The caller uses the library as the assignment and the
test programs do: any adds and waits, then a wait followed by `tpool_destroy`. The history
variable `log` lists the jobs whose function was called. Jobs do not call the pool.

**`JobService`** is what a user of the pool is promised, without workers, lock or conditions:
jobs are performed in order, a wait ends when nothing is outstanding, and a closed service
performs nothing. `ThreadPool!ImplementsService` is the refinement.

**`ThreadTools`**. `at` says which code has the processor and `see` what the scheduler was
jumped to with. The queues are functions over the slots of the C arrays, with `NULL` as
`None`, so holes, duplicates and stale slots can be expressed. Threads call the macros in any
order that the life cycle in `threadtools.h` allows. `Kernel` makes signals pending.
`HandOver`, `RunNext`, `GrantLock`, `MakeWait` and `Remove` are the branches of `scheduler()`;
`Resume` is its last part and belongs to each of them.

**`FifoLock`** is a lock served in the order of requests; `ImplementsFifoLock` is the
refinement of it by `lock_owner` and the waiting queue.

**`ThreadProgram`** extends `ThreadTools` with the three thread functions and `main.c`. Each
step is the code up to a macro, in one action with the macro. The numbers are ints that wrap around
at `INT_MAX` (`Wrap`). The arguments are any ints: deposits may overflow, and an amount may be `INT_MIN`, whose `abs` is itself.

**`BulletinBoard`**. Each server is a loop with a program counter: `select`, `post` (the scan),
`try`/`unlock`/`read` (the pull of one record), `release` (after the record has been written).
One action makes one `fcntl`, read or write. `scan[s]` holds the locals of the request being
served; they are dead between requests and reset there. The two loops of the post scan visit
the records in one cyclic order, `PostSlot`. The clients that a `select` reported are served in
any order, where the code takes them by descriptor. A receive returns everything that has
arrived: a command that arrives with a text becomes part of it (`intact = FALSE`). A connection
is named by its client, so the reuse of descriptors is not modelled; `LAST` starts with a value
that is no record. A server has any number of authors (`Posters`) and readers (`Readers`). After a submission it resets
`mylock[last]` (382), which with two authors may be the record of the other: the history variable `mismarked` has the servers
that did this since they were started. With `last = -1` the code writes `mylock[-1]`, which in the build is the end of
`LAST` and belongs to no connection, so nothing changes. A user ends by a word the server knows (`exit`) or by another one
(`TypeExit`); the server closes the connection for the first and for the other does nothing (`ReceiveOther`).

Processes end and come back. `Kill` and `Crash` end a client or a server between any two of its steps: its
memory and its `fcntl` locks are gone, the file stays. `Restart` is a server started again on the file, and a client may be started `MaxStarts` times. `link[c]`
is the state of a connection as TCP shows it to each end. A client that sends to a server that has ended loses
the first message and ends with the next (`Send`), or reads the end of the stream or a failure (`ReadVerdict`,
`ReadFails`). A client that ends while an answer lies unread leaves a connection that is reset (`Abandoned`),
and the server's next `recvfrom` on it fails and the server exits (`ReceiveFails`, `server.c` 643-657). A
connection the server has not accepted yet can be left in the same way.

**`RecentPosts`** is the promise to the users of a single server: the board is the list of the
last posts, and a new post replaces the oldest. `Stop` and `Start` are the end and the restart of the
server: the posts stay, but it no longer knows which is the oldest (`last` is in memory).

**`Service`**. A process is named by its service, since the user gives a name again only after the
service that had it was killed. `pc[n]` is where it is: `idle` (reading from its parent, for the
Manager from its user), `each`/`await`/`reap` (the loop over the children), `fork`/`hear`/`boot` (a
spawn), `exit`, `zombie`, `none`, and `second`, `watch`, `give`, `take`, `report`, `unfile`, `wait`
in an exchange. `cmd`, `pos`, `acc` and `tm` are the locals of the loop's body, reset when it ends; `acc`
is `reply2`, `num2` or `gnum2` after the command. The code has the Manager's loop, the loop of the
other services and in it the two partners written out; the model has one action for what they share,
so the mapped lines are those of one copy. `Give` and `Take` are `open`, `write` or `read`, and `close` of a
FIFO: the writer goes on when the reader has come to its `open`. `subtree` and `before` are history: what was
below each service when a kill was given, and the secrets before an exchange. With `AnyPartners` the user of an exchange may name
services that do not exist, or the same one twice. With one missing, or one named twice, the code waits for ever, in the
partner and in the Manager (`Stuck`); with both missing the loop of `service.c` 1104-1111 ends at once and 1120 prints that they
have exchanged their secrets.

**`ServiceTree`** is what the user is promised: a tree in which each command is one step.
`ImplementsTree` maps `Service` to it: a kill takes effect when the target reads the command, an
exchange when the first partner assigns its new secret.

A definition named like another with an underscore and a word (`Add_Front`, `PullLock_Own`, ...)
is a deliberately wrong variant of it, a bug somebody could make. No specification uses them:
they are there to show that each property can fail.

## Runs

| run | instance | states | result |
| --- | --- | --- | --- |
| `pool` | 3 workers, 4 jobs, 2 spurious wake-ups | 82 thousand | holds |
| `threads_lib` | 4 threads in arrays of 4, symmetric | 2 thousand | holds |
| `threads_program` | loops of 0, 1 and 8 iterations, bank amounts 0, 200, 1800, -600, -900, ints of 12 bits | 404 thousand | holds |
| `board_one` | 1 server, 1 author, 1 reader, 3 records, 5 posts, clients started twice, 1 kill | 439 thousand | holds |
| `board_two` | 2 servers, two authors on one and one on the other, 2 records, 1 post each, 1 kill, symmetric | 1.1 million | holds |
| `board_live` | 2 servers, an author on each, 1 record, 1 post each, paced users started twice, 1 kill | 108 thousand | holds |
| `board_mylock` | 1 server, 2 authors | | violated |
| `board_refused`, `board_pull` | 2 servers, an author each | | violated |
| `service_all` | 3 services, all commands, not on the Manager's secret | 193 thousand | holds |
| `service_manager` | 2 services, all commands, the Manager trades, any partners, missing or the same twice | 89 thousand | holds |
| `service_told` | 2 services, the Manager trades | | violated |

What they show:

- **Pool.** `NoLostWakeup`: nobody sleeps on a condition that is true. `Fifo`: jobs are called
  once each, in order. `Counters`: `jc` and `tc` count what they should at every moment, also in
  the gap between 58 and 62. `DestroySafe`: no worker is left when the memory is freed.
  `WaitSound`: `tpool_wait` returns only after all jobs. `EveryJobRuns`, `WaitReturns`,
  `DestroyReturns`: and all of this does happen.
- **Thread library.** `QueuesSound`: each thread that exists is in one slot of one queue.
  `RunningValid`: the scheduler never jumps through `NULL`. `LineMoves`: while threads wait, a
  ready thread has the lock. `YieldSwitches`: a caught
  signal switches threads. `ImplementsFifoLock`: nobody overtakes in the line for the lock.
- **Thread program.** `CriticalIffOwner`: a bank operation is between `lock` and `unlock` exactly
  while it is the owner, although `lock` does not test again after it is resumed. `BankSerial`,
  `ResultsRight`: results do not depend on the schedule, and are right modulo the range of an int after an
  overflow; the account is never overdrawn unless the deposits themselves overflow or an amount is `INT_MIN`. `AllFinish`: every thread gets the lock it
  asks for and comes to its end.
- **Board.** The locking is right up to `server.c` 382. As long as no submission to a server has reset the mark of
  another record than its own: its `mylock` is 1 exactly for the records its clients are writing
  (`MylockKept`, which says too that a server with one author stays so); the lock of a record given to one of its
  authors survives everything other clients of the same and of other servers do, and every end of another
  process, until the text is written (`WriterOwnsRecord`); no record is given to two authors, of one
  server or of two (`NoDoubleGrant`). After line 382 has reset the wrong mark none of this is true any more: without
  the exception TLC finds a pull of the same server that locks and unlocks the record the other author
  is writing, and a second grant of that record. `WrittenByHolder`: the file only changes in the record of the author whose text
  arrives, and with the same exception under its server's lock, and nobody else was given it. `VerdictTrue`:
  the answer to a post request agrees with what the scan did, whatever other servers lock during it.
  `PullShowsBoard`, `KeepsRecentPosts`: with a single server a pull shows exactly what is published, and with a single
  author the board is the list of the last posts, also after restarts. `EveryoneAnswered`: nobody waits for
  ever, for a server that ended neither.
- **Services.** `AnswerTrue`: what the Manager prints of a command is what happened, counts included.
  `TreeSound`: nobody exits before its children are waited for, nobody is in two lists. `Quiet`: when the
  Manager takes the next command no service works on the last one and no message, file or FIFO is left.
  `FifosInPlace`: the Manager does not unlink a FIFO that a partner has yet to open. `ImplementsTree`: no
  service is lost or gained, secrets move by complete swaps. `CommandEnds`: every command ends, but
  an exchange of a service with itself or with one that does not exist, of which `AnswerTrue` says that it is never reported.
  An exchange of two services that both do not exist ends at once and is reported as if it had happened (`service.c`
  1104-1120), where a spawn or a kill answers that the service doesn't exist; `AnswerTrue` excepts it, `CommandEnds` and
  `ImplementsTree` show that it changes nothing.

The violated runs are disagreements of the code with its own comments and recorded sessions:

- `board_mylock`: `server.c` 382 resets `mylock[last]` and not the record of the connection. With
  two authors on one server the wrong record is marked free (what follows from it is said above).
- `board_refused`: `server.c` 486 refuses "if all ten posts are locked"; locks are also held by
  pulls for a moment and by post scans for long, so clients are refused when nobody is writing.
- `board_pull`: `server.c` 507 collects "all unlocked posts" and reads each one after it unlocked it.
- `service_told`: as a partner of an exchange the Manager does not wait for the other (`service.c`
  1044-1086 has nothing like 1091-1113), so it may report the exchange before the other has acquired its
  secret; `sample-output-2.txt` has them in the other order. `service_manager` shows that nothing worse
  comes of it.

### Bounds

Three workers are enough for one that runs, one that sleeps and one in the gap; four jobs for a queue
longer than the workers, and counters and queue reach zero and come back. Four threads is what the
program creates, and with `THREAD_MAX` 4 the arrays are full. Eight iterations go past the base cases
of the loops, and 8! does not fit into the 12 bits of an int (`INT_MAX` 2047). The amounts give all the cases
of the bank: a deposit, one that overflows, a withdrawal covered only after a deposit, and one never covered. Five posts on three records wrap the ring; with two servers one
post each on two records meets every overlap of a scan, a grant, a pull and a submission, and on one record the
authors are refused. In `board_two` nobody types `pull`; its pulls are the welcome texts of `Accept`, which take the same
steps, of clients that connect while others write. One killed process (`MaxFaults`) suffices for each way a
connection or a lock can be lost under the others; clients started twice (`MaxStarts`) meet what their first run left
behind.
Three services make all the shapes that matter for an exchange: siblings, one below the other, one of
them between the other and the Manager, and a bystander; with two services and the Manager, all take
part in some exchange and stand by in another. Names are used again after a kill, so the runs of `Service` have no bound on the number of commands.
`MaxJobs`, `MaxSpurious`, `MaxPosts`, `MaxStarts`, `MaxFaults` are bounds of the models and appear in guards
only; the theorems hold for all their values.

### Fairness

Workers and the inside of library calls are scheduled (`WF`): the kernel runs every runnable thread.
That a thread gets a mutex it keeps asking for follows from the model, where each holder releases it
and the contenders are finitely many requests. Nothing forces the program to call the library, nor
signals to come. The thread library is one process, so one `WF` for it; the kernel's signals are not
fair and cannot starve it. On the board, servers run and clients read what was sent; users type when
they like; no process has to be killed, started or started again. Each service process is scheduled (`WF` of its `Step`); its user may stop.

`board_live` assumes `Paced`: a user types again only after the server received the last text, as
`samplejudge.py` does by sleeping after each command. Without it a command can be swallowed by the text
it arrives with, and its client waits for ever; that is a property of the protocol. `kill Manager` ends
the services, so their runs do not look for deadlocks; `CommandEnds` says there is no other.

## Proofs

`ThreadPoolProofs` proves for every finite set of workers, every bound on jobs and on spurious
wake-ups: `TypeCorrect`, `CountersExact`, `WakeupsKept`, `FifoOrder`, `DestroyIsSafe`, `WaitIsSound`,
and `ImplementsServiceSafety`, that every behaviour of the pool is one of `JobService`. All rest on the
inductive invariant `IInv`. The properties alone are not inductive:
`LockInv` says which program points hold `mylock`, `OrderInv` that the jobs called, taken and queued
are together `1..added` in this order, `HeapInv` which nodes are allocated, and `PhaseInv` what the
main program's position says of `shutdown`, `tc` and the pool. The proof has one step per action
and uses lemmas on cardinalities for the two counters. Assumptions: `WorkersAssumption`,
`BoundsAssumption`.

`ThreadToolsProofs` proves for every set of threads that fits into `THREAD_MAX` slots and every time
slice: `TypeCorrect`, `QueuesAreSound`, `RunningIsValid`, `AlarmStaysAlive`, `LineAlwaysMoves`,
`YieldAlwaysSwitches`, and `LockIsFifo`, that the scheduler implements `FifoLock`. The inductive
invariant `ToolsInv` adds three facts to the properties: a caller of `lock` or `thread_exit` is
not the owner (`CallerSound`), the owner is in the ready queue (`HolderReady`), and the sizes of the
queues add up to the number of live threads (`SizesSound`). The last two are why the ready queue
never runs empty and no array overflows. Lemmas state what `FillHole`, `Shift` and `AppendTo` do to a
queue. Assumptions: `ThreadsAssumption`, `TimesliceAssumption`.

`ThreadProgramProofs` proves of the program in `threads.c` and `main.c`, for all arguments, any signals and
every width of an int: `UsesTheLibrary`, that each of its steps is one `ThreadTools` allows, so that
all of the theorems above hold of it (`LibraryKeepsItsPromises`); `ProgramTypeCorrect`, `LockIsRight`
(`CriticalIffOwner`), `BanksAreSerial` (`BankSerial`) and `ResultsAreRight` (`ResultsRight`). `ProgramInv`
adds to `ToolsInv` who has called `lock()` (`LockUse`), which threads exist (`Created`), what the operations
done so far have made of the balance (`BalanceExact`) and what the computed numbers are between two
iterations (`Computed`). `SchedulerLock` says what the scheduler makes of lock and line. Assumptions:
`ProgramAssumption` only, so also for amounts that overflow; that there is no overdraft is proved when the deposits fit
into an int and no amount is `INT_MIN` (`Fits`). `ProgramNumbers` holds the arithmetic, and the remainders that `BulletinBoardProofs` uses too: that the recursive functions `Fib` and
`Factorial` are what their definitions say (`Recursion`, by least counterexample) and that numbers cut to an int
at every step are those cut at the end (`SameRemainder`).

`BulletinBoardProofs` proves for any number of servers, clients, authors on a server, records, posts, starts and kills: `TypeCorrect`,
`GrantsAreLocked` (`WriterOwnsRecord`), `MylockIsKept` (`MylockKept`), `GrantsAreExclusive` (`NoDoubleGrant`), `VerdictIsTrue` and
`WritesByHolder` (`WrittenByHolder`). The properties have the exception of `server.c` 382 in them, exactly: a server counts
until one of its submissions has reset another mark than its own. `MylockIsExact` is the comment of line 167 for
servers with one author each; `board_mylock` shows that it needs that. The inductive invariant `IInv` says of each client that what is on its way
fits what its user waits for (`Conversation`), that its connection fits the state of its process
(`Connection`), that only authors carry requests (`Author`), and that a grant is locked while its server is not
`mismarked`, and is the last of a server with one author (`Granted`); of each server that the connection it serves is open and quiet (`Serving`) and that
the counter of the post scan is right (`Counting`). The properties alone are not inductive: that a grant
survives needs that its connection carries nothing else, and that `mylock[last]` is always the right record of
a server with one author, that its last grant is its only one. Lemmas on a step of one client, of one server and
of both reduce each action to what it changes. Assumption: `BoardAssumption`.

Its last part proves what the users of a single server see, for any number of readers,
records, posts, starts and kills: `PullsShowAll` (`PullShowsBoard`) for any number of authors (`SoleServer`), and with one
author (`SoleAuthor`) `BoardKeepsPosts` (`KeepsRecentPosts`), that the program implements `RecentPosts`. With one server no lock is
refused and with one author nobody has a record while a request to post waits for one, so the scan takes the first record it visits, the one after `last`
(`FirstVisit`): this is why a post replaces the oldest one. A pull has collected what is to be shown of the records
before `i` (`Collected`), and no step of a client changes a record or a grant while it runs (`ClientsQuiet`).
`SoleServerInv` and `SoleAuthorInv` are inductive. For the refinement `PendingIs` reads from `mylock` and the program
counter whether a post is pending; the grant is `Begin`, the receive of the text `Submit` (`NewPost`, with the remainder
arithmetic of `ProgramNumbers`), the end of the server `Stop`, its start `Start`, and every other step leaves the
list as it is: also the one that sets `last` from `RECORD_NUM - 1` back to -1 (`OnceAround`). `SoleServer` cannot be
dropped: a lock held by another server sends the scan past the oldest post, and hides a record from a pull.

`ServiceProofs` proves for any set of names, any commands, and so for trees of any shape: `ServiceTyped`
(`TypeOK`: in particular no pipe ever holds two messages) and `TreeAlwaysSound` (`TreeSound`). The properties alone
are not inductive: that a process exits only after its children were waited for, and that a name given
again is in no list, depend on where the one command is. `ServiceInv` says that a command is in one place, a
process or a message (`OnePlace`); that everybody on its way is waited for by its own parent
(`Supervised`), which has told it what it was told itself (`ChainHeard`); what each program point implies
(`Placed`); which children of a dying list were waited for already (`DeadKids`); and that the name of the new service
stays free while its parent is searched for (`NameFree`). The lists are a forest by `OneParent`, `Rooted` and
`Acyclic`, which speaks of closed sets of services rather than of paths, as `Below` does; that nobody is `Below` itself follows
(`NotBelowItself`). That nobody is at work when the Manager takes a command
(`NobodyEngaged`) is `Acyclic` again: each process at work has a parent at work, up to the Manager. The
proof has one lemma per action. Assumption: `NamesAssumption`.

`ServiceTradeProofs` goes on to the exchange, for the same parameters, missing partners, one named twice and a trading Manager
included: `FifosAlwaysInPlace` (`FifosInPlace`) and `QuietBetweenCommands` (`Quiet`). `TradeInv`, inductive together with
`ServiceInv`, says that a service has its file exactly while it is a partner (`Filed`), that a FIFO holds something
only for one that reads it (`FifoRead`), that the FIFOs exist exactly during an exchange (`FifosExist`), and that
whoever works on a command has the Manager's (`Current`). The hard case is a Manager that trades itself: it does
not watch the files and goes on while its partner may not be done. Since it counts itself first, every count that
is passed on is at least one and its partner is always the second (`SecondToManager`), which opens both FIFOs before
the Manager can leave the second of them (`ManagerGave`). `TradeStep` reduces the steps of one process to what they
do to its file, its command and what it writes; `ManagerEnds` is the end of a command.
`SearchInvariance` adds what every command needs of the search (`SearchInv`): who has an answer of zero from its first
children has nobody the command is about below them (`Searched`), the answer of one that dies is not zero
(`DeadCount`), and the number of partners found only grows (`CountGrows`).

`ServiceAnswerProofs` proves that what the Manager prints is true: `SpawnAnswered`, `KillAnswered`, `ExchangeAnswered`, and
`AnswersTrue` (`AnswerTrue`) from the three. `AnswerTrue` speaks only of the moment after the answer, so each kind of command
has an invariant of its own on top of `SearchInv`.
A spawn (`SpawnMade`): whoever has, or has sent, an answer that is not zero says that the new service is the
youngest child of its parent; a Manager that got zero from all its children has searched the whole tree.
A kill (`Killed`): what was below a process when the command was given is itself and what was below its
children, each of them once (`TargetWhole`); who dies has counted just what was below the children that answered, and all
of that is gone but for the one it is still to wait for (`DyingCounted`); above the target the number is passed on as
it is (`TargetCounted`) and nobody searches on (`SearchOver`). This is where the count is summed over the tree, one process at a
time, so no induction on the tree is needed.
An exchange (`Exchanging`) goes through `NoneFound`, `OneFound`, `BothFound`, `FirstToTake`, `FirstToGive` and `Traded`; each step of a process
keeps the stage or leads to the next, and `CountIs` ties the number passed around to it. Only a partner that trails from an earlier
exchange with the Manager moves besides (`Trailing`), and it is not found before it is done. With one partner
missing, or one named twice, `OneFound` is the last stage, and with both missing `NoneFound`.

Every inductive invariant was checked by TLC on the instances of the runs before it was proved.

Liveness (`EveryJobRuns`, `WaitReturns`, `DestroyReturns`, `AllFinish`,
`EveryoneAnswered`, `CommandEnds`) is only model-checked: the prover does not reason about fairness here. So is,
of `Service`, that the tree is the one the user sees: `ImplementsTree`.

## Not modelled

Failing system calls and allocations, but those that a killed process causes; that the TCB of an exited
thread is never freed (`scheduler.c` 141 promises to clean up, whatever the interleaving); whether the stack
frames that `siglongjmp` returns to still exist; the lengths of texts on the board and the layout of what is
printed; jobs that call the pool (the code holds `mylock` while a job runs, so they would wait for
themselves); services whose process dies by itself, two living services with one name; `samplejudge.py`, the build files and the recorded sessions.

## Plan

1. A proof of `ImplementsTree`, whose map takes away what is below a service that has to die; `Killed` and `Exchanging` say
   most of what it needs.
2. Services whose process dies by itself.
