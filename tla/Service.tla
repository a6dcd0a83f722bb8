------------------------------ MODULE Service ------------------------------
(***************************************************************************)
(* HierarchicalServiceManagementSystem/service.c: a tree of processes, the *)
(* Manager at the root.  Each process has a pipe from its parent and one   *)
(* to it, and the list of its children.  The Manager reads commands from   *)
(* its user and passes them down, child by child; every service answers    *)
(* its parent with one number ("Y" is 1 and "N" is 0).                     *)
(*                                                                         *)
(* A process is named by its service: the user gives a name again only     *)
(* after the service that had it was killed.  One action is one write or   *)
(* read of a message, one fork, exit or wait, or one access to a FIFO or a *)
(* file, with the local work around it.  pc is "none" when no process of   *)
(* the name exists and "zombie" when it has exited and was not waited for. *)
(***************************************************************************)
EXTENDS Integers, Sequences, FiniteSets

CONSTANTS
  Names,          \* the names the user gives
  Manager,        \* the service that reads the commands
  Ops,            \* the commands the user gives
  ManagerTrades,  \* TRUE when the user lets the Manager exchange its secret
  AnyPartners     \* TRUE when the user may name partners that do not exist,
                  \* or the same one twice

ASSUME NamesAssumption ==
  /\ Manager \notin Names
  /\ IsFiniteSet(Names)
  /\ Ops \subseteq {"spawn", "kill", "exchange"}
  /\ ManagerTrades \in BOOLEAN /\ AnyPartners \in BOOLEAN

All == Names \cup {Manager}

VARIABLES
  children,   \* of each process: the list head, in order of creation
  secret,     \* of each process
  down,       \* of each service: the pipe from its parent
  up,         \* of each service: the pipe to its parent
  pc,         \* where each process is
  cmd,        \* of each process: the command being served
  pos,        \* of each process: how many children have been served
  acc,        \* of each process: reply, num or gnum, the answer so far
  tm,         \* of each first partner: the secret read from a FIFO
  fifo,       \* of each process: what lies in the FIFO it reads from
  fifos,      \* the two FIFOs of the exchange exist
  files,      \* the services whose file "<name>.txt" exists
  answer,     \* what the Manager printed about the command
  subtree,    \* history: all that was below each service at the last kill, and itself
  before      \* history: the secrets when the last exchange was asked for

pipes == <<down, up>>
locals == <<pos, acc>>
history == <<subtree, before>>
trade == <<tm, fifo, fifos, files>>
vars == <<children, secret, pipes, pc, cmd, locals, trade, answer, history>>

(* g is the number of partners found so far; in a kill command it is 1 for  *)
(* the tag "Y": the receiver is to die.                                     *)
Command(op, a, b, g) == [op |-> op, a |-> a, b |-> b, g |-> g]
Nothing == [told |-> "nothing", count |-> 0]
NoCommand == Command("none", Manager, Manager, 0)

Kids(n) == {children[n][i] : i \in 1 .. Len(children[n])}
Alive(n) == pc[n] \notin {"none", "zombie", "gone"}

(* The sets that a walk down the lists does not leave, and what every such  *)
(* set with all of S has: S and all that is below it.                       *)
Closed(T) == \A n \in T : Kids(n) \subseteq T
Below(S) == {n \in All : \A T \in SUBSET All : S \subseteq T /\ Closed(T) => n \in T}

Init ==
  /\ children = [n \in All |-> <<>>]
  /\ secret = [n \in All |-> n]
  /\ down = [n \in All |-> <<>>]
  /\ up = [n \in All |-> <<>>]
  /\ pc = [n \in All |-> IF n = Manager THEN "idle" ELSE "none"]
  /\ cmd = [n \in All |-> NoCommand]
  /\ pos = [n \in All |-> 0]
  /\ acc = [n \in All |-> 0]
  /\ tm = [n \in All |-> n]
  /\ fifo = [n \in All |-> <<>>]
  /\ fifos = FALSE
  /\ files = {}
  /\ answer = Nothing
  /\ subtree = [n \in All |-> {}]
  /\ before = secret

Goto(n, l) == pc' = [pc EXCEPT ![n] = l]
Serve(n, c, a) ==
  /\ cmd' = [cmd EXCEPT ![n] = c]
  /\ pos' = [pos EXCEPT ![n] = 0]
  /\ acc' = [acc EXCEPT ![n] = a]

(* A service waits for its next command; the locals of the loop's body die. *)
Rest(n) ==
  /\ Goto(n, "idle")
  /\ Serve(n, NoCommand, 0)

WriteToParent(n, msg) == up' = [up EXCEPT ![n] = Append(@, msg)]
Kid(n) == children[n][pos[n] + 1]

(* The loops over the children stop early once the answer is known.         *)
Enough(n) ==
  \/ cmd[n].op = "spawn" /\ acc[n] = 1
  \/ cmd[n].op = "kill" /\ cmd[n].g = 0 /\ acc[n] > 0
  \/ cmd[n].op = "exchange" /\ acc[n] = 2
LoopOver(n) == Enough(n) \/ pos[n] >= Len(children[n])

Partner(n) == n \in {cmd[n].a, cmd[n].b}
Other(n) == IF n = cmd[n].a THEN cmd[n].b ELSE cmd[n].a

(* The partner that the command reached with the other already found.  The  *)
(* Manager counts itself before it looks and is never the second.           *)
Second(n) == n # Manager /\ cmd[n].op = "exchange" /\ cmd[n].g = 1 /\ Partner(n)

(* The secret of a service, if only in its FIFO.                            *)
SecretOf(n) == IF Second(n) /\ fifo[n] # <<>> THEN fifo[n][1] ELSE secret[n]

-----------------------------------------------------------------------------
(* The Manager reads a command.  The user spawns a name no service has, and *)
(* names for an exchange two different services, or any two names.          *)

MayIssue(c) ==
  \/ c.op = "spawn" /\ c.b \in Names /\ pc[c.b] = "none" /\ c.a # c.b
  \/ c.op = "kill" /\ c.b = c.a
  \/ /\ c.op = "exchange"
     /\ AnyPartners \/ (c.a # c.b /\ Alive(c.a) /\ Alive(c.b))
     /\ ManagerTrades \/ Manager \notin {c.a, c.b}

Issue ==
  /\ pc[Manager] = "idle"
  /\ \E op \in Ops, a, b \in All :
       LET own == Manager \in {a, b}
           g == IF own /\ op # "spawn" THEN 1 ELSE 0
       IN /\ MayIssue(Command(op, a, b, g))
          /\ Serve(Manager, Command(op, a, b, g), IF op = "exchange" THEN g ELSE 0)
          /\ Goto(Manager, IF op = "spawn" /\ a = Manager THEN "fork" ELSE "each")
          /\ fifos' = (op = "exchange" \/ fifos)
          /\ subtree' = [n \in All |-> IF op = "kill" /\ Alive(n) THEN Below({n}) ELSE {}]
          /\ before' = IF op = "exchange" THEN [n \in All |-> SecretOf(n)] ELSE [n \in All |-> n]
  /\ answer' = Nothing
  /\ UNCHANGED <<children, secret, pipes, tm, fifo, files>>

-----------------------------------------------------------------------------
(* A service reads a command: the one it is about changes what the service  *)
(* does next, the others only look for that one among their children.       *)

ReceiveSpawn(n, c) ==
  /\ c.op = "spawn"
  /\ Serve(n, c, 0)
  /\ Goto(n, IF c.a = n THEN "fork" ELSE "each")
  /\ UNCHANGED files

ReceiveKill(n, c) ==
  /\ c.op = "kill"
  /\ Serve(n, IF c.a = n THEN [c EXCEPT !.g = 1] ELSE c, 0)
  /\ Goto(n, "each")
  /\ UNCHANGED files

ReceiveExchange(n, c) ==
  /\ c.op = "exchange"
  /\ IF n \in {c.a, c.b}
     THEN /\ files' = files \cup {n}
          /\ Serve(n, c, c.g + 1)
          /\ Goto(n, IF c.g + 1 = 2 THEN "second" ELSE "each")
     ELSE /\ UNCHANGED files
          /\ Serve(n, c, c.g)
          /\ Goto(n, "each")

Receive(n) ==
  /\ n # Manager /\ pc[n] = "idle" /\ down[n] # <<>>
  /\ down' = [down EXCEPT ![n] = Tail(@)]
  /\ \/ ReceiveSpawn(n, Head(down[n]))
     \/ ReceiveKill(n, Head(down[n]))
     \/ ReceiveExchange(n, Head(down[n]))
  /\ UNCHANGED <<children, secret, up, tm, fifo, fifos, answer, history>>

-----------------------------------------------------------------------------
(* MySpawn, what the new process does first, and how its parent learns it.  *)

Fork(n) ==
  /\ pc[n] = "fork"
  /\ LET c == cmd[n].b
     IN /\ children' = [children EXCEPT ![n] = Append(@, c), ![c] = <<>>]
        /\ secret' = [secret EXCEPT ![c] = c]
        /\ cmd' = [cmd EXCEPT ![c] = NoCommand]
        /\ down' = [down EXCEPT ![c] = <<>>]
        /\ up' = [up EXCEPT ![c] = <<>>]
        /\ pc' = [pc EXCEPT ![n] = "hear", ![c] = "boot"]
  /\ UNCHANGED <<locals, trade, answer, history>>

Boot(n) ==
  /\ pc[n] = "boot"
  /\ WriteToParent(n, 1)
  /\ Goto(n, "idle")
  /\ UNCHANGED <<children, secret, down, cmd, locals, trade, answer, history>>

Tell(what, k) == answer' = [told |-> what, count |-> k]

Hear(n) ==
  /\ pc[n] = "hear"
  /\ LET c == cmd[n].b
         taken == [up EXCEPT ![c] = Tail(@)]
     IN /\ up[c] # <<>>
        /\ IF n = Manager
           THEN up' = taken /\ Tell("spawned", 0) /\ Goto(n, "idle") /\ UNCHANGED <<cmd, locals>>
           ELSE up' = [taken EXCEPT ![n] = Append(@, Head(up[c]))] /\ Rest(n) /\ UNCHANGED answer
  /\ UNCHANGED <<children, secret, down, trade, history>>

-----------------------------------------------------------------------------
(* The loop over the children: pass the command on, read the answer, wait   *)
(* for a child that was killed.                                             *)

(* Mutant: the next command is sent before the answer is read.              *)
Forward_NoAwait(n) ==
  /\ pc[n] = "each" /\ ~LoopOver(n)
  /\ down' = [down EXCEPT ![Kid(n)] = Append(@, cmd[n])]
  /\ UNCHANGED <<children, secret, up, pc, cmd, locals, trade, answer, history>>

Forward(n) ==
  /\ pc[n] = "each" /\ ~LoopOver(n)
  /\ LET c == IF cmd[n].op = "exchange" THEN [cmd[n] EXCEPT !.g = acc[n]] ELSE cmd[n]
     IN down' = [down EXCEPT ![Kid(n)] = Append(@, c)]
  /\ Goto(n, "await")
  /\ UNCHANGED <<children, secret, up, cmd, locals, trade, answer, history>>

(* The first partner, itself a service, keeps its count of one unless the   *)
(* other is found.                                                          *)
NewAcc(n, reply) ==
  CASE cmd[n].op = "spawn" -> reply
    [] cmd[n].op = "kill" -> acc[n] + reply
    [] OTHER -> IF n # Manager /\ Partner(n) /\ reply # 2 THEN acc[n] ELSE reply

(* Mutant: only the parent of the target waits for a child.                 *)
Collect_NoWaitBelow(n) ==
  /\ pc[n] = "await" /\ up[Kid(n)] # <<>>
  /\ acc' = [acc EXCEPT ![n] = NewAcc(n, Head(up[Kid(n)]))]
  /\ up' = [up EXCEPT ![Kid(n)] = Tail(@)]
  /\ Goto(n, IF cmd[n].op = "kill" /\ Kid(n) = cmd[n].a THEN "reap" ELSE "each")
  /\ pos' = IF cmd[n].op = "kill" /\ Kid(n) = cmd[n].a THEN pos ELSE [pos EXCEPT ![n] = @ + 1]
  /\ UNCHANGED <<children, secret, down, cmd, trade, answer, history>>

Collect(n) ==
  /\ pc[n] = "await" /\ up[Kid(n)] # <<>>
  /\ LET reply == Head(up[Kid(n)])
         waits == cmd[n].op = "kill" /\ (cmd[n].g = 1 \/ Kid(n) = cmd[n].a)
     IN /\ acc' = [acc EXCEPT ![n] = NewAcc(n, reply)]
        /\ up' = [up EXCEPT ![Kid(n)] = Tail(@)]
        /\ Goto(n, IF waits THEN "reap" ELSE "each")
        /\ pos' = IF waits THEN pos ELSE [pos EXCEPT ![n] = @ + 1]
  /\ UNCHANGED <<children, secret, down, cmd, trade, answer, history>>

(* The list without its i-th node.                                          *)
DeleteNode(s, i) == SubSeq(s, 1, i - 1) \o SubSeq(s, i + 1, Len(s))

(* waitpid, and deleteNode when only this child is killed.                  *)
Reap(n) ==
  /\ pc[n] = "reap" /\ pc[Kid(n)] = "zombie"
  /\ pc' = [pc EXCEPT ![n] = "each", ![Kid(n)] = "none"]
  /\ pos' = [pos EXCEPT ![n] = @ + 1]
  /\ children' = IF cmd[n].g = 1 THEN children
                 ELSE [children EXCEPT ![n] = DeleteNode(@, pos[n] + 1)]
  /\ UNCHANGED <<secret, pipes, cmd, acc, trade, answer, history>>

-----------------------------------------------------------------------------
(* After the loop: the Manager tells its user, a service its parent.        *)

(* Mutant: the Manager as a partner does not trade.                         *)
Conclusion_NoTrade ==
  /\ answer' = [told |-> "missing", count |-> 0]
  /\ Goto(Manager, IF cmd[Manager].op = "exchange" THEN "wait"
                   ELSE IF cmd[Manager].op = "kill" /\ cmd[Manager].g = 1 THEN "gone" ELSE "idle")

Conclusion ==
  LET c == cmd[Manager]
      k == acc[Manager]
  IN \/ c.op = "spawn" /\ Tell(IF k = 1 THEN "spawned" ELSE "missing", 0) /\ Goto(Manager, "idle")
     \/ /\ c.op = "kill" /\ c.g = 0
        /\ IF k = 0 THEN Tell("missing", 0) ELSE Tell("killed", k - 1)
        /\ Goto(Manager, "idle")
     \/ c.op = "kill" /\ c.g = 1 /\ Tell("killed", k) /\ Goto(Manager, "gone")
     \/ /\ c.op = "exchange"
        /\ Goto(Manager, IF Partner(Manager) THEN "take" ELSE "wait")
        /\ UNCHANGED answer

Conclude ==
  /\ pc[Manager] = "each" /\ LoopOver(Manager)
  /\ Conclusion
  /\ children' = IF pc'[Manager] = "gone" THEN [children EXCEPT ![Manager] = <<>>] ELSE children
  /\ UNCHANGED <<secret, pipes, cmd, locals, trade, history>>

Reply(n) ==
  /\ n # Manager /\ pc[n] = "each" /\ LoopOver(n)
  /\ cmd[n].op = "spawn" \/ (cmd[n].op = "kill" /\ cmd[n].g = 0)
       \/ (cmd[n].op = "exchange" /\ ~Partner(n))
  /\ WriteToParent(n, acc[n])
  /\ Rest(n)
  /\ UNCHANGED <<children, secret, down, trade, answer, history>>

ReplyPartner(n) ==
  /\ n # Manager /\ pc[n] = "each" /\ LoopOver(n)
  /\ cmd[n].op = "exchange" /\ Partner(n)
  /\ IF acc[n] = 2 THEN UNCHANGED up /\ Goto(n, "take")
     ELSE WriteToParent(n, acc[n]) /\ Goto(n, "watch")
  /\ UNCHANGED <<children, secret, down, cmd, locals, trade, answer, history>>

(* Mutant: a dying service does not count itself.                           *)
ReplyDying_NotSelf(n) ==
  /\ n # Manager /\ pc[n] = "each" /\ LoopOver(n)
  /\ cmd[n].op = "kill" /\ cmd[n].g = 1
  /\ WriteToParent(n, acc[n])
  /\ Goto(n, "exit")
  /\ UNCHANGED <<children, secret, down, cmd, locals, trade, answer, history>>

ReplyDying(n) ==
  /\ n # Manager /\ pc[n] = "each" /\ LoopOver(n)
  /\ cmd[n].op = "kill" /\ cmd[n].g = 1
  /\ WriteToParent(n, acc[n] + 1)
  /\ Goto(n, "exit")
  /\ UNCHANGED <<children, secret, down, cmd, locals, trade, answer, history>>

(* die: the list and the secret go with the process.                        *)
Exit(n) ==
  /\ pc[n] = "exit"
  /\ children' = [children EXCEPT ![n] = <<>>]
  /\ Goto(n, "zombie")
  /\ Serve(n, NoCommand, 0)
  /\ secret' = [secret EXCEPT ![n] = n]
  /\ UNCHANGED <<pipes, trade, answer, history>>

-----------------------------------------------------------------------------
(* The exchange itself, between the two partners.                           *)

(* Mutant: the second partner reads first, like the other.                  *)
ReplySecond_Reads(n) ==
  /\ pc[n] = "second"
  /\ WriteToParent(n, 2)
  /\ Goto(n, "take")
  /\ UNCHANGED <<children, secret, down, cmd, locals, trade, answer, history>>

(* The second partner answers first: its parent goes on while it trades.    *)
ReplySecond(n) ==
  /\ pc[n] = "second"
  /\ WriteToParent(n, 2)
  /\ Goto(n, "give")
  /\ UNCHANGED <<children, secret, down, cmd, locals, trade, answer, history>>

(* A first partner that did not find the other below it spins until both    *)
(* files are there.                                                         *)
Watch(n) ==
  /\ pc[n] = "watch" /\ {n, Other(n)} \subseteq files
  /\ Goto(n, "take")
  /\ UNCHANGED <<children, secret, pipes, cmd, locals, trade, answer, history>>

(* Mutant: a first partner assigns its secret before it writes the old one. *)
Give_Overwritten(n) ==
  /\ pc[n] = "give"
  /\ pc[Other(n)] = "take" /\ fifo[Other(n)] = <<>>
  /\ fifo' = [fifo EXCEPT ![Other(n)] = IF Second(n) THEN <<secret[n]>> ELSE <<tm[n]>>]
  /\ secret' = IF Second(n) THEN secret ELSE [secret EXCEPT ![n] = tm[n]]
  /\ tm' = IF Second(n) THEN tm ELSE [tm EXCEPT ![n] = n]
  /\ Goto(n, IF Second(n) THEN "take" ELSE IF n = Manager THEN "wait"
             ELSE IF acc[n] = 2 THEN "report" ELSE "unfile")
  /\ UNCHANGED <<children, pipes, cmd, locals, fifos, files, answer, history>>

(* Opening a FIFO blocks until the other end is opened too, so the writer   *)
(* goes on when the other has come to its read.                             *)
Give(n) ==
  /\ pc[n] = "give"
  /\ pc[Other(n)] = "take" /\ fifo[Other(n)] = <<>>
  /\ fifo' = [fifo EXCEPT ![Other(n)] = <<secret[n]>>]
  /\ IF Second(n)
     THEN UNCHANGED <<secret, tm>> /\ Goto(n, "take")
     ELSE /\ secret' = [secret EXCEPT ![n] = tm[n]]
          /\ tm' = [tm EXCEPT ![n] = n]
          /\ Goto(n, IF n = Manager THEN "wait" ELSE IF acc[n] = 2 THEN "report" ELSE "unfile")
  /\ UNCHANGED <<children, pipes, cmd, locals, fifos, files, answer, history>>

Take(n) ==
  /\ pc[n] = "take" /\ fifo[n] # <<>>
  /\ fifo' = [fifo EXCEPT ![n] = <<>>]
  /\ IF Second(n)
     THEN secret' = [secret EXCEPT ![n] = fifo[n][1]] /\ Goto(n, "unfile") /\ UNCHANGED tm
     ELSE tm' = [tm EXCEPT ![n] = fifo[n][1]] /\ Goto(n, "give") /\ UNCHANGED secret
  /\ UNCHANGED <<children, pipes, cmd, locals, fifos, files, answer, history>>

(* A first partner that found the other below it answers after the trade.   *)
Report(n) ==
  /\ pc[n] = "report"
  /\ WriteToParent(n, 2)
  /\ Goto(n, "unfile")
  /\ UNCHANGED <<children, secret, down, cmd, locals, trade, answer, history>>

Unfile(n) ==
  /\ pc[n] = "unfile"
  /\ files' = files \ {n}
  /\ Rest(n)
  /\ UNCHANGED <<children, secret, pipes, tm, fifo, fifos, answer, history>>

(* Mutants: the Manager waits for no file, or for one of them.              *)
EndExchange_NoWait ==
  /\ pc[Manager] = "wait"
  /\ fifos' = FALSE
  /\ Tell("exchanged", 0)
  /\ Goto(Manager, "idle")
  /\ UNCHANGED <<children, secret, pipes, cmd, locals, tm, fifo, files, history>>
EndExchange_OneFile ==
  /\ pc[Manager] = "wait"
  /\ Partner(Manager) \/ cmd[Manager].a \notin files
  /\ fifos' = FALSE
  /\ Tell("exchanged", 0)
  /\ Goto(Manager, "idle")
  /\ UNCHANGED <<children, secret, pipes, cmd, locals, tm, fifo, files, history>>

(* The Manager unlinks the FIFOs.  When it is not a partner it first spins  *)
(* until both files are gone.                                               *)
EndExchange ==
  /\ pc[Manager] = "wait"
  /\ Partner(Manager) \/ files \cap {cmd[Manager].a, cmd[Manager].b} = {}
  /\ fifos' = FALSE
  /\ Tell("exchanged", 0)
  /\ Goto(Manager, "idle")
  /\ UNCHANGED <<children, secret, pipes, cmd, locals, tm, fifo, files, history>>

-----------------------------------------------------------------------------
Step(n) ==
  \/ Receive(n) \/ Fork(n) \/ Boot(n) \/ Hear(n)
  \/ Forward(n) \/ Collect(n) \/ Reap(n)
  \/ Reply(n) \/ ReplyPartner(n) \/ ReplyDying(n) \/ Exit(n)
  \/ ReplySecond(n) \/ Watch(n) \/ Give(n) \/ Take(n) \/ Report(n) \/ Unfile(n)
  \/ n = Manager /\ (Conclude \/ EndExchange)

Next == Issue \/ (\E n \in All : Step(n))

(* The user may stop; a process that can go on is scheduled.                *)
Fairness == \A n \in All : WF_vars(Step(n))
Spec == Init /\ [][Next]_vars
FairSpec == Spec /\ Fairness

-----------------------------------------------------------------------------
(* Properties *)

Labels == {"idle", "fork", "boot", "hear", "each", "await", "reap", "exit", "zombie",
           "none", "gone", "second", "give", "take", "watch", "report", "unfile", "wait"}

Commands == [op : {"none", "spawn", "kill", "exchange"}, a : All, b : All, g : 0 .. 1]

(* Every variable has its type; a pipe and a FIFO never hold two messages.  *)
TypeOK ==
  /\ children \in [All -> Seq(Names)]
  /\ secret \in [All -> All] /\ tm \in [All -> All] /\ before \in [All -> All]
  /\ down \in [All -> Seq(Commands)] /\ up \in [All -> Seq(Nat)] /\ fifo \in [All -> Seq(All)]
  /\ \A n \in All : Len(down[n]) <= 1 /\ Len(up[n]) <= 1 /\ Len(fifo[n]) <= 1
  /\ pc \in [All -> Labels]
  /\ cmd \in [All -> Commands] /\ pos \in [All -> Nat] /\ acc \in [All -> Nat]
  /\ fifos \in BOOLEAN /\ files \subseteq Names /\ subtree \in [All -> SUBSET All]
  /\ answer \in [told : {"nothing", "spawned", "missing", "killed", "exchanged"}, count : Nat]

(* The lists of the living processes form a tree that holds every process   *)
(* not yet waited for: nobody exits before its children are waited for, and *)
(* nobody is in two lists or, still running, in none.                       *)
TreeSound ==
  /\ \A n \in Names : pc[n] # "none" =>
       \E p \in All : /\ Alive(p) /\ n \in Kids(p) /\ n \notin Below(Kids(n))
                      /\ \A q \in All \ {p} : n \notin Kids(q)
  /\ \A n \in All : Cardinality(Kids(n)) = Len(children[n])

(* A service that has just traded with the Manager, which does not wait for *)
(* it: its new secret is in the FIFO it has open, or it removes its file.   *)
Trailing(n) ==
  /\ cmd[n].op = "exchange" /\ Other(n) = Manager
  /\ pc[n] = "unfile" \/ (pc[n] = "take" /\ fifo[n] # <<>>)

(* When the Manager takes a command, or has ended, nothing of the commands  *)
(* before is still under way: no service works on one, no message, file or  *)
(* FIFO is left.  Only a service that traded with the Manager may trail.    *)
Quiet ==
  pc[Manager] \in {"idle", "gone"} =>
    /\ \A n \in Names : pc[n] \in {"idle", "none"} \/ Trailing(n)
    /\ \A n \in All : down[n] = <<>> /\ up[n] = <<>>
    /\ \A n \in All : Trailing(n) \/ (n \notin files /\ fifo[n] = <<>>)
    /\ ~fifos

(* What the Manager printed is true.  It says "spawned" exactly when the    *)
(* parent exists, and then the new service is its youngest child.  (It has   *)
(* ended only after a kill.)                                                *)
SpawnAnswer ==
  LET c == cmd[Manager]
  IN pc[Manager] = "idle" /\ c.op = "spawn" =>
       IF answer.told = "spawned"
       THEN Alive(c.a) /\ Alive(c.b) /\ children[c.a][Len(children[c.a])] = c.b
       ELSE answer.told = "missing" /\ ~Alive(c.a) /\ ~Alive(c.b)

(* A kill reports all services below the target, which are all dead and     *)
(* waited for, and "doesn't exist" only when there was no target.           *)
target == subtree[cmd[Manager].a]
Gone(S) == \A n \in S : pc[n] \in {"none", "gone"}
KillAnswer ==
  pc[Manager] \in {"idle", "gone"} /\ cmd[Manager].op = "kill" =>
    IF target = {} THEN answer.told = "missing"
    ELSE /\ answer = [told |-> "killed", count |-> Cardinality(target) - 1]
         /\ Gone(target)

(* An exchange is reported when each partner has what the other had, if     *)
(* only in the FIFO, and so never for one service twice or when one of the  *)
(* two is missing.  When both are, there is no file to wait for, and the    *)
(* Manager says that they have exchanged their secrets all the same.        *)
Swapped ==
  LET c == cmd[Manager] IN SecretOf(c.a) = before[c.b] /\ SecretOf(c.b) = before[c.a]
ExchangeAnswer ==
  LET c == cmd[Manager]
  IN pc[Manager] = "idle" /\ c.op = "exchange" =>
       /\ answer.told = "exchanged"
       /\ Alive(c.a) \/ Alive(c.b) => Alive(c.a) /\ Alive(c.b) /\ c.a # c.b /\ Swapped

AnswerTrue == SpawnAnswer /\ KillAnswer /\ ExchangeAnswer

(* A partner that is to open a FIFO finds it: the Manager does not unlink   *)
(* the FIFOs while one of the partners has not opened both of them.         *)
FifosInPlace ==
  \A n \in All : pc[n] \in {"watch", "second", "give"} \/ (pc[n] = "take" /\ fifo[n] = <<>>)
                   => fifos

(* "have exchanged their secrets" is printed after both partners have the   *)
(* secret of the other.                                                     *)
ToldLast ==
  pc[Manager] = "idle" /\ cmd[Manager].op = "exchange" => \A n \in All : fifo[n] = <<>>

-----------------------------------------------------------------------------
(* The tree that the user sees.  A kill takes effect when the target reads  *)
(* the command, with all that is below it, although they die one by one; an *)
(* exchange when the first partner takes its new secret, although the other *)
(* still has to read the FIFO.                                              *)

Doomed(n) == Alive(n) /\ cmd[n].op = "kill" /\ cmd[n].g = 1
InTree == {n \in All : Alive(n)} \ Below({n \in All : Doomed(n)})
ParentOf(n) == CHOOSE p \in All : Alive(p) /\ n \in Kids(p)

Tree == INSTANCE ServiceTree WITH
          Root <- Manager, Secrets <- All,
          parent <- [n \in InTree \ {Manager} |-> ParentOf(n)],
          up <- Manager \in InTree,
          secret <- [n \in InTree |-> SecretOf(n)]

(* Every step of the processes is a step of the tree or changes nothing the *)
(* user can see: no service is lost or gained, and secrets move only by a   *)
(* complete swap.                                                           *)
ImplementsTree == Tree!STSpec

(* Every command the Manager has taken ends: the Manager is ready for the   *)
(* next one or has ended.  An exchange of a service with itself or with one *)
(* that is missing does not: the partner that exists and the Manager wait   *)
(* for it for ever.                                                         *)
Stuck(c) ==
  /\ c.op = "exchange"
  /\ Alive(c.a) \/ Alive(c.b)
  /\ c.a = c.b \/ ~Alive(c.a) \/ ~Alive(c.b)
CommandEnds ==
  pc[Manager] # "idle" /\ ~Stuck(cmd[Manager]) ~> pc[Manager] \in {"idle", "gone"}
-----------------------------------------------------------------------------
(* The inductive invariant behind TypeOK and TreeSound, in named parts.     *)

(* What each place in the program implies about the process that is there.  *)
Placed(n) ==
  /\ IF n = Manager
     THEN /\ pc[n] \in {"idle", "fork", "hear", "each", "await", "reap", "take", "give", "wait", "gone"}
          /\ down[n] = <<>> /\ up[n] = <<>>
     ELSE pc[n] \notin {"wait", "gone"}
  /\ pc[n] \in {"none", "zombie", "boot", "gone"} => children[n] = <<>>
  /\ pc[n] = "fork" => cmd[n].op = "spawn" /\ cmd[n].a = n
  /\ pc[n] = "hear" => cmd[n].op = "spawn" /\ cmd[n].b \in Kids(n)
  /\ pc[n] \in {"each", "await", "reap"} =>
       /\ cmd[n].op # "none"
       /\ cmd[n].op = "spawn" => acc[n] <= 1
       /\ cmd[n].op = "exchange" => acc[n] <= 2
       /\ ~Second(n)
  /\ pc[n] = "await" => ~LoopOver(n)
  /\ pc[n] = "reap" => cmd[n].op = "kill" /\ pos[n] < Len(children[n])
  /\ pc[n] \in {"second", "watch", "take", "give", "report", "unfile"} =>
       cmd[n].op = "exchange" /\ Partner(n)
  /\ pc[n] = "second" => cmd[n].g = 1
  /\ pc[n] = "wait" => cmd[n].op = "exchange"
  /\ pc[n] = "watch" => acc[n] # 2
  /\ pc[n] = "exit" => cmd[n].op = "kill" /\ cmd[n].g = 1 /\ pos[n] >= Len(children[n])
  /\ pc[n] \in {"exit", "zombie"} => down[n] = <<>>

(* The lists: a service is in one place of one list, and nobody is below    *)
(* itself, that is, in a set of services that are all children of others of *)
(* the set there is nobody.                                                 *)
OneParent ==
  \A p, q \in All : \A i \in 1 .. Len(children[p]), j \in 1 .. Len(children[q]) :
    children[p][i] = children[q][j] => p = q /\ i = j
Rooted == \A n \in Names : pc[n] # "none" => \E p \in All : n \in Kids(p)
Acyclic == \A S \in SUBSET Names : (\A n \in S : \E p \in S : n \in Kids(p)) => S = {}

(* A service in a list has been waited for only if all of the list dies.    *)
Dying(n) == pc[n] \in {"each", "await", "reap", "exit"} /\ cmd[n].op = "kill" /\ cmd[n].g = 1
DeadKids ==
  \A p \in All : \A i \in 1 .. Len(children[p]) :
    pc[children[p][i]] = "none" <=> Dying(p) /\ i <= pos[p]

(* One command is under way in one place: with a process, or in a message.  *)
Holds(n) ==
  \/ pc[n] \in {"fork", "boot", "each", "reap", "second", "report", "wait", "gone"}
  \/ pc[n] \in {"take", "give"} /\ (n = Manager \/ (cmd[n].g = 0 /\ acc[n] = 2))
  \/ pc[n] = "idle" /\ n = Manager
OnePlace ==
  \A n, m \in All :
    /\ Holds(n) /\ Holds(m) => n = m
    /\ down[n] # <<>> /\ down[m] # <<>> => n = m
    /\ up[n] # <<>> /\ up[m] # <<>> => n = m
    /\ Holds(n) => down[m] = <<>> /\ up[m] = <<>>
    /\ down[n] # <<>> => up[m] = <<>>

(* Whoever works on a command has a parent that waits for it, and has been  *)
(* told what the parent was.                                                *)
Engaged(n) ==
  Holds(n) \/ down[n] # <<>> \/ up[n] # <<>> \/ pc[n] \in {"await", "hear", "exit", "zombie"}
Waits(p, k) ==
  \/ pc[p] = "hear" /\ k = cmd[p].b
  \/ pc[p] \in {"await", "reap"} /\ k = Kid(p)
Supervised == \A k \in Names : Engaged(k) => \E p \in All : k \in Kids(p) /\ Waits(p, k)

Sent(p) == IF cmd[p].op = "exchange" THEN [cmd[p] EXCEPT !.g = acc[p]] ELSE cmd[p]
Targets(p, k) == cmd[p].op = "kill" /\ (cmd[p].g = 1 \/ k = cmd[p].a)
SameCommand(p, k) ==
  /\ cmd[k].op = cmd[p].op /\ cmd[k].a = cmd[p].a /\ cmd[k].b = cmd[p].b
  /\ cmd[p].op = "kill" => (cmd[k].g = 1 <=> Targets(p, k))
Fresh(c) == c \in Names /\ pc[c] = "none" /\ \A p \in All : c \notin Kids(p)

Heard(p, k) ==
  /\ pc[p] = "hear" =>
       /\ pc[k] \in {"boot", "idle"} /\ down[k] = <<>>
       /\ up[k] # <<>> => Head(up[k]) = 1
  /\ pc[p] = "reap" => pc[k] \in {"exit", "zombie"}
  /\ pc[p] = "await" =>
       /\ down[k] # <<>> => Head(down[k]) = Sent(p)
       /\ Holds(k) \/ pc[k] \in {"await", "hear"} => pc[k] # "boot" /\ SameCommand(p, k)
       /\ pc[k] \in {"exit", "zombie"} => up[k] # <<>>
       /\ up[k] # <<>> =>
            /\ pc[k] \notin {"await", "hear"}
            /\ pc[k] \in {"exit", "zombie"} <=> Targets(p, k)
            /\ cmd[p].op = "exchange" => Head(up[k]) <= 2
            /\ cmd[p].op = "spawn" => Head(up[k]) <= 1
            /\ cmd[p].op = "spawn" /\ Head(up[k]) = 0 => Fresh(cmd[p].b)
ChainHeard == \A p \in All, k \in Names : Waits(p, k) => Heard(p, k)

(* As long as the parent of the new service is searched for, no process and *)
(* no list has its name.                                                    *)
NameFree ==
  \A n \in All :
    /\ pc[n] = "fork" \/ (pc[n] = "each" /\ cmd[n].op = "spawn" /\ acc[n] = 0) => Fresh(cmd[n].b)
    /\ down[n] # <<>> => Head(down[n]).op # "none"
    /\ down[n] # <<>> /\ Head(down[n]).op = "spawn" => Fresh(Head(down[n]).b)

ServiceInv ==
  /\ TypeOK /\ (\A n \in All : Placed(n))
  /\ OneParent /\ Rooted /\ Acyclic /\ DeadKids
  /\ OnePlace /\ Supervised /\ ChainHeard /\ NameFree
-----------------------------------------------------------------------------
(* What it takes besides for Quiet and FifosInPlace: the files, the FIFOs   *)
(* and the two partners of an exchange.                                     *)

Busy == pc[Manager] \notin {"idle", "gone"}
SameAsManager(c) == c.op = cmd[Manager].op /\ c.a = cmd[Manager].a /\ c.b = cmd[Manager].b
Trading == {"second", "watch", "give", "take", "report", "unfile"}
Looping(n) == pc[n] \in {"each", "await"} /\ cmd[n].op = "exchange"

(* A service has its file while it is a partner; what lies in a FIFO was    *)
(* written to somebody who reads; the FIFOs are there during an exchange.   *)
Filed == files = {n \in Names : pc[n] \in Trading \/ (Looping(n) /\ Partner(n))}
FifoRead == \A n \in All : fifo[n] # <<>> => pc[n] = "take"
FifosExist == fifos <=> Busy /\ cmd[Manager].op = "exchange"

(* Who works on a command works on the Manager's; a partner of an exchange  *)
(* that is over is one that traded with the Manager.                        *)
Current ==
  \A n \in Names :
    /\ pc[n] \in {"fork", "hear", "each", "await", "reap", "exit"} => Busy /\ SameAsManager(cmd[n])
    /\ down[n] # <<>> => Busy /\ SameAsManager(Head(down[n]))
    /\ pc[n] \in Trading => Trailing(n) \/ (Busy /\ SameAsManager(cmd[n]))

(* When the Manager trades, it counts as the first partner.                 *)
SecondToManager ==
  /\ \A n \in Names : (pc[n] \in Trading \/ Looping(n)) /\ Manager \in {cmd[n].a, cmd[n].b} => cmd[n].g = 1
  /\ cmd[Manager].op = "exchange" /\ Partner(Manager) =>
       /\ \A n \in All : Looping(n) => acc[n] >= 1
       /\ \A n \in All : down[n] # <<>> => Head(down[n]).g = 1
       /\ \A n \in All : up[n] # <<>> => Head(up[n]) >= 1

(* The Manager stops waiting for the FIFO only after the other opened it.   *)
ManagerGave ==
  pc[Manager] = "wait" /\ Partner(Manager) =>
    \A n \in Names : pc[n] \in Trading => pc[n] = "unfile" \/ (pc[n] = "take" /\ fifo[n] # <<>>)

TradeInv == Filed /\ FifoRead /\ FifosExist /\ Current /\ SecondToManager /\ ManagerGave
-----------------------------------------------------------------------------
(* What it takes besides for AnswerTrue.  First the search, in any command: *)
(* who has an answer of zero from some of its children has nobody that the  *)
(* command is about below them.                                             *)
Sought == IF cmd[Manager].op = "exchange" THEN {cmd[Manager].a, cmd[Manager].b} ELSE {cmd[Manager].a}
Unfound(n) == Below({n}) \cap Sought = {}
EmptyHanded(n) == pc[n] \in {"each", "await"} /\ acc[n] = 0 /\ ~Dying(n)

Searched ==
  /\ \A n \in All : EmptyHanded(n) =>
       /\ n \notin Sought
       /\ \A i \in 1 .. Len(children[n]) : i <= pos[n] => Unfound(children[n][i])
  /\ \A n \in All : up[n] # <<>> /\ Head(up[n]) = 0 => Unfound(n)

(* A service that dies counts, and so does who waits for it.                *)
DeadCount ==
  \A n \in All :
    /\ pc[n] = "reap" => acc[n] # 0
    /\ pc[n] \in {"exit", "zombie"} /\ up[n] # <<>> => Head(up[n]) # 0

(* The number of partners found grows on its way.                           *)
CountGrows ==
  \A n, m \in All : Looping(m) =>
    /\ Looping(n) /\ pc[n] = "each" => acc[m] <= acc[n]
    /\ down[n] # <<>> => acc[m] <= Head(down[n]).g
    /\ up[n] # <<>> => acc[m] <= Head(up[n])

SearchInv == Searched /\ DeadCount /\ CountGrows

(* The new service, from the fork until the Manager has told its user.      *)
Made ==
  LET c == cmd[Manager]
  IN Alive(c.a) /\ Alive(c.b) /\ children[c.a] # <<>> /\ children[c.a][Len(children[c.a])] = c.b
SaysMade(n) ==
  pc[n] = "hear" \/ (up[n] # <<>> /\ Head(up[n]) # 0) \/ (pc[n] = "each" /\ acc[n] # 0)
SpawnMade == cmd[Manager].op = "spawn" /\ Busy => \A n \in All : SaysMade(n) => Made

(* A kill.  What was below a process when the command was given is itself   *)
(* and what was below its children, each of them once; the Manager is       *)
(* below nobody.                                                            *)
OnceEach(n) ==
  /\ subtree[n] = {n} \cup UNION {subtree[k] : k \in Kids(n)}
  /\ \A k \in Kids(n) : n \notin subtree[k]
  /\ \A k, l \in Kids(n) : k # l => subtree[k] \cap subtree[l] = {}
TargetWhole ==
  /\ \A n \in All : Alive(n) => n \in subtree[n]
  /\ \A n \in target : subtree[n] \subseteq target /\ (Alive(n) => OnceEach(n))
  /\ Manager \in target => cmd[Manager].a = Manager

(* Who dies has counted what was below the children that answered, and all  *)
(* of that is gone, but for the one it still waits for.                     *)
Counted(n) ==
  UNION {subtree[children[n][i]] :
           i \in {j \in 1 .. Len(children[n]) : j <= pos[n] \/ (pc[n] = "reap" /\ j = pos[n] + 1)}}
Left(n) == IF pc[n] = "reap" THEN {Kid(n)} ELSE {}
DyingCounted ==
  \A n \in All :
    /\ Dying(n) => n \in target /\ acc[n] = Cardinality(Counted(n)) /\ Gone(Counted(n) \ Left(n))
    /\ pc[n] \in {"exit", "zombie"} =>
         /\ Gone(subtree[n] \ {n})
         /\ up[n] # <<>> => Head(up[n]) = Cardinality(subtree[n])

(* Above the target a count is the whole one, and who counts is the first   *)
(* to do so, its parent the next.                                           *)
TargetCounted ==
  \A n \in All :
    /\ pc[n] \in {"each", "reap"} /\ cmd[n].g = 0 /\ acc[n] # 0 =>
         /\ acc[n] = Cardinality(target) /\ Gone(target \ Left(n))
         /\ pc[n] = "reap" => Kid(n) = cmd[Manager].a
    /\ up[n] # <<>> /\ Head(up[n]) # 0 /\ pc[n] \notin {"exit", "zombie"} =>
         Head(up[n]) = Cardinality(target) /\ Gone(target)

(* Nobody searches on when the target is dead.                              *)
Over == target # {} /\ pc[cmd[Manager].a] = "none"
SearchOver ==
  Over =>
    /\ Gone(target)
    /\ \A n \in All :
         /\ down[n] = <<>> /\ (pc[n] = "each" => acc[n] # 0)
         /\ up[n] # <<>> => Head(up[n]) # 0

Killed ==
  cmd[Manager].op = "kill" /\ Busy => TargetWhole /\ DyingCounted /\ TargetCounted /\ SearchOver

(* An exchange.  Who has the command knows how many partners were found; a   *)
(* partner that was not found yet may still trail from an earlier exchange.  *)
Partners == {cmd[Manager].a, cmd[Manager].b}
CountIs(k) ==
  \A n \in All :
    /\ down[n] # <<>> => Head(down[n]).g = k
    /\ up[n] # <<>> => Head(up[n]) = k
    /\ pc[n] = "each" => acc[n] = k
Away(n) == n # Manager /\ (Trailing(n) \/ pc[n] \notin Trading \cup {"each", "await"})
Kept == \A n \in Partners : SecretOf(n) = before[n]

(* The partner f was found first and waits for the other, if there is one.  *)
First(f) ==
  /\ SameAsManager(cmd[f]) /\ ~Second(f)
  /\ pc[f] \in {"each", "await", "watch"} \/ (pc[f] = "take" /\ fifo[f] = <<>>)
Reads(s) == SameAsManager(cmd[s]) /\ Second(s) /\ pc[s] = "take" /\ fifo[s] = <<>>
Settled(n) ==
  /\ Alive(n) /\ pc[n] \notin {"each", "await", "second", "watch", "give"}
  /\ pc[n] = "take" => Second(n) /\ fifo[n] # <<>>

NoneFound ==
  /\ CountIs(0) /\ Kept /\ pc[Manager] \in {"each", "await", "wait"}
  /\ \A n \in Partners : Away(n) /\ (pc[Manager] = "wait" => ~Alive(n))
OneFound(f) ==
  /\ CountIs(1) /\ Kept /\ First(f) /\ (pc[f] = "await" => acc[f] = 1)
  /\ \A s \in Partners \ {f} : Away(s)
BothFound(f, s) ==
  /\ CountIs(2) /\ Kept /\ First(f)
  /\ SameAsManager(cmd[s]) /\ Second(s) /\ pc[s] \in {"second", "give"}
FirstToTake(f, s) ==
  /\ CountIs(2) /\ Kept /\ Reads(s)
  /\ SameAsManager(cmd[f]) /\ ~Second(f) /\ pc[f] = "take" /\ fifo[f] = <<before[s]>>
FirstToGive(f, s) ==
  /\ CountIs(2) /\ Kept /\ Reads(s)
  /\ SameAsManager(cmd[f]) /\ ~Second(f) /\ pc[f] = "give" /\ tm[f] = before[s]
Traded ==
  CountIs(2) /\ cmd[Manager].a # cmd[Manager].b /\ Swapped /\ \A n \in Partners : Settled(n)

Exchanging ==
  cmd[Manager].op = "exchange" /\ Busy =>
    \/ NoneFound \/ Traded \/ \E f \in Partners : OneFound(f)
    \/ \E f \in Partners : \E s \in Partners \ {f} :
         BothFound(f, s) \/ FirstToTake(f, s) \/ FirstToGive(f, s)
=============================================================================
