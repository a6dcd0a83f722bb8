------------------------ MODULE ServiceAnswerProofs -------------------------
(***************************************************************************)
(* What the Manager prints, for any names, commands and tree, is true: of  *)
(* a spawn, of a kill and of an exchange, each with the invariant of its   *)
(* own kind of command on top of SearchInvariance.                         *)
(***************************************************************************)
EXTENDS ServiceTradeProofs

-----------------------------------------------------------------------------
(* The answer to a spawn.                                                  *)

(* Every process that runs, or was not waited for, is below the Manager.    *)
LEMMA AllBelowManager ==
  ASSUME ServiceInv, NEW x \in Names, pc[x] # "none"
  PROVE  x \in Below({Manager})
  <1> DEFINE B == Below({Manager})
             W == {y \in Names : pc[y] # "none" /\ y \notin B}
  <1>1. Manager \in B /\ Closed(B)
    BY BelowLeast DEF All
  <1>2. ASSUME NEW y \in W PROVE \E p \in W : y \in Kids(p)
    <2>1. PICK p \in All : y \in Kids(p)
      BY <1>2 DEF ServiceInv, Rooted
    <2>2. p \notin B
      BY <1>1, <2>1 DEF Closed
    <2>3. p \in Names
      BY <1>1, <2>2 DEF All
    <2>4. pc[p] # "none"
      BY <2>1 DEF ServiceInv, Placed, Kids
    <2> QED
      BY <2>1, <2>2, <2>3, <2>4
  <1>3. W = {}
    BY <1>2 DEF ServiceInv, Acyclic
  <1> QED
    BY <1>3

(* When the Manager waits for its user only who trails moves.               *)
LEMMA IdleSteps ==
  ASSUME ServiceInv, TradeInv, ~Busy, NEW n \in All, Step(n)
  PROVE  n \in Names /\ Trailing(n) /\ Aside(n) /\ UNCHANGED up
  <1>1. n = Manager => pc[n] \in {"idle", "gone"}
    BY DEF Busy
  <1>2. /\ \A m \in Names : pc[m] \notin Working \cup {"boot", "zombie"}
        /\ \A m \in All : down[m] = <<>> /\ up[m] = <<>>
    BY ManagerHolds DEF Busy
  <1>3. ~(Receive(n) \/ Fork(n) \/ Boot(n) \/ Hear(n) \/ Forward(n) \/ Collect(n) \/ Reap(n)
            \/ Reply(n) \/ ReplyPartner(n) \/ ReplyDying(n) \/ Exit(n))
    BY <1>1, <1>2, TradeTyped
       DEF Receive, Fork, Boot, Hear, Forward, Collect, Reap, Reply, ReplyPartner, ReplyDying, Exit, Working
  <1>4. ~(n = Manager /\ (Conclude \/ EndExchange))
    BY <1>1 DEF Conclude, EndExchange
  <1>5. Aside(n)
    BY <1>3, <1>4, DoesAside DEF Step
  <1>6. n \in Names /\ pc[n] \in Trading
    BY <1>1, <1>5, TradeTyped DEF Aside, Trading
  <1>7. Trailing(n)
    BY <1>6 DEF TradeInv, Current
  <1> QED
    BY <1>5, <1>6, <1>7 DEF Aside, Trailing

(* During a command the Manager keeps it.                                   *)
LEMMA CommandStays ==
  ASSUME ServiceInv, TradeInv, NEW n \in All, Step(n)
  PROVE  cmd'[Manager] = cmd[Manager]
  <1>1. Manager \in All
    BY DEF All
  <1>2. CASE Receive(n) \/ Fork(n) \/ Boot(n) \/ Hear(n)
    BY <1>1, <1>2, DoesReceive, DoesFork, DoesBoot, DoesHear DEF Only
  <1>3. CASE Forward(n) \/ Collect(n) \/ Reap(n)
    BY <1>1, <1>3, DoesForward, DoesCollect, DoesReap
  <1>4. CASE Reply(n) \/ ReplyPartner(n) \/ ReplyDying(n) \/ Exit(n)
    BY <1>1, <1>4, DoesReply, DoesReplyPartner, DoesReplyDying, DoesExit DEF Only
  <1>5. CASE ReplySecond(n) \/ Watch(n) \/ Give(n) \/ Take(n) \/ Report(n) \/ Unfile(n)
    BY <1>1, <1>5, DoesAside DEF Aside, Only
  <1>6. CASE n = Manager /\ (Conclude \/ EndExchange)
    BY <1>6, DoesConclude, DoesEndExchange
  <1> QED
    BY <1>2, <1>3, <1>4, <1>5, <1>6 DEF Step

SpawnInv == SpawnMade /\ SpawnAnswer

(* The new service stays where it is.                                       *)
LEMMA MadeKept ==
  ASSUME Made, UNCHANGED children, cmd'[Manager] = cmd[Manager],
         cmd[Manager].a \in All, cmd[Manager].b \in All, \A m \in All : Alive(m) => Alive(m)'
  PROVE  Made'
  BY DEF Made

LEMMA SubjectsTyped ==
  ASSUME ServiceInv
  PROVE  Manager \in All /\ cmd[Manager].a \in All /\ cmd[Manager].b \in All
  <1>1. Manager \in All
    BY DEF All
  <1>2. cmd[Manager] \in Commands
    BY <1>1, TradeTyped
  <1> QED
    BY <1>1, <1>2, CommandFields

LEMMA SpawnKept ==
  ASSUME ServiceInv, SpawnInv, UNCHANGED children, cmd'[Manager] = cmd[Manager], Busy, pc'[Manager] # "idle",
         cmd[Manager].op = "spawn" => \A m \in All : Alive(m) => Alive(m)',
         cmd[Manager].op = "spawn" => \A m \in All : SaysMade(m)' => \E q \in All : SaysMade(q)
  PROVE  SpawnInv'
  <1>1. cmd[Manager].a \in All /\ cmd[Manager].b \in All
    BY SubjectsTyped
  <1>2. cmd[Manager].op = "spawn" /\ (\E q \in All : SaysMade(q)) => Made'
    BY <1>1, MadeKept DEF SpawnInv, SpawnMade
  <1>3. SpawnMade'
    BY <1>2 DEF SpawnMade
  <1>4. SpawnAnswer'
    BY DEF SpawnAnswer
  <1> QED
    BY <1>3, <1>4 DEF SpawnInv

(* The other commands.                                                      *)
LEMMA NoSpawn ==
  ASSUME cmd'[Manager].op # "spawn"
  PROVE  SpawnInv'
  BY DEF SpawnInv, SpawnMade, SpawnAnswer

LEMMA SpawnReceive ==
  ASSUME ServiceInv, TradeInv, SpawnInv, NEW n \in All, Receive(n)
  PROVE  SpawnInv'
  <1>1. /\ n # Manager /\ Busy /\ Only(n) /\ UNCHANGED <<children, up>>
        /\ \A m \in All : up[m] = <<>> /\ ~Holds(m)
    BY DoesReceive
  <1>2. pc'[n] \in {"fork", "each", "second"} /\ (cmd[Manager].op = "spawn" => acc'[n] = 0)
    BY DoesReceive DEF SameAsManager
  <1>3. \A m \in All : SaysMade(m)' /\ cmd[Manager].op = "spawn" => SaysMade(m)
    BY <1>1, <1>2 DEF Only, SaysMade, Holds
  <1>4. \A m \in All : Alive(m) => Alive(m)'
    BY <1>1, <1>2 DEF Only, Alive
  <1> QED
    BY <1>1, <1>3, <1>4, SpawnKept, TradeTyped DEF Only, Busy

LEMMA SpawnFork ==
  ASSUME ServiceInv, TradeInv, SpawnInv, NEW n \in All, NEW c, c = cmd[n].b, Fork(n)
  PROVE  SpawnInv'
  <1>1. /\ pc[n] = "fork" /\ Busy /\ SameAsManager(cmd[n]) /\ cmd[n].a = n /\ c \in All /\ c # n /\ c # Manager
        /\ pc'[n] = "hear" /\ pc'[c] = "boot" /\ cmd'[n] = cmd[n]
        /\ \A m \in All : m # n /\ m # c => pc'[m] = pc[m] /\ cmd'[m] = cmd[m]
        /\ children'[n] = Append(children[n], c)
    BY DoesFork
  <1>2. cmd'[Manager] = cmd[Manager] /\ pc'[Manager] # "idle" /\ cmd[Manager].a = n /\ cmd[Manager].b = c
    BY <1>1, TradeTyped DEF SameAsManager, Busy
  <1>3. children[n] \in Seq(Names) /\ c \in Names
    BY <1>1 DEF ServiceInv, TypeOK, All
  <1>4. children'[n] # <<>> /\ children'[n][Len(children'[n])] = c
    BY <1>1, <1>3
  <1>5. Alive(n)' /\ Alive(c)'
    BY <1>1 DEF Alive
  <1>6. Made'
    BY <1>2, <1>4, <1>5 DEF Made
  <1> QED
    BY <1>2, <1>6 DEF SpawnInv, SpawnMade, SpawnAnswer

LEMMA SpawnBoot ==
  ASSUME ServiceInv, TradeInv, SpawnInv, NEW n \in All, Boot(n)
  PROVE  SpawnInv'
  <1>1. /\ pc[n] = "boot" /\ n # Manager /\ Only(n) /\ pc'[n] = "idle" /\ UNCHANGED children
        /\ \E p \in All : pc[p] = "hear"
    BY DoesBoot
  <1>2. PICK p \in All : pc[p] = "hear"
    BY <1>1
  <1>3. p = Manager \/ (p \in Names /\ pc[p] \in Working)
    BY <1>2 DEF All, Working
  <1>4. Busy
    BY <1>2, <1>3, ServesManager DEF Working
  <1>5. \A m \in All : Alive(m) => Alive(m)'
    BY <1>1 DEF Only, Alive
  <1>6. SaysMade(p)
    BY <1>2 DEF SaysMade
  <1> QED
    BY <1>1, <1>4, <1>5, <1>6, SpawnKept, TradeTyped DEF Only, Busy

LEMMA SpawnHear ==
  ASSUME ServiceInv, TradeInv, SpawnInv, NEW n \in All, Hear(n)
  PROVE  SpawnInv'
  <1>1. /\ pc[n] = "hear" /\ Busy /\ cmd[n].op = "spawn" /\ SameAsManager(cmd[n]) /\ Only(n)
        /\ pc'[n] = "idle" /\ UNCHANGED children
        /\ n = Manager => answer'.told = "spawned" /\ cmd' = cmd
    BY DoesHear
  <1>2. \A m \in All : Alive(m) => Alive(m)'
    BY <1>1 DEF Only, Alive
  <1>3. SaysMade(n)
    BY <1>1 DEF SaysMade
  <1>4. CASE n # Manager
    BY <1>1, <1>2, <1>3, <1>4, SpawnKept, TradeTyped DEF Only, Busy
  <1>5. CASE n = Manager
    <2>1. Made /\ cmd[Manager].a \in All /\ cmd[Manager].b \in All
      BY <1>1, <1>3, <1>5, SubjectsTyped DEF SpawnInv, SpawnMade
    <2>2. Made'
      BY <1>1, <1>2, <1>5, <2>1, MadeKept
    <2> QED
      BY <1>1, <1>5, <2>2 DEF SpawnInv, SpawnMade, SpawnAnswer, Made
  <1> QED
    BY <1>4, <1>5

LEMMA SpawnForward ==
  ASSUME ServiceInv, TradeInv, SpawnInv, NEW n \in All, Forward(n)
  PROVE  SpawnInv'
  <1>1. Busy /\ Only(n) /\ pc[n] = "each" /\ pc'[n] = "await" /\ UNCHANGED <<children, up, cmd, acc>>
    BY DoesForward
  <1>2. \A m \in All : (Alive(m) => Alive(m)') /\ (SaysMade(m)' => SaysMade(m))
    BY <1>1 DEF Only, Alive, SaysMade
  <1> QED
    BY <1>1, <1>2, SpawnKept, TradeTyped DEF Only, Busy

LEMMA SpawnCollect ==
  ASSUME ServiceInv, TradeInv, SpawnInv, NEW n \in All, NEW k, k = Kid(n), Collect(n)
  PROVE  SpawnInv'
  <1>1. /\ Busy /\ SameAsManager(cmd[n]) /\ Only(n) /\ pc[n] = "await" /\ up[k] # <<>> /\ k \in All
        /\ \A m \in All : up'[m] = <<>> /\ ~Holds(m)
        /\ acc'[n] = NewAcc(n, Head(up[k])) /\ pc'[n] \in {"reap", "each"}
        /\ UNCHANGED <<children, cmd>>
    BY DoesCollect DEF ChildOf
  <1>2. cmd[Manager].op = "spawn" => acc'[n] = Head(up[k])
    BY <1>1 DEF NewAcc, SameAsManager
  <1>3. \A m \in All : SaysMade(m)' /\ cmd[Manager].op = "spawn" => SaysMade(m) \/ SaysMade(k)
    BY <1>1, <1>2 DEF Only, SaysMade, Holds
  <1>4. \A m \in All : Alive(m) => Alive(m)'
    BY <1>1 DEF Only, Alive
  <1> QED
    BY <1>1, <1>3, <1>4, SpawnKept, TradeTyped DEF Only, Busy

LEMMA SpawnReply ==
  ASSUME ServiceInv, TradeInv, SpawnInv, NEW n \in All, Reply(n)
  PROVE  SpawnInv'
  <1>1. /\ Busy /\ Only(n) /\ n # Manager /\ pc[n] = "each" /\ pc'[n] = "idle" /\ UNCHANGED children
        /\ up'[n] = <<acc[n]>> /\ \A m \in All : m # n => up'[m] = <<>>
    BY DoesReply
  <1>2. \A m \in All : (Alive(m) => Alive(m)') /\ (SaysMade(m)' => SaysMade(m))
    BY <1>1 DEF Only, Alive, SaysMade
  <1> QED
    BY <1>1, <1>2, SpawnKept, TradeTyped DEF Only, Busy

(* What the Manager says in the end, the search over.                       *)
LEMMA SpawnConclude ==
  ASSUME ServiceInv, TradeInv, SearchInv, SpawnInv, Conclude
  PROVE  SpawnInv'
  <1> DEFINE c == cmd[Manager]
             k == acc[Manager]
  <1>1. /\ pc[Manager] = "each" /\ Manager \in All /\ LoopOver(Manager) /\ Only(Manager) /\ k \in Nat
        /\ UNCHANGED cmd /\ c.a \in All /\ c.b \in All
    BY DoesConclude, SubjectsTyped
  <1>2. CASE c.op = "spawn"
    <2>1. /\ pc'[Manager] = "idle" /\ UNCHANGED children
          /\ answer'.told = IF k = 1 THEN "spawned" ELSE "missing"
      BY <1>2, DoesConclude
    <2>2. \A m \in All : Alive(m)' <=> Alive(m)
      BY <1>1, <2>1 DEF Only, Alive
    <2>3. CASE k = 1
      <3>1. Made
        BY <1>1, <1>2, <2>3 DEF SpawnInv, SpawnMade, SaysMade, Busy
      <3>2. Made'
        BY <1>1, <2>1, <2>2, <3>1, MadeKept
      <3> QED
        BY <1>1, <2>1, <2>3, <3>2 DEF SpawnInv, SpawnMade, SpawnAnswer, Made, Busy
    <2>4. CASE k # 1
      <3>1. k = 0
        BY <1>1, <1>2, <2>4, TradeTyped DEF Placed
      <3>2. ~Alive(c.b)
        BY <1>1, <1>2, <3>1 DEF ServiceInv, NameFree, Fresh, Alive
      <3>3. Unfound(Manager)
        BY <1>1, <1>2, <3>1, UnfoundAtEnd DEF Dying
      <3>4. c.a \notin Below({Manager})
        BY <1>2, <3>3 DEF Unfound, Sought
      <3>5. c.a # Manager
        BY <3>4, BelowSplit DEF All
      <3>6. ~Alive(c.a)
        BY <1>1, <3>4, <3>5, AllBelowManager DEF All, Alive
      <3> QED
        BY <1>1, <2>1, <2>2, <2>4, <3>2, <3>6 DEF SpawnInv, SpawnMade, SpawnAnswer, Busy
    <2> QED
      BY <2>3, <2>4
  <1> QED
    BY <1>1, <1>2, NoSpawn

LEMMA SpawnIssue ==
  ASSUME ServiceInv, TradeInv, Issue
  PROVE  SpawnInv'
  <1>1. /\ Manager \in All /\ Silent /\ Only(Manager) /\ \A m \in Names : pc[m] \notin Working
        /\ UNCHANGED up /\ pc'[Manager] \in {"fork", "each"}
        /\ cmd'[Manager].op # "exchange" => acc'[Manager] = 0
    <2>0. PICK op \in Ops, a \in All, b \in All, g \in {0, 1} : Issued(op, a, b, g)
      BY DoesIssue
    <2>1. /\ Manager \in All /\ Silent /\ Only(Manager) /\ \A m \in Names : pc[m] \notin Working
          /\ cmd'[Manager] = Command(op, a, b, g)
          /\ acc'[Manager] = IF op = "exchange" THEN g ELSE 0
          /\ pc'[Manager] = IF op = "spawn" /\ a = Manager THEN "fork" ELSE "each"
          /\ UNCHANGED up
      BY <2>0 DEF Issued
    <2>2. cmd'[Manager].op = op
      BY <2>1 DEF Command
    <2> QED
      BY <2>1, <2>2
  <1>2. \A m \in All : m # Manager => pc'[m] \notin Working
    BY <1>1 DEF Only, All
  <1>3. cmd'[Manager].op = "spawn" => \A m \in All : ~SaysMade(m)'
    BY <1>1, <1>2 DEF SaysMade, Silent, Working
  <1> QED
    BY <1>1, <1>3 DEF SpawnInv, SpawnMade, SpawnAnswer

LEMMA SpawnIdle ==
  ASSUME ServiceInv, TradeInv, SpawnInv, ~Busy, NEW n \in All, Step(n)
  PROVE  SpawnInv'
  <1>1. /\ n \in Names /\ Aside(n) /\ Manager \in All /\ n # Manager
    BY IdleSteps, NamesAssumption DEF All
  <1>2. pc'[Manager] = pc[Manager] /\ cmd'[Manager] = cmd[Manager] /\ UNCHANGED <<children, answer>>
    BY <1>1 DEF Aside, Only
  <1>3. \A m \in All : Alive(m)' <=> Alive(m)
    BY <1>1 DEF Aside, Only, Alive, Trading
  <1>4. cmd[Manager].a \in All /\ cmd[Manager].b \in All
    BY SubjectsTyped
  <1> QED
    BY <1>2, <1>3, <1>4 DEF SpawnInv, SpawnMade, SpawnAnswer, Busy

LEMMA SpawnAside ==
  ASSUME ServiceInv, TradeInv, SpawnInv, Busy, NEW n \in All, Aside(n)
  PROVE  SpawnInv'
  <1>1. /\ Only(n) /\ pc[n] \in Trading /\ pc'[n] \in (Trading \ {"second", "watch"}) \cup {"idle", "wait"}
        /\ n = Manager => cmd' = cmd /\ pc'[n] # "idle"
        /\ cmd[n].op = "exchange" /\ UNCHANGED children
        /\ pc[n] \in {"take", "give", "watch", "unfile"} => up' = up
    BY DEF Aside
  <1>2. cmd'[Manager] = cmd[Manager] /\ pc'[Manager] # "idle"
    BY <1>1, TradeTyped DEF Only, Busy
  <1>3. CASE cmd[Manager].op = "spawn"
    <2>1. n \in Names
      BY <1>1, <1>3 DEF All
    <2>2. Trailing(n)
      BY <1>1, <1>3, <2>1 DEF TradeInv, Current, SameAsManager
    <2>3. up' = up
      BY <1>1, <2>2 DEF Trailing
    <2>4. \A m \in All : (Alive(m) => Alive(m)') /\ (SaysMade(m)' => SaysMade(m))
      BY <1>1, <2>3 DEF Only, Alive, SaysMade, Trading
    <2> QED
      BY <1>1, <1>2, <2>4, SpawnKept
  <1> QED
    BY <1>2, <1>3, NoSpawn

LEMMA SpawnNext ==
  ASSUME ServiceInv, TradeInv, SearchInv, SpawnInv, Busy, NEW n \in All, Step(n)
  PROVE  SpawnInv'
  <1>1. CASE Receive(n) \/ Fork(n) \/ Boot(n) \/ Hear(n)
    BY <1>1, SpawnReceive, SpawnFork, SpawnBoot, SpawnHear
  <1>2. CASE Forward(n) \/ Collect(n) \/ Reply(n)
    BY <1>2, SpawnForward, SpawnCollect, SpawnReply
  <1>3. CASE Reap(n) \/ ReplyPartner(n) \/ ReplyDying(n) \/ Exit(n)
    <2>1. cmd[n].op # "spawn" /\ SameAsManager(cmd[n])
      BY <1>3, DoesReap, DoesReplyPartner, DoesReplyDying, DoesExit
    <2>2. cmd'[Manager] = cmd[Manager]
      <3>1. CASE Reap(n)
        BY <3>1, DoesReap
      <3>2. CASE ReplyPartner(n) \/ ReplyDying(n) \/ Exit(n)
        BY <3>2, DoesReplyPartner, DoesReplyDying, DoesExit, TradeTyped DEF Only
      <3> QED
        BY <1>3, <3>1, <3>2
    <2> QED
      BY <2>1, <2>2, NoSpawn DEF SameAsManager
  <1>4. CASE ReplySecond(n) \/ Watch(n) \/ Give(n) \/ Take(n) \/ Report(n) \/ Unfile(n)
    BY <1>4, DoesAside, SpawnAside
  <1>5. CASE n = Manager /\ Conclude
    BY <1>5, SpawnConclude
  <1>6. CASE EndExchange
    BY <1>6, DoesEndExchange, NoSpawn
  <1> QED
    BY <1>1, <1>2, <1>3, <1>4, <1>5, <1>6 DEF Step

(* "spawned" and "doesn't exist" are true: the new service is the youngest  *)
(* child of the one named, or there is no service of that name.             *)
THEOREM SpawnAnswered == Spec => []SpawnAnswer
  <1>1. Init => SpawnInv
    BY DEF Init, SpawnInv, SpawnMade, SpawnAnswer, All, NoCommand, Command
  <1>2. ASSUME ServiceInv, TradeInv, SearchInv, SpawnInv, [Next]_vars PROVE SpawnInv'
    <2>1. CASE UNCHANGED vars
      BY <1>2, <2>1 DEF vars, pipes, locals, SpawnInv, SpawnMade, SpawnAnswer, SaysMade, Made, Busy, Alive
    <2> QED
      BY <1>2, <2>1, SpawnIssue, SpawnIdle, SpawnNext DEF Next
  <1> QED
    BY <1>1, <1>2, SearchInvariance, PTL DEF Spec, SpawnInv
-----------------------------------------------------------------------------
(* The answer to a kill.                                                   *)

KillInv == Killed /\ KillAnswer
KillParts == TargetWhole /\ DyingCounted /\ TargetCounted /\ SearchOver

LEMMA CountedTyped ==
  ASSUME ServiceInv, NEW n \in All
  PROVE  Counted(n) \subseteq All
  <1>1. \A i \in 1 .. Len(children[n]) : children[n][i] \in All
    BY DEF ServiceInv, TypeOK, All
  <1>2. \A m \in All : subtree[m] \in SUBSET All
    BY DEF ServiceInv, TypeOK
  <1> QED
    BY <1>1, <1>2 DEF Counted

LEMMA TargetTyped ==
  ASSUME ServiceInv
  PROVE  /\ cmd[Manager].a \in All /\ target \in SUBSET All /\ IsFiniteSet(target)
         /\ \A n \in All : subtree[n] \in SUBSET All /\ IsFiniteSet(subtree[n]) /\ IsFiniteSet(Counted(n))
  <1>1. IsFiniteSet(All)
    BY FS_AddElement, NamesAssumption DEF All
  <1>2. cmd[Manager].a \in All /\ \A n \in All : subtree[n] \in SUBSET All
    BY SubjectsTyped DEF ServiceInv, TypeOK
  <1> QED
    BY <1>1, <1>2, CountedTyped, FS_Subset DEF target

(* Of the other processes nothing changes but that one is waited for.       *)
Same(m) ==
  pc'[m] = pc[m] /\ cmd'[m] = cmd[m] /\ acc'[m] = acc[m] /\ pos'[m] = pos[m] /\ children'[m] = children[m]
Others(n) ==
  \A m \in All : m # n =>
    \/ Same(m) /\ up'[m] \in {<<>>, up[m]}
    \/ pc[m] = "zombie" /\ pc'[m] = "none" /\ up'[m] = <<>>
Stays == cmd'[Manager] = cmd[Manager] /\ subtree' = subtree

LEMMA GoneKept ==
  ASSUME NEW n \in All, Others(n), pc[n] \notin {"none", "gone"}
  PROVE  \A m \in All : pc[m] \in {"none", "gone"} => pc'[m] \in {"none", "gone"}
  BY DEF Others, Same

LEMMA WholeKept ==
  ASSUME ServiceInv, TargetWhole, NEW n \in All, Others(n), Stays, Alive(n),
         n \in target /\ Alive(n)' => children'[n] = children[n]
  PROVE  TargetWhole'
  <1>1. \A m \in All : Alive(m)' => Alive(m)
    BY DEF Others, Same, Alive
  <1>2. \A m \in target : Alive(m)' => Alive(m) /\ children'[m] = children[m]
    BY <1>1, TargetTyped DEF Others, Same, Alive
  <1>3. target' = target
    BY DEF target, Stays
  <1>4. \A m \in target : Alive(m)' => OnceEach(m)'
    <2> TAKE m \in target
    <2> HAVE Alive(m)'
    <2>1. OnceEach(m) /\ Kids(m)' = Kids(m) /\ subtree' = subtree
      BY <1>2 DEF TargetWhole, Kids, Stays
    <2> QED
      BY <2>1 DEF OnceEach
  <1> QED
    BY <1>1, <1>3, <1>4 DEF TargetWhole, Stays

LEMMA DyingKept ==
  ASSUME ServiceInv, DyingCounted, NEW n \in All, Others(n), Stays, pc[n] \notin {"none", "gone"},
         Dying(n)' => n \in target /\ acc'[n] = Cardinality(Counted(n)') /\ (Gone(Counted(n) \ Left(n)))',
         pc'[n] \in {"exit", "zombie"} =>
           /\ (Gone(subtree[n] \ {n}))'
           /\ up'[n] # <<>> => Head(up'[n]) = Cardinality(subtree[n])
  PROVE  DyingCounted'
  <1>1. \A m \in All : pc[m] \in {"none", "gone"} => pc'[m] \in {"none", "gone"}
    BY GoneKept
  <1>2. target' = target /\ subtree' = subtree
    BY DEF target, Stays
  <1>3. ASSUME NEW m \in All, m # n, Dying(m)'
        PROVE  m \in target /\ acc'[m] = Cardinality(Counted(m)') /\ (Gone(Counted(m) \ Left(m)))'
    <2>1. Same(m) /\ Dying(m)
      BY <1>3 DEF Others, Same, Dying
    <2>2. Counted(m)' = Counted(m) /\ Left(m)' = Left(m)
      BY <1>2, <2>1 DEF Same, Counted, Left, Kid
    <2>3. Counted(m) \subseteq All
      BY CountedTyped
    <2> QED
      BY <1>1, <2>1, <2>2, <2>3 DEF DyingCounted, Gone, Same
  <1>4. ASSUME NEW m \in All, m # n, pc'[m] \in {"exit", "zombie"}
        PROVE  /\ (Gone(subtree[m] \ {m}))'
               /\ up'[m] # <<>> => Head(up'[m]) = Cardinality(subtree[m])
    <2>1. Same(m) /\ up'[m] \in {<<>>, up[m]}
      BY <1>4 DEF Others
    <2>2. subtree[m] \in SUBSET All
      BY TargetTyped
    <2> QED
      BY <1>1, <1>2, <1>4, <2>1, <2>2 DEF DyingCounted, Gone, Same
  <1> QED
    BY <1>2, <1>3, <1>4 DEF DyingCounted

LEMMA TargetKept ==
  ASSUME ServiceInv, TargetCounted, NEW n \in All, Others(n), Stays, pc[n] \notin {"none", "gone"},
         pc'[n] \in {"each", "reap"} /\ cmd'[n].g = 0 /\ acc'[n] # 0 =>
           /\ acc'[n] = Cardinality(target) /\ (Gone(target \ Left(n)))'
           /\ pc'[n] = "reap" => Kid(n)' = cmd[Manager].a,
         up'[n] # <<>> /\ Head(up'[n]) # 0 /\ pc'[n] \notin {"exit", "zombie"} =>
           Head(up'[n]) = Cardinality(target) /\ Gone(target)'
  PROVE  TargetCounted'
  <1>1. \A m \in All : pc[m] \in {"none", "gone"} => pc'[m] \in {"none", "gone"}
    BY GoneKept
  <1>2. target' = target /\ target \in SUBSET All
    BY TargetTyped DEF target, Stays
  <1>3. ASSUME NEW m \in All, m # n, pc'[m] \in {"each", "reap"}, cmd'[m].g = 0, acc'[m] # 0
        PROVE  /\ acc'[m] = Cardinality(target) /\ (Gone(target \ Left(m)))'
               /\ pc'[m] = "reap" => Kid(m)' = cmd[Manager].a
    <2>1. Same(m)
      BY <1>3 DEF Others
    <2>2. Left(m)' = Left(m) /\ Kid(m)' = Kid(m)
      BY <2>1 DEF Same, Left, Kid
    <2> QED
      BY <1>1, <1>2, <1>3, <2>1, <2>2 DEF TargetCounted, Gone, Same
  <1>4. ASSUME NEW m \in All, m # n, up'[m] # <<>>, Head(up'[m]) # 0, pc'[m] \notin {"exit", "zombie"}
        PROVE  Head(up'[m]) = Cardinality(target) /\ Gone(target)'
    <2>1. Same(m) /\ up'[m] = up[m]
      BY <1>4 DEF Others
    <2> QED
      BY <1>1, <1>2, <1>4, <2>1 DEF TargetCounted, Gone, Same
  <1> QED
    BY <1>2, <1>3, <1>4 DEF TargetCounted, Stays

LEMMA OverKept ==
  ASSUME ServiceInv, SearchOver, NEW n \in All, Others(n), Stays, Alive(n), pc'[n] # "none",
         \A m \in All : m # n => pc'[m] = pc[m],
         Over => /\ \A m \in All : down'[m] = <<>>
                 /\ pc'[n] = "each" => acc'[n] # 0
                 /\ up'[n] # <<>> => Head(up'[n]) # 0
  PROVE  SearchOver'
  <1>1. \A m \in All : pc[m] \in {"none", "gone"} => pc'[m] \in {"none", "gone"}
    BY GoneKept DEF Alive
  <1>2. target' = target /\ target \in SUBSET All /\ cmd[Manager].a \in All
    BY TargetTyped DEF target, Stays
  <1>3. Over' => Over
    BY <1>2 DEF Over, Stays
  <1>4. Over => Gone(target)'
    BY <1>1, <1>2 DEF SearchOver, Gone
  <1>5. ASSUME Over, NEW m \in All, m # n
        PROVE  (pc'[m] = "each" => acc'[m] # 0) /\ (up'[m] # <<>> => Head(up'[m]) # 0)
    BY <1>5 DEF SearchOver, Others, Same
  <1> QED
    BY <1>3, <1>4, <1>5 DEF SearchOver

Killing == ServiceInv /\ TradeInv /\ SearchInv /\ KillParts /\ cmd[Manager].op = "kill"

(* A child of who dies dies too, and who dies is no parent of the target.   *)
LEMMA TargetBelow ==
  ASSUME Killing, NEW p \in target, Alive(p), NEW k \in Kids(p)
  PROVE  /\ Alive(k) => k \in target
         /\ k # cmd[Manager].a
  <1>1. p \in All /\ k \in All
    BY TargetTyped, KidFacts DEF Killing, All
  <1>2. OnceEach(p) /\ subtree[p] \subseteq target
    BY DEF Killing, KillParts, TargetWhole
  <1>3. subtree[k] \subseteq target /\ p \notin subtree[k]
    BY <1>2 DEF OnceEach
  <1> QED
    BY <1>1, <1>3 DEF Killing, KillParts, TargetWhole, target

LEMMA DyingInTarget ==
  ASSUME Killing, NEW n \in All, Dying(n)
  PROVE  n \in target /\ Alive(n) /\ ~Over
  BY DEF Killing, KillParts, DyingCounted, SearchOver, Gone, Dying, Alive

(* Who is told to die is a child of who dies, or the target.                *)
LEMMA ToldToDie ==
  ASSUME Killing, NEW n \in Names, pc[n] = "idle", down[n] # <<>>, NEW c, c = Head(down[n]),
         c.g = 1 \/ c.a = n
  PROVE  n \in target
  <1>1. n \in All /\ Alive(n) /\ SameAsManager(c) /\ c \in Commands
    BY Pipes DEF All, Alive, Killing, TradeInv, Current
  <1>2. CASE c.a = n
    BY <1>1, <1>2 DEF SameAsManager, target, Killing, KillParts, TargetWhole
  <1>3. CASE c.g = 1
    <2>1. PICK p \in All : n \in Kids(p) /\ Waits(p, n)
      BY <1>1 DEF Engaged, Killing, ServiceInv, Supervised
    <2>2. pc[p] = "await" /\ c = Sent(p)
      BY <1>1, <2>1 DEF Waits, Killing, ServiceInv, ChainHeard, Heard
    <2>3. SameAsManager(cmd[p])
      BY <2>2, ServesManager DEF Killing, Working
    <2>4. Dying(p)
      BY <1>3, <2>2, <2>3 DEF Sent, Dying, SameAsManager, Killing
    <2> QED
      BY <1>1, <2>1, <2>4, DyingInTarget, TargetBelow
  <1> QED
    BY <1>2, <1>3

LEMMA KillReceive ==
  ASSUME Killing, ServiceInv', NEW n \in All, Receive(n)
  PROVE  KillParts'
  <1> DEFINE c == Head(down[n])
  <1>1. /\ n \in Names /\ n # Manager /\ pc[n] = "idle" /\ down[n] # <<>> /\ SameAsManager(c)
        /\ Only(n) /\ pos'[n] = 0
        /\ \A m \in All : up[m] = <<>> /\ down'[m] = <<>> /\ ~Holds(m)
        /\ UNCHANGED <<children, up, subtree>>
    BY DoesReceive DEF Killing
  <1>2. /\ pc'[n] = "each" /\ acc'[n] = 0
        /\ cmd'[n].g = IF c.a = n THEN 1 ELSE c.g
    BY <1>1, DoesReceive DEF Killing, SameAsManager
  <1>3. Others(n) /\ Stays /\ Alive(n) /\ pc[n] \notin {"none", "gone"}
    BY <1>1, TradeTyped DEF Others, Same, Only, Stays, Alive, Killing
  <1>4. ~Over
    BY <1>1 DEF Killing, KillParts, SearchOver
  <1>5. TargetWhole'
    BY <1>1, <1>3, WholeKept DEF Killing, KillParts
  <1>6. DyingCounted'
    <2>1. Counted(n)' = {}
      BY <1>1, <1>2 DEF Counted
    <2>2. Dying(n)' => n \in target
      BY <1>1, <1>2, ToldToDie DEF Dying
    <2>3. Dying(n)' => acc'[n] = Cardinality(Counted(n)') /\ (Gone(Counted(n) \ Left(n)))'
      BY <1>2, <2>1, FS_EmptySet DEF Gone
    <2> QED
      BY <1>2, <1>3, <2>2, <2>3, DyingKept DEF Killing, KillParts
  <1>7. TargetCounted'
    BY <1>1, <1>2, <1>3, TargetKept DEF Killing, KillParts
  <1>8. SearchOver'
    BY <1>1, <1>2, <1>3, <1>4, OverKept DEF Killing, KillParts, Only
  <1> QED
    BY <1>5, <1>6, <1>7, <1>8 DEF KillParts

LEMMA KillForward ==
  ASSUME Killing, ServiceInv', NEW n \in All, Forward(n)
  PROVE  KillParts'
  <1>1. /\ pc[n] = "each" /\ ~Enough(n) /\ SameAsManager(cmd[n]) /\ Silent /\ Only(n) /\ pc'[n] = "await"
        /\ UNCHANGED <<children, up, cmd, pos, acc, subtree>>
    BY DoesForward DEF Killing
  <1>2. Others(n) /\ Stays /\ Alive(n) /\ pc[n] \notin {"none", "gone"} /\ up'[n] = <<>>
    BY <1>1 DEF Others, Same, Only, Stays, Alive, Silent
  <1>3. ~Over
    <2>1. CASE Dying(n)
      BY <2>1, DyingInTarget
    <2>2. CASE ~Dying(n)
      <3>1. cmd[n].g = 0 /\ cmd[n].op = "kill"
        BY <1>1, <2>2, CommandFields, TradeTyped DEF Dying, Killing, SameAsManager
      <3>2. acc[n] = 0
        BY <1>1, <3>1, TradeTyped DEF Enough, Killing
      <3> QED
        BY <1>1, <3>2 DEF Killing, KillParts, SearchOver
    <2> QED
      BY <2>1, <2>2
  <1>4. TargetWhole'
    BY <1>1, <1>2, WholeKept DEF Killing, KillParts
  <1>5. DyingCounted'
    <2>1. (Dying(n)' => Dying(n)) /\ Counted(n)' = Counted(n) /\ Left(n)' = Left(n) /\ Left(n) = {}
      BY <1>1 DEF Dying, Counted, Left
    <2>2. \A m \in All : pc[m] \in {"none", "gone"} => pc'[m] \in {"none", "gone"}
      BY <1>2, GoneKept
    <2>3. Dying(n)' => n \in target /\ acc'[n] = Cardinality(Counted(n)') /\ Gone(Counted(n) \ Left(n))
      BY <1>1, <2>1 DEF Killing, KillParts, DyingCounted
    <2>4. Counted(n) \subseteq All
      BY CountedTyped DEF Killing
    <2>5. Dying(n)' => (Gone(Counted(n) \ Left(n)))'
      BY <2>1, <2>2, <2>3, <2>4 DEF Gone
    <2> QED
      BY <1>1, <1>2, <2>3, <2>5, DyingKept DEF Killing, KillParts
  <1>6. TargetCounted'
    BY <1>1, <1>2, TargetKept DEF Killing, KillParts
  <1>7. SearchOver'
    BY <1>1, <1>2, <1>3, OverKept DEF Killing, KillParts, Only
  <1> QED
    BY <1>4, <1>5, <1>6, <1>7 DEF KillParts

(* Nobody but who dies waits for an answer with a count.                    *)
LEMMA KillCollect ==
  ASSUME Killing, ServiceInv', NEW n \in All, NEW k, k = Kid(n), Collect(n)
  PROVE  KillParts'
  <1> DEFINE reply == Head(up[k])
             i == pos[n] + 1
  <1>1. /\ pc[n] = "await" /\ ~Enough(n) /\ pos[n] < Len(children[n]) /\ ChildOf(n, k)
        /\ SameAsManager(cmd[n]) /\ Only(n) /\ Heard(n, k) /\ up[k] # <<>> /\ reply \in Nat
        /\ \A m \in All : down[m] = <<>> /\ up'[m] = <<>> /\ ~Holds(m)
        /\ acc'[n] = NewAcc(n, reply)
        /\ IF Targets(n, k) THEN pc'[n] = "reap" /\ pos'[n] = pos[n] ELSE pc'[n] = "each" /\ pos'[n] = pos[n] + 1
        /\ UNCHANGED <<children, down, cmd, subtree>>
    BY DoesCollect DEF Killing
  <1>2. /\ cmd[n].op = "kill" /\ acc'[n] = acc[n] + reply /\ acc[n] \in Nat /\ pos[n] \in Nat /\ Len(children[n]) \in Nat
        /\ cmd[n].g \in {0, 1} /\ (pc[k] \in {"exit", "zombie"} <=> Targets(n, k)) /\ k \in All
    BY <1>1, TradeTyped, TypedLoop, CommandFields DEF Killing, SameAsManager, NewAcc, Heard, ChildOf
  <1>3. Others(n) /\ Stays /\ Alive(n) /\ pc[n] \notin {"none", "gone"} /\ up'[n] = <<>>
    BY <1>1 DEF Others, Same, Only, Stays, Alive
  <1>4. pc[k] \in {"exit", "zombie"} => Gone(subtree[k] \ {k}) /\ reply = Cardinality(subtree[k])
    BY <1>1, <1>2 DEF Killing, KillParts, DyingCounted
  <1>5. \A m \in All : pc[m] \in {"none", "gone"} => pc'[m] \in {"none", "gone"}
    BY <1>3, GoneKept
  <1>6. target \in SUBSET All /\ subtree[k] \in SUBSET All /\ target' = target
    BY <1>2, <1>3, TargetTyped DEF Killing, Stays, target
  <1>7. TargetWhole'
    BY <1>1, <1>3, WholeKept DEF Killing, KillParts
  <1>8. DyingCounted'
    <2>1. ASSUME Dying(n)'
          PROVE  n \in target /\ acc'[n] = Cardinality(Counted(n)') /\ (Gone(Counted(n) \ Left(n)))'
      <3>1. Dying(n) /\ cmd[n].g = 1 /\ Targets(n, k)
        BY <1>1, <2>1 DEF Dying, Targets
      <3>2. /\ n \in target /\ acc[n] = Cardinality(Counted(n)) /\ Gone(Counted(n))
            /\ OnceEach(n) /\ Left(n) = {}
        BY <1>1, <1>3, <3>1 DEF Killing, KillParts, DyingCounted, TargetWhole, Left
      <3>3. Counted(n)' = Counted(n) \cup subtree[k]
        <4> DEFINE C == {j \in 1 .. Len(children[n]) : j <= pos[n]}
                   D == {j \in 1 .. Len(children[n]) : j <= pos[n] \/ j = pos[n] + 1}
        <4>1. D = C \cup {i} /\ k = children[n][i]
          BY <1>1, <1>2 DEF Kid
        <4>2. pc[n] = "await" /\ pc'[n] = "reap" /\ UNCHANGED <<children, subtree>> /\ pos'[n] = pos[n]
          BY <1>1, <3>1
        <4>3. Counted(n) = UNION {subtree[children[n][j]] : j \in C}
          BY <4>2 DEF Counted
        <4>4. Counted(n)' = UNION {subtree[children[n][j]] : j \in D}
          BY <4>2 DEF Counted
        <4> QED
          BY <4>1, <4>3, <4>4
      <3>4. Counted(n) \cap subtree[k] = {}
        <4>1. ASSUME NEW x \in Counted(n), x \in subtree[k] PROVE FALSE
          <5>1. PICK j \in 1 .. Len(children[n]) : j <= pos[n] /\ x \in subtree[children[n][j]]
            BY <1>1, <4>1 DEF Counted
          <5>2. children[n][j] \in Kids(n) /\ k \in Kids(n) /\ j # i /\ k = children[n][i] /\ i \in 1 .. Len(children[n])
            BY <1>1, <1>2, <5>1 DEF Kids, Kid, ChildOf
          <5>3. children[n][j] # k
            BY <5>2 DEF Killing, ServiceInv, OneParent
          <5> QED
            BY <3>2, <4>1, <5>1, <5>2, <5>3 DEF OnceEach
        <4> QED
          BY <4>1
      <3>5. /\ IsFiniteSet(Counted(n)) /\ IsFiniteSet(subtree[k]) /\ Counted(n) \subseteq All
        BY <1>2, TargetTyped, CountedTyped DEF Killing
      <3>6. Cardinality(Counted(n)') = acc'[n]
        <4>1. Cardinality(Counted(n) \cup subtree[k]) = Cardinality(Counted(n)) + Cardinality(subtree[k]) - Cardinality({})
          BY <3>4, <3>5, FS_Union
        <4>2. Cardinality(subtree[k]) = reply /\ Cardinality({}) = 0
          BY <1>2, <1>4, <3>1, FS_EmptySet
        <4>3. Cardinality(Counted(n)') = acc[n] + reply - 0
          BY <3>2, <3>3, <4>1, <4>2
        <4> QED
          BY <1>1, <1>2, <4>3
      <3>7. Left(n)' = {k}
        BY <1>1, <3>1 DEF Left, Kid
      <3>8. Gone(subtree[k] \ {k})
        BY <1>2, <1>4, <3>1
      <3>9. \A m \in Counted(n)' \ {k} : pc'[m] \in {"none", "gone"}
        BY <1>5, <1>6, <3>2, <3>3, <3>5, <3>8 DEF Gone
      <3> QED
        BY <3>2, <3>6, <3>7, <3>9 DEF Gone
    <2> QED
      BY <1>1, <1>3, <2>1, DyingKept DEF Killing, KillParts
  <1>9. TargetCounted'
    <2>1. ASSUME cmd'[n].g = 0, acc'[n] # 0
          PROVE  /\ acc'[n] = Cardinality(target) /\ (Gone(target \ Left(n)))'
                 /\ pc'[n] = "reap" => Kid(n)' = cmd[Manager].a
      <3>1. acc[n] = 0 /\ reply # 0 /\ acc'[n] = reply
        BY <1>1, <1>2, <2>1 DEF Enough
      <3>2. CASE Targets(n, k)
        <4>1. k = cmd[Manager].a /\ pc'[n] = "reap" /\ pos'[n] = pos[n]
          BY <1>1, <2>1, <3>2 DEF Targets, SameAsManager
        <4>2. reply = Cardinality(target) /\ Gone(target \ {k})
          BY <1>2, <1>4, <3>2, <4>1 DEF target
        <4>3. Left(n)' = {k} /\ Kid(n)' = k
          BY <1>1, <4>1 DEF Left, Kid
        <4>4. \A m \in target \ {k} : pc'[m] \in {"none", "gone"}
          BY <1>5, <1>6, <4>2 DEF Gone
        <4> QED
          BY <1>6, <3>1, <4>1, <4>2, <4>3, <4>4 DEF Gone
      <3>3. CASE ~Targets(n, k)
        <4>1. reply = Cardinality(target) /\ Gone(target)
          BY <1>1, <1>2, <3>1, <3>3 DEF Killing, KillParts, TargetCounted
        <4>2. pc'[n] = "each" /\ Left(n)' = {}
          BY <1>1, <3>3 DEF Left
        <4>3. \A m \in target : pc'[m] \in {"none", "gone"}
          BY <1>5, <1>6, <4>1 DEF Gone
        <4> QED
          BY <1>6, <3>1, <4>1, <4>2, <4>3 DEF Gone
      <3> QED
        BY <3>2, <3>3
    <2> QED
      BY <1>1, <1>3, <2>1, TargetKept DEF Killing, KillParts
  <1>10. SearchOver'
    <2>1. Over => acc'[n] # 0
      <3>1. Over => reply # 0
        BY <1>1, <1>2 DEF Killing, KillParts, SearchOver
      <3> QED
        BY <1>1, <1>2, <3>1
    <2> QED
      BY <1>1, <1>3, <2>1, OverKept DEF Killing, KillParts, Only
  <1> QED
    BY <1>7, <1>8, <1>9, <1>10 DEF KillParts

LEMMA KillReap ==
  ASSUME Killing, ServiceInv', NEW n \in All, NEW k, k = Kid(n), Reap(n)
  PROVE  KillParts'
  <1> DEFINE a == cmd[Manager].a
  <1>1. /\ pc[n] = "reap" /\ cmd[n].op = "kill" /\ ChildOf(n, k) /\ pc[k] = "zombie" /\ SameAsManager(cmd[n]) /\ Silent
        /\ pc'[n] = "each" /\ pc'[k] = "none" /\ pos'[n] = pos[n] + 1
        /\ \A m \in All : m # n => pos'[m] = pos[m] /\ children'[m] = children[m] /\ (m # k => pc'[m] = pc[m])
        /\ cmd[n].g = 1 => children' = children
        /\ UNCHANGED <<down, up, cmd, acc, subtree>>
    BY DoesReap DEF Killing
  <1>2. k \in Kids(n) /\ k \in All /\ k # n /\ pos[n] \in Nat /\ cmd[n].g \in {0, 1}
    BY <1>1, TypedLoop, TradeTyped, CommandFields DEF ChildOf, Killing
  <1>3. /\ Others(n) /\ Stays /\ Alive(n) /\ pc[n] \notin {"none", "gone"}
        /\ \A m \in All : up'[m] = <<>> /\ down'[m] = <<>>
    BY <1>1 DEF Others, Same, Stays, Alive, Silent
  <1>4. \A m \in All : pc[m] \in {"none", "gone"} => pc'[m] \in {"none", "gone"}
    BY <1>3, GoneKept
  <1>5. target \in SUBSET All /\ target' = target /\ Left(n) = {k} /\ Left(n)' = {}
    BY <1>1, <1>3, TargetTyped DEF Killing, Stays, target, Left
  <1>6. acc[n] # 0 /\ \A m \in All : m # n => pc'[m] # "each"
    <2>1. acc[n] # 0
      BY <1>1 DEF Killing, SearchInv, DeadCount
    <2>2. \A m \in All : m # n => pc[m] # "each"
      BY <1>1, HolderAlone DEF Holds, Killing
    <2> QED
      BY <1>1, <2>1, <2>2
  <1>7. cmd[n].g = 0 => acc[n] = Cardinality(target) /\ Gone(target \ {k}) /\ k = a
    BY <1>1, <1>5, <1>6 DEF Killing, KillParts, TargetCounted
  <1>8. cmd[n].g = 0 => \A m \in target : pc'[m] \in {"none", "gone"}
    BY <1>1, <1>4, <1>5, <1>7 DEF Gone
  <1>9. n \in target => k # a
    BY <1>2, <1>3, TargetBelow
  <1>10. TargetWhole'
    <2>1. n \in target => children'[n] = children[n]
      BY <1>1, <1>2, <1>7, <1>9
    <2> QED
      BY <1>3, <2>1, WholeKept DEF Killing, KillParts
  <1>11. DyingCounted'
    <2>1. ASSUME Dying(n)'
          PROVE  n \in target /\ acc'[n] = Cardinality(Counted(n)') /\ (Gone(Counted(n) \ Left(n)))'
      <3>1. Dying(n) /\ children' = children
        BY <1>1, <2>1 DEF Dying
      <3>2. n \in target /\ acc[n] = Cardinality(Counted(n)) /\ Gone(Counted(n) \ {k})
        BY <1>5, <3>1 DEF Killing, KillParts, DyingCounted
      <3>3. Counted(n)' = Counted(n)
        <4>1. \A j \in 1 .. Len(children[n]) : j <= pos[n] + 1 <=> j <= pos[n] \/ j = pos[n] + 1
          BY <1>2
        <4>2. pc[n] = "reap" /\ pc'[n] = "each" /\ pos'[n] = pos[n] + 1 /\ UNCHANGED <<children, subtree>>
          BY <1>1, <3>1
        <4> QED
          BY <4>1, <4>2 DEF Counted
      <3>4. \A m \in Counted(n) : pc'[m] \in {"none", "gone"}
        BY <1>1, <1>4, <3>2, CountedTyped DEF Gone, Killing
      <3> QED
        BY <1>1, <1>5, <3>2, <3>3, <3>4 DEF Gone
    <2> QED
      BY <1>1, <1>3, <2>1, DyingKept DEF Killing, KillParts
  <1>12. TargetCounted'
    <2>1. cmd'[n].g = 0 => acc'[n] = Cardinality(target) /\ (Gone(target \ Left(n)))'
      BY <1>1, <1>5, <1>7, <1>8 DEF Gone
    <2> QED
      BY <1>1, <1>3, <2>1, TargetKept DEF Killing, KillParts
  <1>13. SearchOver'
    <2>1. Over' => Gone(target)'
      <3>1. CASE cmd[n].g = 0
        BY <1>5, <1>8, <3>1 DEF Gone
      <3>2. CASE cmd[n].g = 1
        <4>1. n \in target
          BY <1>1, <3>2, DyingInTarget DEF Dying
        <4>2. pc'[a] = "none" => pc[a] = "none"
          BY <1>1, <1>9, <4>1, SubjectsTyped DEF Killing
        <4>3. Over' => Over
          BY <1>1, <1>5, <4>2 DEF Over
        <4>4. Over => Gone(target)
          BY DEF Killing, KillParts, SearchOver
        <4> QED
          BY <1>4, <1>5, <4>3, <4>4 DEF Gone
      <3> QED
        BY <1>2, <3>1, <3>2
    <2> QED
      BY <1>1, <1>3, <1>6, <2>1 DEF SearchOver
  <1> QED
    BY <1>10, <1>11, <1>12, <1>13 DEF KillParts

LEMMA KillReply ==
  ASSUME Killing, ServiceInv', NEW n \in All, Reply(n)
  PROVE  KillParts'
  <1>1. /\ pc[n] = "each" /\ n \in Names /\ n # Manager /\ SameAsManager(cmd[n]) /\ cmd[n].g = 0
        /\ Silent /\ Only(n) /\ pc'[n] = "idle" /\ up'[n] = <<acc[n]>> /\ \A m \in All : m # n => up'[m] = <<>>
        /\ UNCHANGED <<children, down, subtree>>
    BY DoesReply DEF Killing, SameAsManager
  <1>2. Others(n) /\ Stays /\ Alive(n) /\ pc[n] \notin {"none", "gone"}
    BY <1>1, TradeTyped DEF Others, Same, Only, Stays, Alive, Killing
  <1>3. TargetWhole'
    BY <1>1, <1>2, WholeKept DEF Killing, KillParts
  <1>4. DyingCounted'
    BY <1>1, <1>2, DyingKept DEF Killing, KillParts, Dying
  <1>5. TargetCounted'
    <2>1. acc[n] # 0 => acc[n] = Cardinality(target) /\ Gone(target)
      BY <1>1 DEF Killing, KillParts, TargetCounted, Left
    <2>2. Gone(target) => Gone(target)'
      <3>1. target' = target /\ target \in SUBSET All
        BY <1>2, TargetTyped DEF Stays, target, Killing
      <3> QED
        BY <1>2, <3>1, GoneKept DEF Gone
    <2>3. Head(up'[n]) = acc[n] /\ pc'[n] = "idle"
      BY <1>1
    <2>4. ServiceInv /\ TargetCounted
      BY DEF Killing, KillParts
    <2> QED
      BY <1>2, <2>1, <2>2, <2>3, <2>4, TargetKept
  <1>6. SearchOver'
    <2>1. Over => acc[n] # 0 /\ \A m \in All : down'[m] = <<>>
      BY <1>1 DEF Killing, KillParts, SearchOver
    <2> QED
      BY <1>1, <1>2, <2>1, OverKept DEF Killing, KillParts, Only
  <1> QED
    BY <1>3, <1>4, <1>5, <1>6 DEF KillParts

(* Who dies has counted all that was below it, itself the last.             *)
LEMMA CountedAll ==
  ASSUME Killing, NEW n \in All, Dying(n), pc[n] # "reap", pos[n] >= Len(children[n])
  PROVE  /\ n \in target /\ subtree[n] = {n} \cup Counted(n) /\ n \notin Counted(n)
         /\ Cardinality(subtree[n]) = acc[n] + 1 /\ Gone(Counted(n))
  <1>1. n \in target /\ acc[n] = Cardinality(Counted(n)) /\ Gone(Counted(n)) /\ OnceEach(n)
    BY DEF Killing, KillParts, DyingCounted, TargetWhole, Left, Dying, Alive
  <1>2. Counted(n) = UNION {subtree[k] : k \in Kids(n)}
    <2>1. \A j \in 1 .. Len(children[n]) : j <= pos[n]
      BY TypedLoop DEF Killing
    <2> QED
      BY <2>1 DEF Counted, Kids
  <1>3. subtree[n] = {n} \cup Counted(n) /\ n \notin Counted(n)
    BY <1>1, <1>2 DEF OnceEach
  <1>4. Cardinality(subtree[n]) = acc[n] + 1
    <2>1. IsFiniteSet(Counted(n))
      BY TargetTyped DEF Killing
    <2>2. subtree[n] = Counted(n) \cup {n}
      BY <1>3
    <2> QED
      BY <1>1, <1>3, <2>1, <2>2, FS_AddElement
  <1> QED
    BY <1>1, <1>3, <1>4

LEMMA KillReplyDying ==
  ASSUME Killing, ServiceInv', NEW n \in All, ReplyDying(n)
  PROVE  KillParts'
  <1>1. /\ pc[n] = "each" /\ n # Manager /\ LoopOver(n) /\ cmd[n].op = "kill" /\ cmd[n].g = 1
        /\ Silent /\ Only(n) /\ pc'[n] = "exit" /\ up'[n] = <<acc[n] + 1>> /\ acc[n] \in Nat
        /\ \A m \in All : m # n => up'[m] = <<>>
        /\ UNCHANGED <<children, down, cmd, pos, acc, subtree>>
    BY DoesReplyDying DEF Killing
  <1>2. Others(n) /\ Stays /\ Alive(n) /\ pc[n] \notin {"none", "gone"}
    BY <1>1 DEF Others, Same, Only, Stays, Alive
  <1>3. Dying(n) /\ pos[n] >= Len(children[n])
    BY <1>1 DEF Dying, LoopOver, Enough
  <1>4. /\ n \in target /\ subtree[n] = {n} \cup Counted(n) /\ n \notin Counted(n)
        /\ Cardinality(subtree[n]) = acc[n] + 1 /\ Gone(Counted(n)) /\ Counted(n) \subseteq All
    BY <1>1, <1>3, CountedAll, CountedTyped DEF Killing
  <1>5. \A m \in Counted(n) : pc'[m] \in {"none", "gone"}
    BY <1>2, <1>4, GoneKept DEF Gone
  <1>6. TargetWhole'
    BY <1>1, <1>2, WholeKept DEF Killing, KillParts
  <1>7. DyingCounted'
    <2>1. Counted(n)' = Counted(n) /\ Left(n)' = {} /\ subtree' = subtree
      BY <1>1 DEF Counted, Left
    <2>2. acc'[n] = Cardinality(Counted(n))
      BY <1>1, <1>3 DEF Killing, KillParts, DyingCounted
    <2>3. (Gone(Counted(n) \ Left(n)))' /\ (Gone(subtree[n] \ {n}))'
      BY <1>4, <1>5, <2>1 DEF Gone
    <2>4. Head(up'[n]) = Cardinality(subtree[n]) /\ ServiceInv /\ DyingCounted
      BY <1>1, <1>4 DEF Killing, KillParts
    <2>5. acc'[n] = Cardinality(Counted(n)')
      BY <2>1, <2>2
    <2> QED
      BY <1>2, <1>4, <2>3, <2>4, <2>5, DyingKept
  <1>8. TargetCounted'
    BY <1>1, <1>2, TargetKept DEF Killing, KillParts
  <1>9. SearchOver'
    <2>1. ~Over
      BY <1>3, DyingInTarget
    <2> QED
      BY <1>1, <1>2, <2>1, OverKept DEF Killing, KillParts, Only
  <1> QED
    BY <1>6, <1>7, <1>8, <1>9 DEF KillParts

LEMMA KillExit ==
  ASSUME Killing, ServiceInv', NEW n \in All, Exit(n)
  PROVE  KillParts'
  <1>1. /\ pc[n] = "exit" /\ n # Manager /\ cmd[n].op = "kill" /\ cmd[n].g = 1
        /\ Only(n) /\ pc'[n] = "zombie" /\ \A m \in All : m # n => children'[m] = children[m]
        /\ UNCHANGED <<down, up, subtree>>
    BY DoesExit DEF Killing
  <1>2. Others(n) /\ Stays /\ Alive(n) /\ pc[n] \notin {"none", "gone"} /\ ~Alive(n)'
    BY <1>1, TradeTyped DEF Others, Same, Only, Stays, Alive, Killing
  <1>3. TargetWhole'
    BY <1>2, WholeKept DEF Killing, KillParts
  <1>4. DyingCounted'
    <2>1. Gone(subtree[n] \ {n}) /\ (up'[n] # <<>> => Head(up'[n]) = Cardinality(subtree[n]))
      BY <1>1 DEF Killing, KillParts, DyingCounted
    <2>2. subtree[n] \in SUBSET All
      BY TargetTyped DEF Killing
    <2>3. (Gone(subtree[n] \ {n}))'
      BY <1>1, <1>2, <2>1, <2>2, GoneKept DEF Gone
    <2> QED
      BY <1>1, <1>2, <2>1, <2>3, DyingKept DEF Killing, KillParts, Dying
  <1>5. TargetCounted'
    BY <1>1, <1>2, TargetKept DEF Killing, KillParts
  <1>6. SearchOver'
    <2>1. ~Over
      BY <1>1, DyingInTarget DEF Dying
    <2> QED
      BY <1>1, <1>2, <2>1, OverKept DEF Killing, KillParts, Only
  <1> QED
    BY <1>3, <1>4, <1>5, <1>6 DEF KillParts

(* Who trails goes its way.                                                 *)
LEMMA KillAside ==
  ASSUME Killing, ServiceInv', NEW n \in All, Aside(n)
  PROVE  KillParts'
  <1>1. /\ Only(n) /\ pc[n] \in Trading /\ pc'[n] \in (Trading \ {"second", "watch"}) \cup {"idle", "wait"}
        /\ cmd[n].op = "exchange" /\ UNCHANGED <<children, down, subtree>>
        /\ pc[n] \in {"take", "give", "watch", "unfile"} => up' = up
    BY DEF Aside
  <1>2. n # Manager /\ n \in Names
    BY <1>1 DEF Killing, All
  <1>3. up' = up
    BY <1>1, <1>2 DEF Killing, TradeInv, Current, SameAsManager, Trailing
  <1>4. Others(n) /\ Stays /\ Alive(n) /\ pc[n] \notin {"none", "gone", "exit", "zombie"}
    BY <1>1, <1>2, <1>3, TradeTyped DEF Others, Same, Only, Stays, Alive, Killing, Trading
  <1>5. pc'[n] \notin {"each", "await", "reap", "exit", "zombie", "none"}
    BY <1>1 DEF Trading
  <1>6. TargetWhole'
    BY <1>1, <1>4, WholeKept DEF Killing, KillParts
  <1>7. DyingCounted'
    BY <1>4, <1>5, DyingKept DEF Killing, KillParts, Dying
  <1>8. TargetCounted'
    <2>1. target' = target /\ target \in SUBSET All
      BY <1>4, TargetTyped DEF Stays, target, Killing
    <2>2. Gone(target) => Gone(target)'
      BY <1>4, <2>1, GoneKept DEF Gone
    <2>3. up'[n] # <<>> /\ Head(up'[n]) # 0 => Head(up'[n]) = Cardinality(target) /\ Gone(target)
      BY <1>3, <1>4 DEF Killing, KillParts, TargetCounted
    <2> QED
      BY <1>4, <1>5, <2>2, <2>3, TargetKept DEF Killing, KillParts
  <1>9. SearchOver'
    <2>1. Over => (\A m \in All : down'[m] = <<>>) /\ (up'[n] # <<>> => Head(up'[n]) # 0)
      BY <1>1, <1>3 DEF Killing, KillParts, SearchOver
    <2> QED
      BY <1>1, <1>4, <1>5, <2>1, OverKept DEF Killing, KillParts, Only
  <1> QED
    BY <1>6, <1>7, <1>8, <1>9 DEF KillParts

(* In a tree what is below two children has nothing in common.              *)
LEMMA BelowApart ==
  ASSUME ServiceInv, NEW n \in All
  PROVE  /\ \A k \in Kids(n) : n \notin Below({k})
         /\ \A k, l \in Kids(n) : k # l => Below({k}) \cap Below({l}) = {}
  <1>1. Kids(n) \in SUBSET All /\ Kids(n) \subseteq Names
    BY KidFacts DEF All
  <1>2. ASSUME NEW k \in Kids(n) PROVE {k} \in SUBSET All /\ k \in Names /\ Below({k}) \subseteq Names
    <2>1. {k} \in SUBSET All /\ k \in Names
      BY <1>1
    <2> QED
      BY <2>1, BelowParent
  <1>3. ASSUME NEW k \in Kids(n) PROVE n \notin Below({k})
    <2>1. {k} \subseteq Below(Kids(n))
      BY <1>1, BelowLeast
    <2>2. Below({k}) \subseteq Below(Kids(n))
      BY <1>1, <1>2, <2>1, BelowGrows
    <2> QED
      BY <1>2, <2>2, NotBelowItself DEF All
  <1>4. ASSUME NEW k \in Kids(n), NEW l \in Kids(n), k # l PROVE Below({k}) \cap Below({l}) = {}
    <2> DEFINE W == Below({k}) \cap Below({l})
    <2>1. ASSUME NEW y \in W PROVE \E p \in W : y \in Kids(p)
      <3>1. y # k => \E p \in Below({k}) : p \in All /\ y \in Kids(p)
        BY <1>2, <2>1, BelowParent DEF All
      <3>2. y # l => \E p \in Below({l}) : p \in All /\ y \in Kids(p)
        BY <1>2, <2>1, BelowParent DEF All
      <3> DEFINE OneParentOnly == \A p, q \in All : \A x \in Kids(p) : x \in Kids(q) => p = q
      <3>3. OneParentOnly
        BY KidFacts
      <3> HIDE DEF OneParentOnly
      <3>4. y # k /\ y # l
        <4>1. y = k => ~\E p \in Below({l}) : p \in All /\ y \in Kids(p)
          BY <1>3, <1>4, <3>3 DEF OneParentOnly
        <4>2. y = l => ~\E p \in Below({k}) : p \in All /\ y \in Kids(p)
          BY <1>3, <1>4, <3>3 DEF OneParentOnly
        <4> QED
          BY <1>4, <3>1, <3>2, <4>1, <4>2
      <3>5. PICK p \in Below({k}) : p \in All /\ y \in Kids(p)
        BY <3>1, <3>4
      <3>6. PICK q \in Below({l}) : q \in All /\ y \in Kids(q)
        BY <3>2, <3>4
      <3>7. p = q
        BY <3>3, <3>5, <3>6 DEF OneParentOnly
      <3> QED
        BY <3>5, <3>6, <3>7
    <2>2. W \in SUBSET Names
      BY <1>2
    <2> QED
      BY <2>1, <2>2 DEF ServiceInv, Acyclic
  <1> QED
    BY <1>3, <1>4

(* Before a command nobody is dead who is in a list.                        *)
LEMMA ListedAlive ==
  ASSUME ServiceInv, pc[Manager] = "idle", NEW n \in All, NEW k \in Kids(n)
  PROVE  Alive(k)
  <1>1. k \in Names /\ k \in All
    BY KidFacts DEF All
  <1>2. \A m \in All : ~Dying(m)
    BY ManagerHolds DEF Dying, Working, All
  <1>3. pc[k] # "none"
    BY <1>2 DEF Kids, ServiceInv, DeadKids
  <1>4. pc[k] # "zombie" /\ pc[k] # "gone"
    BY <1>1, ManagerHolds, NamesAssumption DEF ServiceInv, Placed
  <1> QED
    BY <1>3, <1>4 DEF Alive

LEMMA KillIssue ==
  ASSUME ServiceInv, ServiceInv', TradeInv, Issue
  PROVE  KillInv'
  <1>0. PICK op \in Ops, a \in All, b \in All, g \in {0, 1} : Issued(op, a, b, g)
    BY DoesIssue
  <1>1. /\ g = IF Manager \in {a, b} /\ op # "spawn" THEN 1 ELSE 0
        /\ pc[Manager] = "idle" /\ Manager \in All /\ Silent /\ Only(Manager)
        /\ \A m \in Names : pc[m] \notin Working \cup {"boot", "zombie"}
        /\ MayIssue(Command(op, a, b, g))
        /\ cmd'[Manager] = Command(op, a, b, g) /\ pos'[Manager] = 0
        /\ acc'[Manager] = IF op = "exchange" THEN g ELSE 0
        /\ pc'[Manager] = IF op = "spawn" /\ a = Manager THEN "fork" ELSE "each"
        /\ subtree' = [n \in All |-> IF op = "kill" /\ Alive(n) THEN Below({n}) ELSE {}]
        /\ UNCHANGED <<children, down, up>>
    BY <1>0 DEF Issued
  <1>2. cmd'[Manager].op = op /\ cmd'[Manager].a = a /\ cmd'[Manager].g = g
    BY <1>1 DEF Command
  <1>3. CASE op = "kill"
    <2> DEFINE T == subtree'[a]
    <2>1. /\ pc'[Manager] = "each" /\ acc'[Manager] = 0 /\ (g = 1 => a = Manager)
          /\ target' = T
      BY <1>1, <1>2, <1>3 DEF MayIssue, Command, target
    <2>2. \A m \in All : (Alive(m)' <=> Alive(m)) /\ (m # Manager => pc'[m] \notin Working \cup {"zombie"})
      BY <1>1, <2>1 DEF Only, All, Alive
    <2>3. \A m \in All : {m} \in SUBSET All /\ m \in Below({m})
      BY BelowLeast
    <2>4. \A m \in All : subtree'[m] = IF Alive(m) THEN Below({m}) ELSE {}
      BY <1>1, <1>3
    <2>5. TargetWhole'
      <3>1. \A m \in All : Alive(m)' => m \in subtree'[m]
        BY <2>2, <2>3, <2>4
      <3>2. ASSUME NEW m \in T PROVE subtree'[m] \subseteq T
        <4>1. Alive(a) /\ T = Below({a}) /\ m \in All
          BY <2>3, <2>4, <3>2, BelowLeast
        <4>2. {m} \in SUBSET All /\ {a} \in SUBSET All /\ {m} \subseteq Below({a})
          BY <3>2, <4>1
        <4>3. Below({m}) \subseteq Below({a})
          BY <4>2, BelowGrows
        <4> QED
          BY <2>4, <4>1, <4>3
      <3>3. ASSUME NEW m \in All, Alive(m)' PROVE OnceEach(m)'
        <4>1. ASSUME NEW k \in Kids(m) PROVE k \in All /\ subtree'[k] = Below({k})
          <5>1. k \in All /\ Alive(k)
            BY <1>1, ListedAlive, KidFacts DEF All
          <5> QED
            BY <2>4, <5>1
        <4>2. subtree'[m] = Below({m})
          BY <2>2, <2>4, <3>3
        <4>3. Below({m}) = {m} \cup UNION {Below({k}) : k \in Kids(m)}
          <5>1. /\ m \in Below({m})
                /\ \A k \in Kids(m) : Below({k}) \subseteq Below({m})
                /\ \A x \in Below({m}) : x = m \/ \E k \in Kids(m) : x \in Below({k})
            BY BelowSplit
          <5> QED
            BY <5>1
        <4>4. UNION {Below({k}) : k \in Kids(m)} = UNION {subtree'[k] : k \in Kids(m)}
          BY <4>1
        <4>5. Kids(m)' = Kids(m)
          BY <1>1 DEF Kids
        <4>6. /\ \A k \in Kids(m) : m \notin Below({k})
              /\ \A k, l \in Kids(m) : k # l => Below({k}) \cap Below({l}) = {}
          BY BelowApart
        <4>7. /\ \A k \in Kids(m) : m \notin subtree'[k]
              /\ \A k, l \in Kids(m) : k # l => subtree'[k] \cap subtree'[l] = {}
          BY <4>1, <4>6
        <4>8. subtree'[m] = {m} \cup UNION {subtree'[k] : k \in Kids(m)}
          BY <4>2, <4>3, <4>4
        <4> QED
          BY <4>5, <4>7, <4>8 DEF OnceEach
      <3>4. T \subseteq All
        BY <2>3, <2>4, BelowLeast
      <3>5. Manager \in T => a = Manager
        <4>1. a # Manager => a \in Names /\ Below({a}) \subseteq Names
          BY BelowParent DEF All
        <4>2. T = IF Alive(a) THEN Below({a}) ELSE {}
          BY <2>4
        <4> HIDE DEF T
        <4> QED
          BY <4>1, <4>2, NamesAssumption
      <3> QED
        BY <1>2, <2>1, <3>1, <3>2, <3>3, <3>4, <3>5 DEF TargetWhole
    <2>6. DyingCounted'
      <3>1. ASSUME NEW m \in All, Dying(m)'
            PROVE  m \in T /\ acc'[m] = Cardinality(Counted(m)') /\ (Gone(Counted(m) \ Left(m)))'
        <4>1. m = Manager /\ g = 1
          BY <1>2, <2>2, <3>1 DEF Dying, Working
        <4>2. m = a /\ Alive(m)
          BY <1>1, <2>1, <4>1 DEF Alive
        <4>3. Counted(m)' = {}
          <5>1. pc'[m] = "each" /\ pos'[m] = 0
            BY <1>1, <2>1, <4>1
          <5> QED
            BY <5>1 DEF Counted
        <4>4. Cardinality({}) = 0
          BY FS_EmptySet
        <4> QED
          BY <2>1, <2>3, <2>4, <4>1, <4>2, <4>3, <4>4 DEF Gone
      <3>2. \A m \in All : pc'[m] \notin {"exit", "zombie"}
        BY <2>1, <2>2 DEF Working
      <3> QED
        BY <2>1, <3>1, <3>2 DEF DyingCounted
    <2>7. TargetCounted'
      BY <1>1, <2>1, <2>2 DEF TargetCounted, Silent, Working
    <2>8. SearchOver'
      BY <1>2, <2>1, <2>2, <2>4 DEF SearchOver, Over, Alive
    <2> QED
      BY <2>1, <2>5, <2>6, <2>7, <2>8 DEF KillInv, Killed, KillAnswer
  <1>4. CASE op # "kill"
    BY <1>2, <1>4 DEF KillInv, Killed, KillAnswer
  <1> QED
    BY <1>3, <1>4

(* What the Manager says in the end.                                        *)
LEMMA KillConclude ==
  ASSUME ServiceInv, TradeInv, SearchInv, KillInv, Conclude
  PROVE  KillInv'
  <1> DEFINE c == cmd[Manager]
             k == acc[Manager]
  <1>1. /\ pc[Manager] = "each" /\ Manager \in All /\ LoopOver(Manager) /\ Only(Manager) /\ k \in Nat
        /\ UNCHANGED <<cmd, subtree>> /\ c.a \in All
    BY DoesConclude, SubjectsTyped
  <1>2. CASE c.op = "kill"
    <2>1. Killing /\ Alive(Manager)
      BY <1>1, <1>2 DEF Killing, KillParts, KillInv, Killed, Busy, Alive
    <2>2. target' = target /\ target \in SUBSET All /\ IsFiniteSet(target)
      BY <1>1, TargetTyped DEF target
    <2>3. \A m \in All : m # Manager => pc'[m] = pc[m]
      BY <1>1 DEF Only
    <2>4. CASE c.g = 0
      <3>1. /\ pc'[Manager] = "idle"
            /\ IF k = 0 THEN answer'.told = "missing" ELSE answer' = [told |-> "killed", count |-> k - 1]
        BY <1>2, <2>4, DoesConclude
      <3>2. CASE k = 0
        <4>1. Unfound(Manager)
          BY <1>1, <2>4, <3>2, UnfoundAtEnd DEF Dying
        <4>2. c.a \notin Below({Manager})
          BY <1>2, <4>1 DEF Unfound, Sought
        <4>3. c.a # Manager
          BY <1>1, <4>2, BelowSplit
        <4>4. pc[c.a] = "none"
          BY <1>1, <4>2, <4>3, AllBelowManager DEF All
        <4>5. target = {}
          BY <1>1, <2>1, <3>2, <4>4 DEF Killing, KillParts, SearchOver, Over
        <4> QED
          BY <1>1, <1>2, <2>2, <3>1, <3>2, <4>5 DEF KillInv, Killed, KillAnswer, Busy
      <3>3. CASE k # 0
        <4>1. k = Cardinality(target) /\ Gone(target)
          BY <1>1, <2>1, <2>4, <3>3 DEF Killing, KillParts, TargetCounted, Left
        <4>2. target # {}
          BY <3>3, <4>1, FS_EmptySet
        <4>3. \A m \in target : pc'[m] \in {"none", "gone"}
          BY <1>1, <2>2, <2>3, <4>1 DEF Gone
        <4>4. answer' = [told |-> "killed", count |-> Cardinality(target) - 1]
          BY <3>1, <3>3, <4>1
        <4> QED
          BY <1>1, <1>2, <2>2, <3>1, <4>2, <4>3, <4>4 DEF KillInv, Killed, KillAnswer, Busy, Gone
      <3> QED
        BY <3>2, <3>3
    <2>5. CASE c.g = 1
      <3>1. pc'[Manager] = "gone" /\ answer' = [told |-> "killed", count |-> k]
        BY <1>2, <2>5, DoesConclude
      <3>2. Dying(Manager) /\ pos[Manager] >= Len(children[Manager])
        BY <1>1, <1>2, <2>5 DEF Dying, LoopOver, Enough
      <3>3. /\ Manager \in target /\ subtree[Manager] = {Manager} \cup Counted(Manager)
            /\ Cardinality(subtree[Manager]) = k + 1 /\ Gone(Counted(Manager))
        BY <1>1, <2>1, <3>2, CountedAll
      <3>4. c.a = Manager
        BY <2>1, <3>3 DEF Killing, KillParts, TargetWhole
      <3>5. subtree[Manager] = target
        BY <3>4 DEF target
      <3>6. ASSUME NEW m \in target PROVE pc'[m] \in {"none", "gone"}
        <4>1. m = Manager \/ m \in Counted(Manager)
          BY <3>3, <3>5
        <4>2. m # Manager => pc'[m] = pc[m] /\ pc[m] \in {"none", "gone"}
          BY <2>2, <2>3, <3>3, <4>1 DEF Gone
        <4> QED
          BY <3>1, <4>2
      <3>7. answer' = [told |-> "killed", count |-> Cardinality(target) - 1]
        <4>1. k \in Nat /\ Cardinality(subtree[Manager]) = k + 1
          BY <1>1, <3>3
        <4>2. k = Cardinality(subtree[Manager]) - 1
          BY <4>1
        <4> QED
          BY <3>1, <3>5, <4>2
      <3> QED
        BY <1>1, <1>2, <2>2, <3>1, <3>3, <3>6, <3>7 DEF KillInv, Killed, KillAnswer, Busy, Gone
    <2> QED
      BY <1>1, <2>4, <2>5, TradeTyped, CommandFields
  <1>3. CASE c.op # "kill"
    BY <1>1, <1>3 DEF KillInv, Killed, KillAnswer
  <1> QED
    BY <1>2, <1>3

LEMMA KillIdle ==
  ASSUME ServiceInv, TradeInv, KillInv, ~Busy, NEW n \in All, Step(n)
  PROVE  KillInv'
  <1>1. n \in Names /\ Aside(n) /\ Manager \in All /\ n # Manager
    BY IdleSteps, NamesAssumption DEF All
  <1>2. pc'[Manager] = pc[Manager] /\ cmd'[Manager] = cmd[Manager] /\ UNCHANGED <<answer, subtree>>
    BY <1>1 DEF Aside, Only
  <1>3. \A m \in All : pc[m] \in {"none", "gone"} => pc'[m] = pc[m]
    BY <1>1 DEF Aside, Only, Trading
  <1>4. target' = target /\ target \in SUBSET All
    BY <1>2, TargetTyped DEF target
  <1> QED
    BY <1>2, <1>3, <1>4 DEF KillInv, Killed, KillAnswer, Busy, Gone

LEMMA KillNext ==
  ASSUME ServiceInv, ServiceInv', TradeInv, SearchInv, KillInv, Busy, NEW n \in All, Step(n)
  PROVE  KillInv'
  <1>1. CASE n = Manager /\ Conclude
    BY <1>1, KillConclude
  <1>2. CASE cmd'[Manager] = cmd[Manager] /\ cmd[Manager].op # "kill"
    BY <1>2 DEF KillInv, Killed, KillAnswer
  <1>3. CASE ~(n = Manager /\ Conclude) /\ cmd[Manager].op = "kill"
    <2>1. Killing
      BY <1>3 DEF Killing, KillParts, KillInv, Killed
    <2>2. ~(Fork(n) \/ Hear(n) \/ ReplyPartner(n) \/ (n = Manager /\ EndExchange))
      BY <1>3, DoesFork, DoesHear, DoesReplyPartner, DoesEndExchange DEF SameAsManager
    <2>3. ~Boot(n)
      <3>1. ASSUME NEW p \in All, pc[p] = "hear" PROVE cmd[p].op = "spawn" /\ SameAsManager(cmd[p])
        BY <3>1, TradeTyped, ServesManager DEF Placed, Working
      <3> QED
        BY <1>3, <3>1, DoesBoot DEF SameAsManager
    <2>4. KillParts'
      <3>1. CASE Receive(n) \/ Forward(n) \/ Collect(n) \/ Reap(n)
        BY <2>1, <3>1, KillReceive, KillForward, KillCollect, KillReap
      <3>2. CASE Reply(n) \/ ReplyDying(n) \/ Exit(n)
        BY <2>1, <3>2, KillReply, KillReplyDying, KillExit
      <3>3. CASE ReplySecond(n) \/ Watch(n) \/ Give(n) \/ Take(n) \/ Report(n) \/ Unfile(n)
        BY <2>1, <3>3, DoesAside, KillAside
      <3> QED
        BY <1>3, <2>2, <2>3, <3>1, <3>2, <3>3 DEF Step
    <2>5. pc'[Manager] \notin {"idle", "gone"}
      <3>1. Manager \in All
        BY DEF All
      <3>2. CASE Receive(n) \/ Forward(n) \/ Collect(n) \/ Reap(n)
        <4>1. CASE Receive(n)
          BY <3>1, <4>1, DoesReceive DEF Only, Busy
        <4>2. CASE Forward(n) \/ Collect(n)
          BY <3>1, <4>2, DoesForward, DoesCollect DEF Only, Busy
        <4>3. CASE Reap(n)
          BY <3>1, <4>3, DoesReap DEF Busy, ChildOf
        <4> QED
          BY <3>2, <4>1, <4>2, <4>3
      <3>3. CASE Reply(n) \/ ReplyDying(n) \/ Exit(n)
        BY <3>1, <3>3, DoesReply, DoesReplyDying, DoesExit DEF Only, Busy
      <3>4. CASE ReplySecond(n) \/ Watch(n) \/ Give(n) \/ Take(n) \/ Report(n) \/ Unfile(n)
        BY <3>1, <3>4, DoesAside DEF Aside, Only, Busy, Trading
      <3> QED
        BY <1>3, <2>2, <2>3, <3>2, <3>3, <3>4 DEF Step
    <2> QED
      BY <2>4, <2>5 DEF KillInv, Killed, KillAnswer, KillParts
  <1>4. cmd'[Manager] = cmd[Manager]
    BY CommandStays
  <1> QED
    BY <1>1, <1>2, <1>3, <1>4

(* "has been killed" is true: the target and all that was below it are dead *)
(* and waited for, as many as the Manager says, and "doesn't exist" is      *)
(* printed only when there was no target.                                   *)
THEOREM KillAnswered == Spec => []KillAnswer
  <1>1. Init => KillInv
    BY DEF Init, KillInv, Killed, KillAnswer, All, NoCommand, Command
  <1>2. ASSUME ServiceInv, ServiceInv', TradeInv, SearchInv, KillInv, [Next]_vars PROVE KillInv'
    <2>1. CASE UNCHANGED vars
      <3>1. UNCHANGED <<children, pc, cmd, pos, acc, down, up, subtree, answer>>
        BY <2>1 DEF vars, pipes, locals, history
      <3>2. target' = target /\ (Busy' <=> Busy) /\ (Over' <=> Over) /\ (Gone(target)' <=> Gone(target))
        BY <3>1 DEF target, Busy, Over, Gone
      <3>3. KillAnswer'
        BY <1>2, <3>1, <3>2 DEF KillInv, KillAnswer
      <3>4. TargetWhole => TargetWhole'
        <4>1. \A m \in All : OnceEach(m)' <=> OnceEach(m)
          BY <3>1 DEF OnceEach, Kids
        <4>2. target \subseteq All
          BY <1>2, TargetTyped
        <4>3. \A m \in All : Alive(m)' <=> Alive(m)
          BY <3>1 DEF Alive
        <4> QED
          BY <3>1, <3>2, <4>1, <4>2, <4>3 DEF TargetWhole
      <3>5. DyingCounted => DyingCounted'
        <4>1. \A m \in All : (Dying(m)' <=> Dying(m)) /\ Counted(m)' = Counted(m) /\ Left(m)' = Left(m)
          BY <3>1 DEF Dying, Counted, Left, Kid
        <4> QED
          BY <3>1, <3>2, <4>1 DEF DyingCounted, Gone
      <3>6. TargetCounted => TargetCounted'
        BY <3>1, <3>2 DEF TargetCounted, Left, Kid, Gone
      <3>7. SearchOver => SearchOver'
        BY <3>1, <3>2 DEF SearchOver
      <3> QED
        BY <1>2, <3>1, <3>2, <3>3, <3>4, <3>5, <3>6, <3>7 DEF KillInv, Killed
    <2> QED
      BY <1>2, <2>1, KillIssue, KillIdle, KillNext DEF Next
  <1> QED
    BY <1>1, <1>2, SearchInvariance, PTL DEF Spec, KillInv
-----------------------------------------------------------------------------
(* The answer to an exchange.                                              *)

Stages ==
  \/ NoneFound \/ Traded \/ \E f \in Partners : OneFound(f)
  \/ \E f \in Partners : \E s \in Partners \ {f} :
       BothFound(f, s) \/ FirstToTake(f, s) \/ FirstToGive(f, s)
ExchangeInv == Exchanging /\ ExchangeAnswer
Bartering == ServiceInv /\ TradeInv /\ SearchInv /\ Stages /\ cmd[Manager].op = "exchange" /\ Busy

(* Of n alone the control changes, and of nobody the secret.                *)
Steady(m) ==
  pc'[m] = pc[m] /\ cmd'[m] = cmd[m] /\ acc'[m] = acc[m] /\ fifo'[m] = fifo[m] /\ tm'[m] = tm[m]
Alone(n) ==
  /\ cmd'[Manager] = cmd[Manager] /\ before' = before
  /\ \A m \in All : SecretOf(m)' = SecretOf(m) /\ (m # n => Steady(m))

LEMMA PartnersTyped ==
  ASSUME ServiceInv
  PROVE  Partners \subseteq All /\ cmd[Manager].a \in Partners /\ cmd[Manager].b \in Partners
  BY SubjectsTyped DEF Partners

LEMMA MateKept ==
  ASSUME NEW m \in All, cmd'[Manager] = cmd[Manager], Steady(m)
  PROVE  /\ SameAsManager(cmd[m])' <=> SameAsManager(cmd[m])
         /\ Second(m)' <=> Second(m)
         /\ First(m)' <=> First(m)
         /\ Reads(m)' <=> Reads(m)
         /\ Settled(m)' <=> Settled(m)
         /\ Away(m)' <=> Away(m)
         /\ Alive(m)' <=> Alive(m)
  <1>1. (SameAsManager(cmd[m])' <=> SameAsManager(cmd[m])) /\ (Second(m)' <=> Second(m))
    BY DEF SameAsManager, Second, Partner, Steady
  <1>2. Trailing(m)' <=> Trailing(m)
    BY DEF Trailing, Other, Steady
  <1> QED
    BY <1>1, <1>2 DEF First, Reads, Settled, Away, Alive, Steady

LEMMA SecretsKept ==
  ASSUME ServiceInv, NEW n \in All, Alone(n)
  PROVE  Partners' = Partners /\ (Kept => Kept') /\ (Swapped => Swapped')
  BY PartnersTyped DEF Alone, Kept, Swapped, Partners

(* No step but one of a partner changes the stage.                          *)
LEMMA StageKept ==
  ASSUME ServiceInv, Stages, NEW n \in All, Alone(n), n \in Partners => Steady(n),
         \A k \in {0, 1, 2} : CountIs(k) => CountIs(k)',
         NoneFound => /\ pc'[Manager] \in {"each", "await", "wait"}
                      /\ pc'[Manager] = "wait" => \A m \in Partners : ~Alive(m)
  PROVE  Stages'
  <1>1. Partners' = Partners /\ (Kept => Kept') /\ (Swapped => Swapped') /\ Partners \subseteq All
    BY SecretsKept, PartnersTyped
  <1>2. ASSUME NEW m \in Partners
        PROVE  /\ m \in All /\ Steady(m) /\ before'[m] = before[m]
               /\ (SameAsManager(cmd[m])' <=> SameAsManager(cmd[m])) /\ (Second(m)' <=> Second(m))
               /\ (First(m)' <=> First(m)) /\ (Reads(m)' <=> Reads(m)) /\ (Settled(m)' <=> Settled(m))
               /\ (Away(m)' <=> Away(m)) /\ (Alive(m)' <=> Alive(m))
    <2>1. m \in All /\ Steady(m) /\ before'[m] = before[m]
      BY <1>1 DEF Alone
    <2> QED
      BY <2>1, MateKept DEF Alone
  <1>3. CASE NoneFound
    BY <1>1, <1>2, <1>3 DEF NoneFound, Stages
  <1>4. CASE Traded
    <2>1. cmd'[Manager] = cmd[Manager]
      BY DEF Alone
    <2> QED
      BY <1>1, <1>2, <1>4, <2>1 DEF Traded, Stages
  <1>5. CASE \E f \in Partners : OneFound(f)
    <2>1. PICK f \in Partners : OneFound(f)
      BY <1>5
    <2>2. OneFound(f)'
      BY <1>1, <1>2, <2>1 DEF OneFound, Steady
    <2> QED
      BY <1>1, <2>2 DEF Stages
  <1>6. CASE \E f \in Partners : \E s \in Partners \ {f} :
               BothFound(f, s) \/ FirstToTake(f, s) \/ FirstToGive(f, s)
    <2>1. PICK f \in Partners, s \in Partners :
                 f # s /\ (BothFound(f, s) \/ FirstToTake(f, s) \/ FirstToGive(f, s))
      BY <1>6
    <2>3. BothFound(f, s) => BothFound(f, s)'
      BY <1>1, <1>2 DEF BothFound, Steady
    <2>4. FirstToTake(f, s) => FirstToTake(f, s)'
      BY <1>1, <1>2 DEF FirstToTake, Steady
    <2>5. FirstToGive(f, s) => FirstToGive(f, s)'
      BY <1>1, <1>2 DEF FirstToGive, Steady
    <2> QED
      BY <1>1, <2>1, <2>3, <2>4, <2>5 DEF Stages
  <1> QED
    BY <1>3, <1>4, <1>5, <1>6 DEF Stages

(* Who has no FIFO to read keeps its secret when it goes on.                *)
LEMMA AloneIfQuiet ==
  ASSUME ServiceInv, TradeInv, NEW n \in All, Only(n), cmd'[Manager] = cmd[Manager],
         UNCHANGED <<secret, fifo, tm, before>>, n = Manager \/ fifo[n] = <<>>
  PROVE  Alone(n)
  <1>1. \A m \in All : m # n => Steady(m)
    BY DEF Only, Steady
  <1>2. \A m \in All : m # n => SecretOf(m)' = SecretOf(m)
    BY DEF Only, SecretOf, Second, Partner
  <1>3. SecretOf(n)' = SecretOf(n)
    BY DEF SecretOf, Second
  <1> QED
    BY <1>1, <1>2, <1>3 DEF Alone

LEMMA NoFifo ==
  ASSUME TradeInv, NEW n \in All, pc[n] # "take"
  PROVE  fifo[n] = <<>>
  BY DEF TradeInv, FifoRead

LEMMA CountKept ==
  ASSUME NEW k \in {0, 1, 2}, CountIs(k), NEW n \in All, Only(n),
         \A m \in All : down'[m] # <<>> => down'[m] = down[m] \/ Head(down'[m]).g = k,
         \A m \in All : up'[m] # <<>> => up'[m] = up[m] \/ Head(up'[m]) = k,
         pc'[n] = "each" => acc'[n] = k
  PROVE  CountIs(k)'
  BY DEF CountIs, Only

(* Who works for a partner is one.                                          *)
LEMMA PartnerOf ==
  ASSUME ServiceInv, NEW n \in All, SameAsManager(cmd[n])
  PROVE  n \in Partners <=> Partner(n)
  BY DEF Partners, Partner, SameAsManager

LEMMA TraderIsPartner ==
  ASSUME ServiceInv, TradeInv, Busy, cmd[Manager].op = "exchange", NEW n \in All, pc[n] \in Trading, ~Trailing(n)
  PROVE  n \in Partners /\ SameAsManager(cmd[n])
  <1>1. SameAsManager(cmd[n])
    BY DEF TradeInv, Current, SameAsManager, All
  <1>2. Partner(n)
    BY TradeTyped DEF Placed, Trading
  <1> QED
    BY <1>1, <1>2, PartnerOf

(* The stage by the number of partners found.                               *)
LEMMA StageOf ==
  ASSUME Bartering
  PROVE  /\ \E k \in {0, 1, 2} : CountIs(k)
         /\ \/ CountIs(0) /\ NoneFound
            \/ CountIs(1) /\ (\E f \in Partners : OneFound(f))
            \/ CountIs(2) /\ Traded
            \/ CountIs(2) /\ (\E f \in Partners, s \in Partners :
                                f # s /\ (BothFound(f, s) \/ FirstToTake(f, s) \/ FirstToGive(f, s)))
  <1>1. CASE NoneFound \/ Traded
    <2>1. NoneFound => CountIs(0)
      BY DEF NoneFound
    <2>2. Traded => CountIs(2)
      BY DEF Traded
    <2> QED
      BY <1>1, <2>1, <2>2
  <1>2. CASE \E f \in Partners : OneFound(f)
    <2>1. \A f \in Partners : OneFound(f) => CountIs(1)
      BY DEF OneFound
    <2> QED
      BY <1>2, <2>1
  <1>3. CASE \E f \in Partners : \E s \in Partners \ {f} :
               BothFound(f, s) \/ FirstToTake(f, s) \/ FirstToGive(f, s)
    <2>1. PICK f \in Partners, s \in Partners :
                 f # s /\ (BothFound(f, s) \/ FirstToTake(f, s) \/ FirstToGive(f, s))
      BY <1>3
    <2>2. CountIs(2)
      BY <2>1 DEF BothFound, FirstToTake, FirstToGive
    <2> QED
      BY <2>1, <2>2
  <1> QED
    BY <1>1, <1>2, <1>3 DEF Bartering, Stages

(* The other partner when n is one.                                         *)
LEMMA Pair ==
  ASSUME NEW n \in Partners, NEW m \in Partners, n # m
  PROVE  /\ Partners = {n, m} /\ \A x \in Partners : x = n \/ x = m
         /\ SameAsManager(cmd[n]) => Other(n) = m
  BY DEF Partners, Other, SameAsManager

LEMMA NotAway ==
  ASSUME ServiceInv, TradeInv, NEW n \in All
  PROVE  /\ pc[n] \in {"each", "await", "second", "watch", "give", "report"} => ~Away(n)
         /\ Trailing(n) => n = Manager \/ (pc[n] \in Trading /\ Second(n))
         /\ First(n) => ~Away(n)
  <1>1. Trailing(n) => pc[n] \in {"take", "unfile"}
    BY DEF Trailing
  <1>2. Trailing(n) /\ n # Manager => pc[n] \in Trading /\ Second(n)
    BY <1>1, TradeTyped, TradingFacts DEF Trading
  <1>3. First(n) => ~Away(n)
    <2> SUFFICES ASSUME First(n), Away(n) PROVE FALSE
      OBVIOUS
    <2>1. ~Second(n) /\ pc[n] \in {"each", "await", "watch", "take"} /\ n # Manager
      BY DEF First, Away
    <2>2. ~Trailing(n)
      BY <1>2, <2>1
    <2> QED
      BY <2>1, <2>2 DEF Away, Trading
  <1> QED
    BY <1>1, <1>2, <1>3 DEF Away, Trading

(* The other partner stays as it is when n goes on.                         *)
LEMMA PairKept ==
  ASSUME ServiceInv, NEW n \in Partners, NEW m \in Partners, n # m, Alone(n)
  PROVE  /\ Partners' = Partners /\ n \in All /\ m \in All /\ (Kept => Kept') /\ (Swapped => Swapped')
         /\ before' = before /\ Steady(m)
         /\ SameAsManager(cmd[m])' <=> SameAsManager(cmd[m])
         /\ Second(m)' <=> Second(m)
         /\ First(m)' <=> First(m)
         /\ Reads(m)' <=> Reads(m)
         /\ Settled(m)' <=> Settled(m)
         /\ Away(m)' <=> Away(m)
  <1>1. n \in All /\ m \in All
    BY PartnersTyped
  <1>2. cmd'[Manager] = cmd[Manager] /\ Steady(m) /\ before' = before
    BY <1>1 DEF Alone
  <1> QED
    BY <1>1, <1>2, SecretsKept, MateKept

LEMMA BarterReceive ==
  ASSUME Bartering, NEW n \in All, Receive(n)
  PROVE  Stages'
  <1> DEFINE c == Head(down[n])
  <1>1. /\ n # Manager /\ pc[n] = "idle" /\ down[n] # <<>> /\ c \in Commands /\ SameAsManager(c) /\ Only(n)
        /\ \A x \in All : up[x] = <<>> /\ down'[x] = <<>> /\ ~Holds(x)
        /\ UNCHANGED <<secret, up, tm, fifo, before>> /\ cmd'[n] = c /\ c.op = "exchange"
        /\ c.g \in {0, 1}
        /\ IF n \in {c.a, c.b} THEN acc'[n] = c.g + 1 /\ pc'[n] = IF c.g + 1 = 2 THEN "second" ELSE "each"
           ELSE acc'[n] = c.g /\ pc'[n] = "each"
    <2>1. c = Head(down[n]) /\ ServiceInv /\ TradeInv /\ cmd[Manager].op = "exchange"
      BY DEF Bartering
    <2> HIDE DEF c
    <2>2. /\ n # Manager /\ pc[n] = "idle" /\ down[n] # <<>> /\ c \in Commands /\ SameAsManager(c) /\ Only(n)
          /\ \A x \in All : up[x] = <<>> /\ down'[x] = <<>> /\ ~Holds(x)
          /\ UNCHANGED <<secret, up, tm, fifo, before>>
      BY <2>1, DoesReceive
    <2>3. c.op = "exchange" /\ c.g \in {0, 1}
      BY <2>1, <2>2, CommandFields DEF SameAsManager
    <2>4. /\ cmd'[n] = c
          /\ IF n \in {c.a, c.b} THEN acc'[n] = c.g + 1 /\ pc'[n] = IF c.g + 1 = 2 THEN "second" ELSE "each"
             ELSE acc'[n] = c.g /\ pc'[n] = "each"
      BY <2>1, <2>3, DoesReceive
    <2> QED
      BY <2>2, <2>3, <2>4
  <1> HIDE DEF c
  <1>2. Manager \in All /\ cmd'[Manager] = cmd[Manager] /\ pc'[Manager] = pc[Manager]
        /\ ServiceInv /\ TradeInv
    BY <1>1 DEF Only, All, Bartering
  <1>3. Alone(n)
    BY <1>1, <1>2, AloneIfQuiet, NoFifo
  <1>4. \A k \in {0, 1, 2} : CountIs(k) => c.g = k
    BY <1>1 DEF CountIs, c
  <1>5. n \in Partners <=> n \in {c.a, c.b}
    BY <1>1 DEF Partners, SameAsManager
  <1>6. CASE n \notin Partners
    <2>1. ASSUME NEW k \in {0, 1, 2}, CountIs(k) PROVE CountIs(k)'
      <3>1. acc'[n] = k
        BY <1>1, <1>4, <1>5, <1>6, <2>1
      <3> QED
        BY <1>1, <2>1, <3>1, CountKept
    <2> QED
      BY <1>2, <1>3, <1>6, <2>1, StageKept DEF NoneFound, Bartering
  <1>7. CASE n \in Partners
    <2>1. c.g # 2
      BY <1>1
    <2>2. CASE NoneFound /\ CountIs(0)
      <3>1. c.g = 0 /\ acc'[n] = 1 /\ pc'[n] = "each"
        BY <1>1, <1>4, <1>5, <1>7, <2>2
      <3>2. CountIs(1)'
        BY <1>1, <3>1 DEF CountIs, Only, Holds
      <3>3. First(n)'
        <4>1. ~Second(n)'
          BY <1>1, <3>1 DEF Second
        <4>2. SameAsManager(cmd[n])'
          BY <1>1, <1>2 DEF SameAsManager
        <4> QED
          BY <3>1, <4>1, <4>2 DEF First
      <3>4. Kept' /\ Partners' = Partners
        BY <1>2, <1>3, <2>2, SecretsKept DEF NoneFound
      <3>5. ASSUME NEW m \in Partners, m # n PROVE Away(m)'
        BY <1>2, <1>3, <1>7, <2>2, <3>5, PairKept DEF NoneFound
      <3>6. OneFound(n)'
        BY <3>1, <3>2, <3>3, <3>4, <3>5 DEF OneFound
      <3> QED
        BY <1>7, <3>4, <3>6 DEF Stages
    <2>3. CASE CountIs(1) /\ \E f \in Partners : OneFound(f)
      <3>1. PICK f \in Partners : OneFound(f)
        BY <2>3
      <3>2. n # f
        BY <1>1, <3>1 DEF OneFound, First
      <3>3. c.g = 1 /\ acc'[n] = 2 /\ pc'[n] = "second"
        BY <1>1, <1>4, <1>5, <1>7, <2>3
      <3>4. CountIs(2)'
        BY <1>1, <3>3 DEF CountIs, Only, Holds
      <3>5. SameAsManager(cmd[n])' /\ Second(n)'
        <4>1. SameAsManager(cmd[n])'
          BY <1>1, <1>2 DEF SameAsManager
        <4> QED
          BY <1>1, <1>5, <1>7, <3>3, <4>1 DEF Second, Partner
      <3>6. Kept' /\ First(f)' /\ Partners' = Partners
        BY <1>2, <1>3, <1>7, <3>1, <3>2, PairKept DEF OneFound
      <3>7. BothFound(f, n)'
        BY <3>3, <3>4, <3>5, <3>6 DEF BothFound
      <3> QED
        BY <1>7, <3>1, <3>2, <3>6, <3>7 DEF Stages
    <2>4. ~CountIs(2)
      BY <1>4, <2>1
    <2> QED
      BY <2>2, <2>3, <2>4, StageOf
  <1> QED
    BY <1>6, <1>7

(* A partner that looks for the other among its children is the first.      *)
LEMMA FirstLooks ==
  ASSUME Bartering, NEW n \in Partners, pc[n] \in {"each", "await"}
  PROVE  \/ CountIs(1) /\ OneFound(n)
         \/ CountIs(2) /\ \E m \in Partners : n # m /\ BothFound(n, m)
  <1>1. ServiceInv /\ TradeInv /\ n \in All
    BY PartnersTyped DEF Bartering
  <1>2. ~Away(n)
    BY <1>1, NotAway
  <1>3. ~NoneFound /\ ~Traded
    BY <1>2 DEF NoneFound, Traded, Settled
  <1>4. ASSUME NEW f \in Partners, OneFound(f) PROVE n = f
    BY <1>2, <1>4 DEF OneFound
  <1>5. ASSUME NEW f \in Partners, NEW s \in Partners, f # s,
               BothFound(f, s) \/ FirstToTake(f, s) \/ FirstToGive(f, s)
        PROVE  n = f /\ BothFound(f, s)
    <2>1. n = f \/ n = s
      BY <1>5, Pair
    <2>2. pc[n] \notin {"take", "give", "second"}
      OBVIOUS
    <2>3. BothFound(f, s) => pc[s] \in {"second", "give"}
      BY DEF BothFound
    <2>4. FirstToTake(f, s) \/ FirstToGive(f, s) => pc[f] \in {"take", "give"} /\ pc[s] = "take"
      BY DEF FirstToTake, FirstToGive, Reads
    <2> QED
      BY <1>5, <2>1, <2>2, <2>3, <2>4
  <1> QED
    BY <1>3, <1>4, <1>5, StageOf

LEMMA BarterForward ==
  ASSUME Bartering, NEW n \in All, Forward(n)
  PROVE  Stages'
  <1> DEFINE k == Kid(n)
  <1>1. ServiceInv /\ TradeInv /\ cmd[Manager].op = "exchange"
    BY DEF Bartering
  <1>2. /\ pc[n] = "each" /\ ~Enough(n) /\ SameAsManager(cmd[n]) /\ Only(n) /\ pc'[n] = "await"
        /\ down'[k] = <<Sent(n)>> /\ \A m \in All : m # k => down'[m] = <<>>
        /\ UNCHANGED <<up, cmd, acc, tm, fifo, secret, before>>
    BY <1>1, DoesForward
  <1> HIDE DEF k
  <1>3. cmd[n].op = "exchange" /\ acc[n] # 2 /\ Head(down'[k]).g = acc[n]
    <2>1. cmd[n].op = "exchange" /\ acc[n] # 2
      BY <1>1, <1>2 DEF SameAsManager, Enough
    <2>2. cmd[n] \in Commands
      BY <1>1, TradeTyped
    <2>3. Sent(n).g = acc[n]
      BY <2>1, <2>2 DEF Sent, Commands
    <2> QED
      BY <1>2, <2>1, <2>3
  <1>4. Alone(n)
    BY <1>1, <1>2, AloneIfQuiet, NoFifo
  <1>5. ASSUME NEW j \in {0, 1, 2}, CountIs(j) PROVE CountIs(j)'
    <2>1. acc[n] = j
      BY <1>2, <1>5 DEF CountIs
    <2>2. \A m \in All : down'[m] # <<>> => Head(down'[m]).g = j
      BY <1>2, <1>3, <2>1
    <2> QED
      BY <1>2, <1>5, <2>2, CountKept
  <1>6. CASE n \notin Partners
    <2>1. pc'[Manager] = pc[Manager] \/ pc'[Manager] = "await"
      BY <1>1, <1>2, SubjectsTyped DEF Only
    <2>2. Stages
      BY DEF Bartering
    <2> QED
      BY <1>1, <1>4, <1>5, <1>6, <2>1, <2>2, StageKept DEF NoneFound
  <1>7. CASE n \in Partners
    <2>1. ~CountIs(2)
      BY <1>2, <1>3 DEF CountIs
    <2>2. CountIs(1) /\ OneFound(n)
      BY <1>2, <1>7, <2>1, FirstLooks
    <2>3. acc'[n] = 1 /\ CountIs(1)'
      BY <1>2, <1>5, <2>2 DEF CountIs
    <2>4. Kept' /\ Partners' = Partners
      BY <1>1, <1>4, <2>2, SecretsKept DEF OneFound
    <2>5. First(n)'
      BY <1>1, <1>2, <2>2, SubjectsTyped DEF OneFound, First, SameAsManager, Second, Partner
    <2>6. ASSUME NEW m \in Partners, m # n PROVE Away(m)'
      BY <1>1, <1>4, <1>7, <2>2, <2>6, PairKept DEF OneFound
    <2>7. OneFound(n)'
      BY <2>3, <2>4, <2>5, <2>6 DEF OneFound
    <2> QED
      BY <1>7, <2>4, <2>7 DEF Stages
  <1> QED
    BY <1>6, <1>7

LEMMA BarterCollect ==
  ASSUME Bartering, NEW n \in All, Collect(n)
  PROVE  Stages'
  <1> DEFINE k == Kid(n)
  <1>1. ServiceInv /\ TradeInv /\ cmd[Manager].op = "exchange"
    BY DEF Bartering
  <1>2. /\ pc[n] = "await" /\ SameAsManager(cmd[n]) /\ Only(n) /\ k \in All /\ up[k] # <<>>
        /\ \A m \in All : down[m] = <<>> /\ up'[m] = <<>> /\ ~Holds(m)
        /\ acc'[n] = NewAcc(n, Head(up[k]))
        /\ UNCHANGED <<down, cmd, tm, fifo, secret, before>>
    BY <1>1, DoesCollect DEF ChildOf
  <1>3. cmd[n].op = "exchange" /\ pc'[n] = "each"
    <2>1. cmd[n].op = "exchange"
      BY <1>1, <1>2 DEF SameAsManager
    <2>2. ~Targets(n, k)
      BY <2>1 DEF Targets
    <2> QED
      BY <1>1, <2>1, <2>2, DoesCollect
  <1> HIDE DEF k
  <1>4. Alone(n)
    BY <1>1, <1>2, AloneIfQuiet, NoFifo
  <1>5. \A j \in {0, 1, 2} : CountIs(j) => Head(up[k]) = j
    BY <1>2 DEF CountIs
  <1>6. \A j \in {0, 1, 2} : CountIs(j) /\ acc'[n] = j => CountIs(j)'
    BY <1>2, <1>3, CountKept
  <1>7. acc'[n] = IF n # Manager /\ Partner(n) /\ Head(up[k]) # 2 THEN acc[n] ELSE Head(up[k])
    BY <1>2, <1>3 DEF NewAcc
  <1>8. CASE n \notin Partners
    <2>1. ~Partner(n)
      BY <1>1, <1>2, <1>8, PartnerOf
    <2>2. \A j \in {0, 1, 2} : CountIs(j) => CountIs(j)'
      BY <1>5, <1>6, <1>7, <2>1
    <2>3. pc'[Manager] = pc[Manager] \/ pc'[Manager] = "each"
      BY <1>1, <1>2, <1>3, SubjectsTyped DEF Only
    <2>4. Stages
      BY DEF Bartering
    <2> QED
      BY <1>1, <1>4, <1>8, <2>2, <2>3, <2>4, StageKept DEF NoneFound
  <1>9. CASE n \in Partners
    <2>1. \/ CountIs(1) /\ OneFound(n)
          \/ CountIs(2) /\ \E m \in Partners : n # m /\ BothFound(n, m)
      BY <1>2, <1>9, FirstLooks
    <2>2. First(n)'
      <3>1. First(n)
        BY <2>1 DEF OneFound, BothFound
      <3> QED
        BY <1>1, <1>2, <1>3, <3>1, SubjectsTyped DEF First, SameAsManager, Second, Partner
    <2>3. CASE CountIs(1) /\ OneFound(n)
      <3>1. acc[n] = 1
        BY <1>2, <2>3 DEF OneFound
      <3>2. acc'[n] = 1 /\ CountIs(1)'
        BY <1>5, <1>6, <1>7, <2>3, <3>1
      <3>3. Kept' /\ Partners' = Partners
        BY <1>1, <1>4, <2>3, SecretsKept DEF OneFound
      <3>4. ASSUME NEW m \in Partners, m # n PROVE Away(m)'
        BY <1>1, <1>4, <1>9, <2>3, <3>4, PairKept DEF OneFound
      <3>5. OneFound(n)'
        BY <1>3, <2>2, <3>2, <3>3, <3>4 DEF OneFound
      <3> QED
        BY <1>9, <3>3, <3>5 DEF Stages
    <2>4. CASE CountIs(2) /\ \E m \in Partners : n # m /\ BothFound(n, m)
      <3>0. PICK m \in Partners : n # m /\ BothFound(n, m)
        BY <2>4
      <3>1. acc'[n] = 2 /\ CountIs(2)'
        BY <1>5, <1>6, <1>7, <2>4
      <3>2. /\ Kept' /\ Partners' = Partners /\ Steady(m) /\ SameAsManager(cmd[m])' /\ Second(m)'
        BY <1>1, <1>4, <1>9, <3>0, PairKept DEF BothFound
      <3>3. BothFound(n, m)'
        BY <2>2, <3>0, <3>1, <3>2 DEF BothFound, Steady
      <3> QED
        BY <1>9, <3>0, <3>2, <3>3 DEF Stages
    <2> QED
      BY <2>1, <2>3, <2>4
  <1> QED
    BY <1>8, <1>9

LEMMA BarterReply ==
  ASSUME Bartering, NEW n \in All, Reply(n)
  PROVE  Stages'
  <1>1. ServiceInv /\ TradeInv /\ cmd[Manager].op = "exchange" /\ Stages
    BY DEF Bartering
  <1>2. /\ pc[n] = "each" /\ n # Manager /\ SameAsManager(cmd[n]) /\ Only(n) /\ pc'[n] = "idle"
        /\ (cmd[n].op = "exchange" => ~Partner(n))
        /\ up'[n] = <<acc[n]>> /\ \A m \in All : m # n => up'[m] = <<>>
        /\ UNCHANGED <<down, tm, fifo, secret, before>>
    BY <1>1, DoesReply
  <1>3. n \notin Partners
    BY <1>1, <1>2, PartnerOf DEF SameAsManager
  <1>4. cmd'[Manager] = cmd[Manager] /\ pc'[Manager] = pc[Manager]
    BY <1>1, <1>2, SubjectsTyped DEF Only
  <1>5. Alone(n)
    BY <1>1, <1>2, <1>4, AloneIfQuiet, NoFifo
  <1>6. ASSUME NEW j \in {0, 1, 2}, CountIs(j) PROVE CountIs(j)'
    <2>1. acc[n] = j
      BY <1>2, <1>6 DEF CountIs
    <2>2. \A m \in All : up'[m] # <<>> => Head(up'[m]) = j
      BY <1>2, <2>1
    <2> QED
      BY <1>2, <1>6, <2>2, CountKept
  <1> QED
    BY <1>1, <1>3, <1>4, <1>5, <1>6, StageKept DEF NoneFound

(* The first partner goes on: it is still the first.                        *)
LEMMA FirstStays ==
  ASSUME Bartering, NEW n \in Partners, pc[n] = "each", pc'[n] \in {"watch", "take"}, Only(n),
         UNCHANGED <<cmd, acc, down, tm, fifo, secret, before>>,
         \A m \in All : up'[m] # <<>> => up'[m] = <<acc[n]>>
  PROVE  Stages'
  <1>1. ServiceInv /\ TradeInv /\ cmd[Manager].op = "exchange" /\ n \in All
    BY PartnersTyped DEF Bartering
  <1>2. fifo[n] = <<>>
    BY <1>1, NoFifo
  <1>3. Alone(n)
    BY <1>1, <1>2, AloneIfQuiet
  <1>4. ASSUME NEW j \in {0, 1, 2}, CountIs(j) PROVE CountIs(j)'
    <2>1. acc[n] = j
      BY <1>1, <1>4 DEF CountIs
    <2>2. \A m \in All : up'[m] # <<>> => Head(up'[m]) = j
      BY <2>1
    <2> QED
      BY <1>1, <1>4, <2>2, CountKept
  <1>5. \/ CountIs(1) /\ OneFound(n)
        \/ CountIs(2) /\ \E m \in Partners : n # m /\ BothFound(n, m)
    BY FirstLooks
  <1>6. First(n)'
    <2>1. First(n)
      BY <1>5 DEF OneFound, BothFound
    <2> QED
      BY <1>1, <1>2, <2>1, SubjectsTyped DEF First, SameAsManager, Second, Partner
  <1>7. CASE CountIs(1) /\ OneFound(n)
    <2>1. Kept' /\ Partners' = Partners
      BY <1>1, <1>3, <1>7, SecretsKept DEF OneFound
    <2>2. ASSUME NEW m \in Partners, m # n PROVE Away(m)'
      BY <1>1, <1>3, <1>7, <2>2, PairKept DEF OneFound
    <2>3. OneFound(n)'
      BY <1>4, <1>6, <1>7, <2>1, <2>2 DEF OneFound
    <2> QED
      BY <2>1, <2>3 DEF Stages
  <1>8. CASE CountIs(2) /\ \E m \in Partners : n # m /\ BothFound(n, m)
    <2>1. PICK m \in Partners : n # m /\ BothFound(n, m)
      BY <1>8
    <2>2. /\ Kept' /\ Partners' = Partners /\ Steady(m) /\ SameAsManager(cmd[m])' /\ Second(m)'
      BY <1>1, <1>3, <2>1, PairKept DEF BothFound
    <2>3. BothFound(n, m)'
      BY <1>4, <1>6, <1>8, <2>1, <2>2 DEF BothFound, Steady
    <2> QED
      BY <2>1, <2>2, <2>3 DEF Stages
  <1> QED
    BY <1>5, <1>7, <1>8

LEMMA BarterReplyPartner ==
  ASSUME Bartering, NEW n \in All, ReplyPartner(n)
  PROVE  Stages'
  <1>1. ServiceInv /\ TradeInv
    BY DEF Bartering
  <1>2. /\ pc[n] = "each" /\ Partner(n) /\ SameAsManager(cmd[n]) /\ Only(n)
        /\ IF acc[n] = 2 THEN pc'[n] = "take" /\ up'[n] = <<>> ELSE pc'[n] = "watch" /\ up'[n] = <<acc[n]>>
        /\ \A m \in All : m # n => up'[m] = <<>>
        /\ UNCHANGED <<down, cmd, acc, tm, fifo, secret, before>>
    BY <1>1, DoesReplyPartner
  <1>3. n \in Partners
    BY <1>1, <1>2, PartnerOf
  <1> QED
    BY <1>2, <1>3, FirstStays

(* If the Manager found none of the two, none of them is alive.             *)
LEMMA BarterConclude ==
  ASSUME Bartering, Conclude
  PROVE  Stages' /\ pc'[Manager] # "idle"
  <1>1. ServiceInv /\ TradeInv /\ SearchInv /\ cmd[Manager].op = "exchange" /\ Stages /\ Manager \in All
    BY SubjectsTyped DEF Bartering
  <1>2. /\ pc[Manager] = "each" /\ LoopOver(Manager) /\ Silent /\ Only(Manager)
        /\ pc'[Manager] = IF Partner(Manager) THEN "take" ELSE "wait"
        /\ UNCHANGED <<down, up, cmd, acc, tm, fifo, secret, before>>
    BY <1>1, DoesConclude
  <1>3. SameAsManager(cmd[Manager]) /\ (Manager \in Partners <=> Partner(Manager))
    BY <1>1, PartnerOf DEF SameAsManager
  <1>4. ASSUME NoneFound, NEW x \in Partners PROVE ~Alive(x)
    <2> SUFFICES ASSUME Alive(x) PROVE FALSE
      OBVIOUS
    <2>1. acc[Manager] = 0
      BY <1>1, <1>2, <1>4 DEF NoneFound, CountIs
    <2>2. Unfound(Manager)
      BY <1>1, <1>2, <2>1, UnfoundAtEnd DEF Dying
    <2>3. Below({Manager}) \cap Partners = {}
      BY <1>1, <2>2 DEF Unfound, Sought, Partners
    <2>4. x \in Names /\ pc[x] # "none"
      BY <1>1, <1>4, PartnersTyped DEF NoneFound, Away, Alive, All
    <2> QED
      BY <1>1, <1>4, <2>3, <2>4, AllBelowManager
  <1>5. \A m \in All : up'[m] = <<>>
    BY <1>2 DEF Silent
  <1>6. CASE Manager \in Partners
    BY <1>2, <1>3, <1>5, <1>6, FirstStays
  <1>7. CASE Manager \notin Partners
    <2>1. Alone(Manager)
      BY <1>1, <1>2, AloneIfQuiet
    <2>2. \A j \in {0, 1, 2} : CountIs(j) => CountIs(j)'
      BY <1>1, <1>2, <1>3, <1>7, CountKept
    <2> QED
      BY <1>1, <1>2, <1>3, <1>4, <1>7, <2>1, <2>2, StageKept
  <1> QED
    BY <1>2, <1>6, <1>7

(* Who is done with its part stays done; who was not found yet is not       *)
(* found by what it still does of an earlier exchange.                      *)
LEMMA PartnerAside ==
  ASSUME Bartering, NEW n \in Partners, Alone(n), n # Manager, pc'[Manager] = pc[Manager],
         \A k \in {0, 1, 2} : CountIs(k) => CountIs(k)',
         Trailing(n) => Away(n)' /\ Alive(n)',
         Settled(n) => Settled(n)',
         Trailing(n) \/ Traded
  PROVE  Stages'
  <1>1. ServiceInv /\ TradeInv /\ n \in All
    BY PartnersTyped DEF Bartering
  <1>2. Partners' = Partners /\ (Kept => Kept') /\ (Swapped => Swapped') /\ cmd'[Manager] = cmd[Manager]
    BY <1>1, SecretsKept DEF Alone
  <1>3. CASE Traded
    <2>1. \A m \in Partners : m # n => Settled(m)'
      BY <1>1, <1>3, PairKept DEF Traded
    <2>2. Traded'
      BY <1>2, <1>3, <2>1 DEF Traded
    <2> QED
      BY <2>2 DEF Stages
  <1>4. CASE ~Traded
    <2>1. Trailing(n) /\ Second(n) /\ Away(n)' /\ Alive(n)'
      BY <1>1, <1>4, NotAway
    <2>2. ASSUME NEW m \in Partners, m # n PROVE Away(m) => Away(m)'
      BY <1>1, <2>2, PairKept
    <2>3. CASE NoneFound
      <3>1. Alive(n) /\ pc'[Manager] # "wait"
        BY <2>1, <2>3 DEF Trailing, Alive, NoneFound
      <3>2. NoneFound'
        BY <1>2, <2>1, <2>2, <2>3, <3>1 DEF NoneFound
      <3> QED
        BY <3>2 DEF Stages
    <2>4. ASSUME NEW f \in Partners, OneFound(f) PROVE Stages'
      <3>1. n # f
        BY <2>1, <2>4 DEF OneFound, First
      <3>2. First(f)' /\ Steady(f)
        BY <1>1, <2>4, <3>1, PairKept DEF OneFound
      <3>3. \A m \in Partners \ {f} : Away(m)'
        BY <2>1, <2>2, <2>4 DEF OneFound
      <3>4. OneFound(f)'
        BY <1>2, <2>4, <3>2, <3>3 DEF OneFound, Steady
      <3> QED
        BY <1>2, <2>4, <3>4 DEF Stages
    <2>5. ASSUME NEW f \in Partners, NEW s \in Partners, f # s,
                 BothFound(f, s) \/ FirstToTake(f, s) \/ FirstToGive(f, s)
          PROVE  FALSE
      <3>1. ~Second(f)
        BY <2>5 DEF BothFound, FirstToTake, FirstToGive, First
      <3>2. pc[s] \in {"second", "give"} \/ (pc[s] = "take" /\ fifo[s] = <<>>)
        BY <2>5 DEF BothFound, FirstToTake, FirstToGive, Reads
      <3> QED
        BY <2>1, <2>5, <3>1, <3>2, Pair DEF Trailing
    <2> QED
      BY <1>4, <2>3, <2>4, <2>5, StageOf
  <1> QED
    BY <1>3, <1>4

(* At a place of the trade a partner is in one of the roles.                *)
LEMMA Role ==
  ASSUME Bartering, NEW n \in All, pc[n] \in Trading, ~Trailing(n)
  PROVE  /\ n \in Partners /\ SameAsManager(cmd[n])
         /\ \/ Traded /\ Settled(n)
            \/ OneFound(n)
            \/ \E m \in Partners :
                 /\ n # m /\ Other(n) = m
                 /\ \/ BothFound(n, m) \/ BothFound(m, n)
                    \/ FirstToTake(n, m) \/ FirstToTake(m, n) \/ FirstToGive(n, m) \/ FirstToGive(m, n)
  <1>1. n \in Partners /\ SameAsManager(cmd[n])
    BY TraderIsPartner DEF Bartering
  <1>2. ~Away(n)
    BY DEF Away, Trading, Bartering
  <1>3. ~NoneFound
    <2>1. n # Manager => ~Away(n)
      BY <1>2
    <2> QED
      BY <1>1, <1>2 DEF NoneFound
  <1>4. Traded => Settled(n)
    BY <1>1 DEF Traded
  <1>5. ASSUME NEW f \in Partners, OneFound(f) PROVE n = f
    BY <1>1, <1>2, <1>5 DEF OneFound
  <1>6. ASSUME NEW f \in Partners, NEW s \in Partners, f # s PROVE (n = f /\ Other(n) = s) \/ (n = s /\ Other(n) = f)
    BY <1>1, <1>6, Pair
  <1> QED
    BY <1>1, <1>3, <1>4, <1>5, <1>6, StageOf

LEMMA BarterReplySecond ==
  ASSUME Bartering, NEW n \in All, ReplySecond(n)
  PROVE  Stages'
  <1>1. ServiceInv /\ TradeInv /\ cmd[Manager].op = "exchange"
    BY DEF Bartering
  <1>2. pc[n] = "second" /\ pc[n] \in Trading /\ Holds(n) /\ ~Trailing(n)
    BY DEF ReplySecond, Trading, Holds, Trailing
  <1>3. Silent /\ \A m \in All : Holds(m) => m = n
    BY <1>1, <1>2, HolderAlone
  <1>4. /\ pc' = [pc EXCEPT ![n] = "give"] /\ up' = [up EXCEPT ![n] = Append(<<>>, 2)]
        /\ UNCHANGED <<down, cmd, pos, acc, tm, fifo, secret, before>>
    BY <1>3 DEF ReplySecond, WriteToParent, Goto, locals, trade, history, Silent
  <1>5. /\ pc'[n] = "give" /\ Only(n) /\ \A m \in All : up'[m] # <<>> => Head(up'[m]) = 2
    BY <1>1, <1>3, <1>4, Typed DEF Only, Silent
  <1>6. Alone(n)
    BY <1>1, <1>2, <1>4, <1>5, AloneIfQuiet, NoFifo
  <1>7. CountIs(2)'
    BY <1>3, <1>4, <1>5 DEF CountIs, Holds, Silent, Only
  <1>8. PICK m \in Partners : n \in Partners /\ n # m /\ BothFound(m, n)
    <2>1. ~OneFound(n) /\ \A m : ~BothFound(n, m)
      BY <1>2 DEF OneFound, BothFound, First
    <2>2. \A m : ~FirstToTake(n, m) /\ ~FirstToTake(m, n) /\ ~FirstToGive(n, m) /\ ~FirstToGive(m, n)
      BY <1>2 DEF FirstToTake, FirstToGive, Reads
    <2>3. ~Settled(n)
      BY <1>2 DEF Settled
    <2> QED
      BY <1>2, <2>1, <2>2, <2>3, Role
  <1>9. Kept' /\ First(m)' /\ Partners' = Partners /\ cmd'[Manager] = cmd[Manager]
    BY <1>1, <1>4, <1>6, <1>8, PairKept DEF BothFound
  <1>10. SameAsManager(cmd[n])' /\ Second(n)'
    BY <1>4, <1>8 DEF BothFound, SameAsManager, Second, Partner
  <1>11. BothFound(m, n)'
    BY <1>5, <1>7, <1>9, <1>10 DEF BothFound
  <1> QED
    BY <1>8, <1>9, <1>11 DEF Stages

LEMMA BarterWatch ==
  ASSUME Bartering, NEW n \in All, Watch(n)
  PROVE  Stages'
  <1>1. ServiceInv /\ TradeInv
    BY DEF Bartering
  <1>2. pc[n] = "watch" /\ pc[n] \in Trading /\ ~Trailing(n) /\ fifo[n] = <<>>
    BY <1>1, NoFifo DEF Watch, Trading, Trailing
  <1>3. pc' = [pc EXCEPT ![n] = "take"] /\ UNCHANGED <<down, up, cmd, pos, acc, tm, fifo, secret, before>>
    BY DEF Watch, Goto, pipes, locals, trade, history
  <1>4. pc'[n] = "take" /\ Only(n) /\ Alone(n)
    <2>1. pc'[n] = "take" /\ Only(n)
      BY <1>1, <1>3, Typed DEF Only
    <2> QED
      BY <1>1, <1>2, <1>3, <2>1, AloneIfQuiet
  <1>5. \A k \in {0, 1, 2} : CountIs(k) => CountIs(k)'
    BY <1>3, <1>4, CountKept
  <1>6. n \in Partners /\ (OneFound(n) \/ \E m \in Partners : n # m /\ BothFound(n, m))
    <2>1. \A m : ~BothFound(m, n)
      BY <1>2 DEF BothFound
    <2>2. \A m : ~FirstToTake(n, m) /\ ~FirstToTake(m, n) /\ ~FirstToGive(n, m) /\ ~FirstToGive(m, n)
      BY <1>2 DEF FirstToTake, FirstToGive, Reads
    <2>3. ~Settled(n)
      BY <1>2 DEF Settled
    <2> QED
      BY <1>2, <2>1, <2>2, <2>3, Role
  <1>7. ASSUME NEW m \in Partners, n # m
        PROVE  /\ (Away(m) => Away(m)') /\ Steady(m)
               /\ (SameAsManager(cmd[m]) => SameAsManager(cmd[m])') /\ (Second(m) => Second(m)')
    BY <1>1, <1>4, <1>6, <1>7, PairKept
  <1>8. Partners' = Partners /\ (Kept => Kept')
    BY <1>1, <1>4, SecretsKept
  <1>9. First(n)'
    <2>1. First(n)
      BY <1>6 DEF OneFound, BothFound
    <2> QED
      BY <1>2, <1>3, <1>4, <2>1 DEF First, SameAsManager, Second, Partner
  <1>10. OneFound(n) => OneFound(n)'
    BY <1>4, <1>5, <1>7, <1>8, <1>9 DEF OneFound
  <1>11. \A m \in Partners : n # m /\ BothFound(n, m) => BothFound(n, m)'
    BY <1>4, <1>5, <1>7, <1>8, <1>9 DEF BothFound, Steady
  <1> QED
    BY <1>6, <1>8, <1>10, <1>11 DEF Stages

(* The second partner writes its secret first, the first one second: it     *)
(* then has what it read, and the other finds in its FIFO what it had.      *)
LEMMA DoesGive ==
  ASSUME ServiceInv, TradeInv, NEW n \in All, NEW m \in All, m = Other(n), m # n, Give(n)
  PROVE  /\ pc[n] = "give" /\ pc[m] = "take" /\ fifo[m] = <<>> /\ fifo'[m] = <<secret[n]>>
         /\ \A x \in All : x # m => fifo'[x] = fifo[x]
         /\ \A x \in All : x # n => pc'[x] = pc[x] /\ secret'[x] = secret[x] /\ tm'[x] = tm[x]
         /\ IF Second(n) THEN pc'[n] = "take" /\ secret'[n] = secret[n]
            ELSE pc'[n] \in {"wait", "report", "unfile"} /\ secret'[n] = tm[n]
         /\ UNCHANGED <<down, up, cmd, acc, before>>
  <1>1. /\ pc[n] = "give" /\ pc[m] = "take" /\ fifo[m] = <<>> /\ fifo' = [fifo EXCEPT ![m] = <<secret[n]>>]
        /\ UNCHANGED <<down, up, cmd, acc, before>>
    BY DEF Give, pipes, locals, history
  <1>2. fifo'[m] = <<secret[n]>> /\ \A x \in All : x # m => fifo'[x] = fifo[x]
    BY <1>1 DEF ServiceInv, TypeOK
  <1>3. DOMAIN pc = All /\ DOMAIN secret = All /\ DOMAIN tm = All
    BY DEF ServiceInv, TypeOK
  <1>4. CASE Second(n)
    <2>1. pc' = [pc EXCEPT ![n] = "take"] /\ secret' = secret /\ tm' = tm
      BY <1>4 DEF Give, Goto
    <2> QED
      BY <1>1, <1>2, <1>3, <1>4, <2>1
  <1>5. CASE ~Second(n)
    <2>1. PICK l \in {"wait", "report", "unfile"} :
            pc' = [pc EXCEPT ![n] = l] /\ secret' = [secret EXCEPT ![n] = tm[n]] /\ tm' = [tm EXCEPT ![n] = n]
      BY <1>5 DEF Give, Goto
    <2> QED
      BY <1>1, <1>2, <1>3, <1>5, <2>1
  <1> QED
    BY <1>4, <1>5

LEMMA BarterGive ==
  ASSUME Bartering, NEW n \in All, Give(n)
  PROVE  Stages'
  <1>1. ServiceInv /\ TradeInv
    BY DEF Bartering
  <1>2. pc[n] = "give" /\ pc[n] \in Trading /\ ~Trailing(n) /\ fifo[n] = <<>>
    BY <1>1, NoFifo DEF Give, Trading, Trailing
  <1>3. PICK m \in Partners : /\ n \in Partners /\ n # m /\ Other(n) = m
                              /\ BothFound(m, n) \/ FirstToGive(n, m)
    <2>1. ~OneFound(n) /\ \A m : ~BothFound(n, m)
      BY <1>2 DEF OneFound, BothFound, First
    <2>2. \A m : ~FirstToTake(n, m) /\ ~FirstToTake(m, n) /\ ~FirstToGive(m, n)
      BY <1>2 DEF FirstToTake, FirstToGive, Reads
    <2>3. ~Settled(n)
      BY <1>2 DEF Settled
    <2> QED
      BY <1>2, <2>1, <2>2, <2>3, Role
  <1>4. m \in All
    BY <1>1, PartnersTyped
  <1>5. /\ pc[m] = "take" /\ fifo[m] = <<>> /\ fifo'[m] = <<secret[n]>>
        /\ \A x \in All : x # m => fifo'[x] = fifo[x]
        /\ \A x \in All : x # n => pc'[x] = pc[x] /\ secret'[x] = secret[x] /\ tm'[x] = tm[x]
        /\ IF Second(n) THEN pc'[n] = "take" /\ secret'[n] = secret[n]
           ELSE pc'[n] \in {"wait", "report", "unfile"} /\ secret'[n] = tm[n]
        /\ UNCHANGED <<down, up, cmd, acc, before>>
    BY <1>1, <1>3, <1>4, DoesGive
  <1>6. CountIs(2) => CountIs(2)'
    BY <1>5 DEF CountIs
  <1>7. Partners' = Partners /\ Partners = {n, m}
    BY <1>3, <1>5, Pair DEF Partners
  <1>8. \A x \in All : /\ SameAsManager(cmd[x])' <=> SameAsManager(cmd[x])
                       /\ Second(x)' <=> Second(x)
    BY <1>5 DEF SameAsManager, Second, Partner
  <1>9. SecretOf(n) = secret[n] /\ SecretOf(m) = secret[m] /\ SecretOf(n)' = secret'[n]
    BY <1>2, <1>3, <1>5 DEF SecretOf
  <1>10. CASE BothFound(m, n)
    <2>1. CountIs(2) /\ Second(n) /\ ~Second(m) /\ SecretOf(n) = before[n] /\ SecretOf(m) = before[m]
          /\ SameAsManager(cmd[n]) /\ SameAsManager(cmd[m])
      BY <1>3, <1>10 DEF BothFound, Kept, First
    <2>2. SecretOf(m)' = secret'[m] /\ secret'[n] = secret[n] /\ pc'[n] = "take" /\ secret'[m] = secret[m]
      <3>1. ~Second(m)'
        BY <1>4, <1>8, <2>1
      <3> QED
        BY <1>3, <1>4, <1>5, <2>1, <3>1 DEF SecretOf
    <2>3. Kept'
      BY <1>5, <1>7, <1>9, <2>1, <2>2 DEF Kept
    <2>4. Reads(n)'
      BY <1>2, <1>3, <1>5, <1>8, <2>1, <2>2 DEF Reads
    <2>5. fifo'[m] = <<before'[n]>> /\ pc'[m] = "take"
      BY <1>3, <1>4, <1>5, <1>9, <2>1
    <2>6. FirstToTake(m, n)'
      BY <1>4, <1>6, <1>8, <2>1, <2>3, <2>4, <2>5 DEF FirstToTake
    <2> QED
      BY <1>3, <1>7, <2>6 DEF Stages
  <1>11. CASE FirstToGive(n, m)
    <2>0. cmd[Manager].a \in {n, m} /\ cmd[Manager].b \in {n, m} /\ cmd[Manager].a # cmd[Manager].b
      BY <1>3, <1>7 DEF Partners
    <2>1. CountIs(2) /\ ~Second(n) /\ Second(m) /\ SecretOf(n) = before[n] /\ tm[n] = before[m]
      BY <1>3, <1>11 DEF FirstToGive, Kept, Reads
    <2>2. SecretOf(n)' = before'[m]
      BY <1>5, <1>9, <2>1
    <2>3. Second(m)' /\ fifo'[m] # <<>> /\ fifo'[m][1] = secret[n]
      BY <1>4, <1>5, <1>8, <2>1
    <2>4. SecretOf(m)' = before'[n]
      BY <1>5, <1>9, <2>1, <2>3 DEF SecretOf
    <2>5. Settled(n)' /\ Settled(m)'
      BY <1>3, <1>4, <1>5, <2>1, <2>3 DEF Settled, Alive
    <2>6. Swapped'
      BY <1>5, <2>2, <2>4, <2>0 DEF Swapped
    <2>7. Traded'
      BY <1>5, <1>6, <1>7, <2>0, <2>1, <2>5, <2>6 DEF Traded
    <2> QED
      BY <2>7 DEF Stages
  <1> QED
    BY <1>3, <1>10, <1>11

LEMMA DoesTake ==
  ASSUME ServiceInv, TradeInv, NEW n \in All, Take(n)
  PROVE  /\ pc[n] = "take" /\ pc[n] \in Trading /\ fifo[n] # <<>> /\ fifo'[n] = <<>> /\ Only(n)
         /\ \A x \in All : x # n => fifo'[x] = fifo[x] /\ secret'[x] = secret[x] /\ tm'[x] = tm[x]
         /\ IF Second(n) THEN pc'[n] = "unfile" /\ secret'[n] = fifo[n][1]
            ELSE pc'[n] = "give" /\ secret'[n] = secret[n] /\ tm'[n] = fifo[n][1]
         /\ UNCHANGED <<down, up, cmd, acc, before>>
  <1>1. /\ pc[n] = "take" /\ pc[n] \in Trading /\ fifo[n] # <<>> /\ fifo' = [fifo EXCEPT ![n] = <<>>]
        /\ UNCHANGED <<down, up, cmd, pos, acc, before>>
    BY DEF Take, Trading, pipes, locals, history
  <1>2. DOMAIN pc = All /\ DOMAIN secret = All /\ DOMAIN tm = All /\ DOMAIN fifo = All
    BY DEF ServiceInv, TypeOK
  <1>3. CASE Second(n)
    <2>1. pc' = [pc EXCEPT ![n] = "unfile"] /\ secret' = [secret EXCEPT ![n] = fifo[n][1]] /\ tm' = tm
      BY <1>3 DEF Take, Goto
    <2> QED
      BY <1>1, <1>2, <1>3, <2>1 DEF Only
  <1>4. CASE ~Second(n)
    <2>1. pc' = [pc EXCEPT ![n] = "give"] /\ tm' = [tm EXCEPT ![n] = fifo[n][1]] /\ secret' = secret
      BY <1>4 DEF Take, Goto
    <2> QED
      BY <1>1, <1>2, <1>4, <2>1 DEF Only
  <1> QED
    BY <1>3, <1>4

(* The reader of a FIFO has the secret that was in it.                      *)
LEMMA TakesOwn ==
  ASSUME ServiceInv, TradeInv, NEW n \in All, Take(n)
  PROVE  (\A x \in All : SecretOf(x)' = SecretOf(x)) /\ Alone(n)
  <1>1. \A x \in All : Second(x)' <=> Second(x)
    BY DoesTake DEF Second, Partner
  <1>2. SecretOf(n)' = SecretOf(n)
    BY <1>1, DoesTake DEF SecretOf
  <1>3. ASSUME NEW x \in All, x # n PROVE Steady(x) /\ SecretOf(x)' = SecretOf(x)
    BY <1>1, <1>3, DoesTake DEF SecretOf, Steady, Only
  <1> QED
    BY <1>2, <1>3, DoesTake DEF Alone

LEMMA ManagerNeverTrails ==
  ASSUME Bartering, pc[Manager] = "take"
  PROVE  ~Trailing(Manager)
  <1>1. ServiceInv /\ Manager \in All /\ SameAsManager(cmd[Manager])
    BY SubjectsTyped DEF Bartering, SameAsManager
  <1>2. Manager \in Partners
    BY <1>1, TradeTyped, PartnerOf DEF Placed
  <1>3. ~NoneFound /\ ~Traded
    BY <1>2 DEF NoneFound, Traded, Settled, Second
  <1>4. OneFound(Manager) => ~Trailing(Manager)
    BY DEF OneFound, First, Trailing
  <1>5. OneFound(Manager) \/ \E m \in Partners : m # Manager
    BY <1>3 DEF Bartering, Stages
  <1> QED
    BY <1>1, <1>2, <1>4, <1>5, Pair DEF Trailing

LEMMA BarterTake ==
  ASSUME Bartering, NEW n \in All, Take(n)
  PROVE  Stages'
  <1>1. ServiceInv /\ TradeInv /\ Stages
    BY DEF Bartering
  <1>2. /\ pc[n] = "take" /\ pc[n] \in Trading /\ fifo[n] # <<>> /\ fifo'[n] = <<>> /\ Only(n)
        /\ IF Second(n) THEN pc'[n] = "unfile" ELSE pc'[n] = "give" /\ tm'[n] = fifo[n][1]
        /\ UNCHANGED <<down, up, cmd, acc, before>>
    BY <1>1, DoesTake
  <1>3. Alone(n)
    BY <1>1, TakesOwn
  <1>4. \A k \in {0, 1, 2} : CountIs(k) => CountIs(k)'
    BY <1>2, CountKept
  <1>5. CASE Second(n)
    <2>1. n # Manager /\ pc'[Manager] = pc[Manager] /\ pc'[n] = "unfile"
      BY <1>1, <1>2, <1>5, SubjectsTyped DEF Second, Only
    <2>2. CASE n \notin Partners
      BY <1>1, <1>3, <1>4, <2>1, <2>2, StageKept DEF NoneFound
    <2>3. CASE n \in Partners
      <3>1. Trailing(n) => Away(n)' /\ Alive(n)'
        BY <1>2, <2>1 DEF Trailing, Other, Away, Alive
      <3>2. Settled(n)'
        BY <2>1 DEF Settled, Alive
      <3>3. ASSUME ~Trailing(n) PROVE Traded
        <4>1. ~OneFound(n) /\ \A m : ~BothFound(n, m) /\ ~BothFound(m, n)
          BY <1>2 DEF OneFound, BothFound, First
        <4>2. \A m : ~FirstToTake(n, m) /\ ~FirstToTake(m, n) /\ ~FirstToGive(m, n) /\ ~FirstToGive(n, m)
          BY <1>2, <1>5 DEF FirstToTake, FirstToGive, Reads
        <4> QED
          BY <1>2, <3>3, <4>1, <4>2, Role
      <3> QED
        BY <1>3, <1>4, <2>1, <2>3, <3>1, <3>2, <3>3, PartnerAside
    <2> QED
      BY <2>2, <2>3
  <1>6. CASE ~Second(n)
    <2>1. ~Trailing(n)
      <3>1. Trailing(n) => n = Manager \/ Second(n)
        BY <1>1, NotAway
      <3>2. n = Manager => ~Trailing(n)
        BY <1>2, ManagerNeverTrails
      <3> QED
        BY <1>6, <3>1, <3>2
    <2>2. PICK m \in Partners : n \in Partners /\ n # m /\ FirstToTake(n, m)
      <3>1. ~OneFound(n) /\ \A m : ~BothFound(n, m) /\ ~BothFound(m, n)
        BY <1>2 DEF OneFound, BothFound, First
      <3>2. \A m : ~FirstToTake(m, n) /\ ~FirstToGive(m, n) /\ ~FirstToGive(n, m)
        BY <1>2, <1>6 DEF FirstToTake, FirstToGive, Reads
      <3>3. ~Settled(n)
        BY <1>2, <1>6 DEF Settled
      <3> QED
        BY <1>2, <2>1, <3>1, <3>2, <3>3, Role
    <2>3. Kept' /\ Reads(m)' /\ Partners' = Partners
      BY <1>1, <1>3, <2>2, PairKept DEF FirstToTake
    <2>4. SameAsManager(cmd[n])' /\ ~Second(n)'
      BY <1>2, <1>6, <2>2 DEF FirstToTake, SameAsManager, Second, Partner
    <2>5. pc'[n] = "give" /\ tm'[n] = before'[m]
      <3>1. fifo[n][1] = before[m]
        BY <2>2 DEF FirstToTake
      <3> QED
        BY <1>2, <1>6, <3>1
    <2>6. CountIs(2)'
      BY <1>4, <2>2 DEF FirstToTake
    <2>7. FirstToGive(n, m)'
      BY <2>3, <2>4, <2>5, <2>6 DEF FirstToGive
    <2> QED
      BY <2>2, <2>3, <2>7 DEF Stages
  <1> QED
    BY <1>5, <1>6

LEMMA BarterReport ==
  ASSUME Bartering, NEW n \in All, Report(n)
  PROVE  Stages'
  <1>1. ServiceInv /\ TradeInv
    BY DEF Bartering
  <1>2. pc[n] = "report" /\ pc[n] \in Trading /\ Holds(n) /\ ~Trailing(n) /\ n # Manager
    BY <1>1, TradeTyped DEF Report, Trading, Holds, Trailing, Placed
  <1>3. Silent /\ \A m \in All : Holds(m) => m = n
    BY <1>1, <1>2, HolderAlone
  <1>4. /\ pc' = [pc EXCEPT ![n] = "unfile"] /\ up' = [up EXCEPT ![n] = Append(<<>>, 2)]
        /\ UNCHANGED <<down, cmd, pos, acc, tm, fifo, secret, before>>
    BY <1>3 DEF Report, WriteToParent, Goto, locals, trade, history, Silent
  <1>5. /\ pc'[n] = "unfile" /\ Only(n) /\ \A m \in All : up'[m] # <<>> => Head(up'[m]) = 2
    BY <1>1, <1>3, <1>4, Typed DEF Only, Silent
  <1>6. Alone(n) /\ pc'[Manager] = pc[Manager]
    BY <1>1, <1>2, <1>4, <1>5, AloneIfQuiet, NoFifo, SubjectsTyped DEF Only
  <1>7. CountIs(2)'
    BY <1>3, <1>4, <1>5 DEF CountIs, Holds, Silent, Only
  <1>8. n \in Partners /\ Traded
    <2>1. ~OneFound(n) /\ \A m : ~BothFound(n, m) /\ ~BothFound(m, n)
      BY <1>2 DEF OneFound, BothFound, First
    <2>2. \A m : ~FirstToTake(n, m) /\ ~FirstToTake(m, n) /\ ~FirstToGive(n, m) /\ ~FirstToGive(m, n)
      BY <1>2 DEF FirstToTake, FirstToGive, Reads
    <2> QED
      BY <1>2, <2>1, <2>2, Role
  <1>9. ASSUME NEW m \in Partners PROVE Settled(m)'
    <2>1. CASE m = n
      BY <1>5, <2>1 DEF Settled, Alive
    <2>2. CASE m # n
      BY <1>1, <1>6, <1>8, <2>2, PairKept DEF Traded
    <2> QED
      BY <2>1, <2>2
  <1>10. Traded'
    BY <1>1, <1>4, <1>6, <1>7, <1>8, <1>9, SecretsKept DEF Traded
  <1> QED
    BY <1>10 DEF Stages

LEMMA DoesUnfile ==
  ASSUME ServiceInv, TradeInv, NEW n \in All, Unfile(n)
  PROVE  /\ pc[n] = "unfile" /\ pc[n] \in Trading /\ n # Manager /\ n \in Names /\ pc'[n] = "idle" /\ Only(n)
         /\ UNCHANGED <<down, up, tm, fifo, secret, before>> /\ Alone(n)
  <1>1. pc[n] = "unfile" /\ pc[n] \in Trading /\ n # Manager /\ n \in Names
    BY TradeTyped DEF Unfile, Placed, Trading
  <1>2. /\ pc' = [pc EXCEPT ![n] = "idle"] /\ cmd' = [cmd EXCEPT ![n] = NoCommand]
        /\ pos' = [pos EXCEPT ![n] = 0] /\ acc' = [acc EXCEPT ![n] = 0]
        /\ UNCHANGED <<down, up, tm, fifo, secret, before>>
    BY DEF Unfile, Rest, Goto, Serve, pipes, history
  <1>3. pc'[n] = "idle" /\ Only(n)
    BY <1>2, Typed DEF Only
  <1>4. cmd'[Manager] = cmd[Manager]
    BY <1>1, <1>3, SubjectsTyped DEF Only
  <1>5. Alone(n)
    BY <1>1, <1>2, <1>3, <1>4, AloneIfQuiet, NoFifo
  <1> QED
    BY <1>1, <1>2, <1>3, <1>5

LEMMA BarterUnfile ==
  ASSUME Bartering, NEW n \in All, Unfile(n)
  PROVE  Stages'
  <1>1. ServiceInv /\ TradeInv /\ Stages
    BY DEF Bartering
  <1>2. /\ pc[n] = "unfile" /\ pc[n] \in Trading /\ n # Manager /\ pc'[n] = "idle" /\ Only(n)
        /\ UNCHANGED <<down, up>> /\ Alone(n)
    BY <1>1, DoesUnfile
  <1>3. \A k \in {0, 1, 2} : CountIs(k) => CountIs(k)'
    BY <1>2, CountKept
  <1>4. pc'[Manager] = pc[Manager]
    BY <1>1, <1>2, SubjectsTyped DEF Only
  <1>5. CASE n \notin Partners
    BY <1>1, <1>2, <1>3, <1>4, <1>5, StageKept DEF NoneFound
  <1>6. CASE n \in Partners
    <2>1. Away(n)' /\ Alive(n)' /\ Settled(n)'
      BY <1>2 DEF Away, Alive, Settled, Trading
    <2>2. ASSUME ~Trailing(n) PROVE Traded
      <3>1. ~OneFound(n) /\ \A m : ~BothFound(n, m) /\ ~BothFound(m, n)
        BY <1>2 DEF OneFound, BothFound, First
      <3>2. \A m : ~FirstToTake(n, m) /\ ~FirstToTake(m, n) /\ ~FirstToGive(n, m) /\ ~FirstToGive(m, n)
        BY <1>2 DEF FirstToTake, FirstToGive, Reads
      <3> QED
        BY <1>2, <2>2, <3>1, <3>2, Role
    <2> QED
      BY <1>2, <1>3, <1>4, <1>6, <2>1, <2>2, PartnerAside
  <1> QED
    BY <1>5, <1>6

(* While the first partner still trades it has its file, and the Manager    *)
(* waits for that unless it is a partner itself, and then the first.        *)
LEMMA BarterEnds ==
  ASSUME Bartering, EndExchange
  PROVE  ExchangeAnswer'
  <1>1. ServiceInv /\ TradeInv /\ cmd[Manager].op = "exchange" /\ Manager \in All
    BY SubjectsTyped DEF Bartering
  <1>2. /\ pc[Manager] = "wait" /\ Only(Manager) /\ answer'.told = "exchanged"
        /\ Partner(Manager) \/ files \cap Partners = {}
        /\ UNCHANGED <<cmd, fifo, secret, before>>
    BY <1>1, DoesEndExchange DEF Partners
  <1>3. CASE NoneFound
    <2>1. \A n \in Partners : n \in All /\ n # Manager /\ ~Alive(n)
      BY <1>1, <1>2, <1>3, PartnersTyped DEF NoneFound, Away
    <2>2. \A n \in Partners : ~Alive(n)'
      BY <1>2, <2>1 DEF Alive, Only
    <2> QED
      BY <1>2, <2>2 DEF ExchangeAnswer, Partners
  <1>4. ASSUME NEW f \in Partners, NEW s \in Partners,
               OneFound(f) \/ (f # s /\ (BothFound(f, s) \/ FirstToTake(f, s) \/ FirstToGive(f, s)))
        PROVE  FALSE
    <2>1. OneFound(f) \/ s # Manager
      BY <1>4 DEF BothFound, FirstToTake, FirstToGive, Reads, Second
    <2>2. pc[f] \in {"each", "await", "watch", "take", "give"} /\ SameAsManager(cmd[f])
      <3>1. First(f) => pc[f] \in {"each", "await", "watch", "take"} /\ SameAsManager(cmd[f])
        BY DEF First
      <3>2. OneFound(f) \/ BothFound(f, s) => First(f)
        BY DEF OneFound, BothFound
      <3> QED
        BY <1>4, <3>1, <3>2 DEF FirstToTake, FirstToGive
    <2>3. f # Manager /\ f \in Names
      BY <1>1, <1>2, <2>2, PartnersTyped DEF All
    <2>4. f \in files
      <3>1. cmd[f].op = "exchange" /\ Partner(f)
        BY <1>1, <2>2, PartnersTyped, PartnerOf DEF SameAsManager
      <3>2. pc[f] \in Trading \/ Looping(f)
        BY <2>2, <3>1 DEF Looping, Trading
      <3> QED
        BY <1>1, <2>3, <3>1, <3>2 DEF TradeInv, Filed
    <2>5. Manager \in Partners
      BY <1>2, <2>4 DEF Partners, Partner
    <2>6. OneFound(f) => Away(Manager)
      BY <2>3, <2>5 DEF OneFound
    <2> QED
      BY <1>4, <2>1, <2>3, <2>5, <2>6, Pair DEF Away
  <1>5. CASE Traded
    <2>1. \A m \in All : SecretOf(m)' = SecretOf(m)
      BY <1>2 DEF SecretOf, Second, Partner
    <2>2. Swapped'
      BY <1>1, <1>2, <1>5, <2>1, SubjectsTyped DEF Traded, Swapped
    <2>3. \A n \in Partners : Alive(n)'
      <3>1. Alive(Manager)'
        BY <1>1, DoesEndExchange DEF Alive
      <3> QED
        BY <1>2, <1>5, <3>1, PartnersTyped, <1>1 DEF Traded, Settled, Alive, Only
    <2> QED
      BY <1>2, <1>5, <2>2, <2>3 DEF ExchangeAnswer, Traded, Partners
  <1> QED
    BY <1>3, <1>4, <1>5, StageOf

(* The search begins: the Manager, when it is a partner, has found itself.  *)
LEMMA BarterIssue ==
  ASSUME ServiceInv, TradeInv, Issue
  PROVE  ExchangeInv'
  <1>0. PICK op \in Ops, a \in All, b \in All, g \in {0, 1} : Issued(op, a, b, g)
    BY DoesIssue
  <1>1. /\ g = IF Manager \in {a, b} /\ op # "spawn" THEN 1 ELSE 0
        /\ pc[Manager] = "idle" /\ Manager \in All /\ Silent /\ Only(Manager)
        /\ \A m \in Names : pc[m] \notin Working \cup {"boot", "zombie"}
        /\ MayIssue(Command(op, a, b, g))
        /\ cmd'[Manager] = Command(op, a, b, g)
        /\ acc'[Manager] = IF op = "exchange" THEN g ELSE 0
        /\ pc'[Manager] = IF op = "spawn" /\ a = Manager THEN "fork" ELSE "each"
        /\ before' = IF op = "exchange" THEN [n \in All |-> SecretOf(n)] ELSE [n \in All |-> n]
        /\ UNCHANGED <<secret, down, up, tm, fifo>>
    BY <1>0 DEF Issued
  <1> DEFINE c == Command(op, a, b, g)
  <1>2. c.op = op /\ c.a = a /\ c.b = b /\ c.g = g
    BY DEF Command
  <1>3. CASE op # "exchange"
    BY <1>1, <1>2, <1>3 DEF ExchangeInv, Exchanging, ExchangeAnswer
  <1>4. CASE op = "exchange"
    <2>2. /\ cmd'[Manager].op = "exchange" /\ cmd'[Manager].a = a /\ cmd'[Manager].b = b
          /\ Partners' = {a, b} /\ pc'[Manager] = "each" /\ acc'[Manager] = g
      BY <1>1, <1>2, <1>4 DEF Partners
    <2>3. \A n \in All : SecretOf(n)' = SecretOf(n)
      BY <1>1 DEF SecretOf, Second, Partner, Only
    <2>4. Kept'
      BY <1>1, <1>4, <2>2, <2>3 DEF Kept
    <2>5. CountIs(g)'
      <3>1. ASSUME NEW n \in All, pc'[n] = "each" PROVE n = Manager
        BY <1>1, <3>1 DEF Only, Working, All
      <3> QED
        BY <1>1, <2>2, <3>1 DEF CountIs, Silent
    <2>6. ASSUME NEW n \in Names PROVE Away(n)'
      <3>1. n # Manager /\ n \in All
        BY NamesAssumption DEF All
      <3>2. pc'[n] = pc[n] /\ cmd'[n] = cmd[n] /\ fifo'[n] = fifo[n] /\ pc[n] \notin Working
        BY <1>1, <3>1 DEF Only
      <3>3. pc[n] \in Trading => Trailing(n)
        BY <1>1 DEF TradeInv, Current, Busy
      <3> QED
        BY <3>1, <3>2, <3>3 DEF Away, Trailing, Other, Working
    <2>7. Stages'
      <3>1. CASE Manager \in {a, b}
        <4>1. First(Manager)'
          BY <2>2 DEF First, SameAsManager, Second
        <4>2. g = 1 /\ a \in All /\ b \in All
          BY <1>1, <1>4, <3>1
        <4>3. \A s \in Partners' \ {Manager} : Away(s)'
          BY <2>2, <2>6, <4>2 DEF All
        <4>4. OneFound(Manager)'
          BY <2>2, <2>4, <2>5, <4>1, <4>2, <4>3 DEF OneFound
        <4> QED
          BY <2>2, <3>1, <4>4 DEF Stages
      <3>2. CASE Manager \notin {a, b}
        <4>1. g = 0 /\ a \in Names /\ b \in Names
          BY <1>1, <3>2 DEF All
        <4>2. NoneFound'
          BY <2>2, <2>4, <2>5, <2>6, <4>1 DEF NoneFound
        <4> QED
          BY <4>2 DEF Stages
      <3> QED
        BY <3>1, <3>2
    <2> QED
      BY <2>2, <2>7 DEF ExchangeInv, Exchanging, ExchangeAnswer, Stages
  <1> QED
    BY <1>3, <1>4

LEMMA BarterIdle ==
  ASSUME ServiceInv, TradeInv, ExchangeInv, ~Busy, NEW n \in All, Step(n)
  PROVE  ExchangeInv'
  <1>1. n \in Names /\ Trailing(n) /\ Aside(n) /\ n # Manager /\ Manager \in All
    BY IdleSteps, NamesAssumption DEF All
  <1>2. /\ pc'[Manager] = pc[Manager] /\ cmd'[Manager] = cmd[Manager] /\ UNCHANGED <<answer, before>>
    BY <1>1 DEF Aside, Only
  <1>3. Take(n) \/ Unfile(n)
    <2>1. pc[n] \in {"take", "unfile"}
      BY <1>1 DEF Trailing
    <2> QED
      BY <1>1, <2>1 DEF Step, Receive, Fork, Boot, Hear, Forward, Collect, Reap, Reply, ReplyPartner, ReplyDying,
                        Exit, ReplySecond, Watch, Give, Report
  <1>4. Alone(n)
    BY <1>3, TakesOwn, DoesUnfile
  <1>5. Swapped => Swapped'
    BY <1>4, SecretsKept
  <1>6. \A m \in All : Alive(m)' <=> Alive(m)
    <2>1. Alive(n) /\ Alive(n)'
      BY <1>3, DoesTake, DoesUnfile DEF Alive
    <2> QED
      BY <1>1, <2>1 DEF Aside, Only, Alive
  <1> QED
    BY <1>2, <1>5, <1>6, SubjectsTyped DEF ExchangeInv, Exchanging, ExchangeAnswer, Busy

LEMMA BarterNext ==
  ASSUME Bartering, NEW n \in All, Step(n), ~(n = Manager /\ EndExchange)
  PROVE  Stages' /\ pc'[Manager] # "idle"
  <1>1. ServiceInv /\ TradeInv /\ cmd[Manager].op = "exchange" /\ Manager \in All /\ pc[Manager] # "idle"
    BY SubjectsTyped DEF Bartering, Busy
  <1>2. ~(Fork(n) \/ Hear(n) \/ Reap(n) \/ ReplyDying(n) \/ Exit(n))
    BY <1>1, DoesFork, DoesHear, DoesReap, DoesReplyDying, DoesExit DEF SameAsManager
  <1>3. ~Boot(n)
    <2>1. ASSUME NEW p \in All, pc[p] = "hear" PROVE cmd[p].op = "spawn" /\ SameAsManager(cmd[p])
      BY <1>1, <2>1, TradeTyped, ServesManager DEF Placed, Working
    <2> QED
      BY <1>1, <2>1, DoesBoot DEF SameAsManager
  <1>4. CASE Receive(n) \/ Forward(n) \/ Collect(n)
    <2>1. Stages'
      BY <1>4, BarterReceive, BarterForward, BarterCollect
    <2>2. pc'[Manager] # "idle"
      <3>1. CASE Receive(n)
        BY <1>1, <3>1, DoesReceive DEF Only
      <3>2. CASE Forward(n) \/ Collect(n)
        BY <1>1, <3>2, DoesForward, DoesCollect DEF Only
      <3> QED
        BY <1>4, <3>1, <3>2
    <2> QED
      BY <2>1, <2>2
  <1>5. CASE Reply(n) \/ ReplyPartner(n)
    <2>1. Stages'
      BY <1>5, BarterReply, BarterReplyPartner
    <2>2. pc'[Manager] # "idle"
      BY <1>1, <1>5, DoesReply, DoesReplyPartner DEF Only
    <2> QED
      BY <2>1, <2>2
  <1>6. CASE ReplySecond(n) \/ Watch(n) \/ Give(n) \/ Take(n) \/ Report(n) \/ Unfile(n)
    <2>1. Stages'
      BY <1>6, BarterReplySecond, BarterWatch, BarterGive, BarterTake, BarterReport, BarterUnfile
    <2>2. pc'[Manager] # "idle"
      BY <1>1, <1>6, DoesAside DEF Aside, Only
    <2> QED
      BY <2>1, <2>2
  <1>7. CASE n = Manager /\ Conclude
    BY <1>7, BarterConclude
  <1> QED
    BY <1>2, <1>3, <1>4, <1>5, <1>6, <1>7 DEF Step

LEMMA ExchangeNext ==
  ASSUME ServiceInv, TradeInv, SearchInv, ExchangeInv, Busy, NEW n \in All, Step(n)
  PROVE  ExchangeInv'
  <1>1. cmd'[Manager] = cmd[Manager]
    BY CommandStays
  <1>2. CASE cmd[Manager].op # "exchange"
    BY <1>1, <1>2 DEF ExchangeInv, Exchanging, ExchangeAnswer
  <1>3. CASE cmd[Manager].op = "exchange"
    <2>1. Bartering
      BY <1>3 DEF Bartering, ExchangeInv, Exchanging, Stages
    <2>2. CASE n = Manager /\ EndExchange
      <3>1. ~Busy'
        BY <2>2, DoesEndExchange DEF Busy
      <3> QED
        BY <2>1, <2>2, <3>1, BarterEnds DEF ExchangeInv, Exchanging
    <2>3. CASE ~(n = Manager /\ EndExchange)
      <3>1. Stages' /\ pc'[Manager] # "idle"
        BY <2>1, <2>3, BarterNext
      <3> QED
        BY <3>1 DEF ExchangeInv, Exchanging, ExchangeAnswer, Stages
    <2> QED
      BY <2>2, <2>3
  <1> QED
    BY <1>2, <1>3

(* "have exchanged their secrets" is true when one of the partners exists:  *)
(* they are two, and each has the secret that the other had when the        *)
(* Manager took the command.  (For two services that do not exist the       *)
(* Manager prints it as well.)                                              *)
THEOREM ExchangeAnswered == Spec => []ExchangeAnswer
  <1>1. Init => ExchangeInv
    BY DEF Init, ExchangeInv, Exchanging, ExchangeAnswer, All, NoCommand, Command
  <1>2. ASSUME ServiceInv, TradeInv, SearchInv, ExchangeInv, [Next]_vars PROVE ExchangeInv'
    <2>1. CASE UNCHANGED vars
      <3>1. UNCHANGED <<secret, pc, cmd, acc, down, up, tm, fifo, before, answer>>
        BY <2>1 DEF vars, pipes, locals, trade, history
      <3>2. (Busy' <=> Busy) /\ Partners' = Partners /\ \A m \in All : SecretOf(m)' = SecretOf(m)
        BY <3>1 DEF Busy, Partners, SecretOf, Second, Partner
      <3>3. ExchangeAnswer => ExchangeAnswer'
        BY <1>2, <3>1, <3>2, SubjectsTyped DEF ExchangeAnswer, Swapped, Alive
      <3>4. Stages /\ cmd[Manager].op = "exchange" /\ Busy => Stages'
        <4> SUFFICES ASSUME Stages PROVE Stages'
          OBVIOUS
        <4>1. Manager \in All /\ Alone(Manager) /\ Steady(Manager)
          BY <1>2, <3>1, <3>2, SubjectsTyped DEF Alone, Steady
        <4>2. \A k \in {0, 1, 2} : CountIs(k) => CountIs(k)'
          BY <3>1 DEF CountIs
        <4> QED
          BY <1>2, <3>1, <4>1, <4>2, StageKept DEF NoneFound
      <3> QED
        BY <1>2, <3>1, <3>2, <3>3, <3>4 DEF ExchangeInv, Exchanging, Stages
    <2> QED
      BY <1>2, <2>1, BarterIssue, BarterIdle, ExchangeNext DEF Next
  <1> QED
    BY <1>1, <1>2, SearchInvariance, PTL DEF Spec, ExchangeInv

(* What the Manager prints is true, for every command.                      *)
THEOREM AnswersTrue == Spec => []AnswerTrue
  BY SpawnAnswered, KillAnswered, ExchangeAnswered, PTL DEF AnswerTrue
=============================================================================
