------------------------- MODULE ServiceTradeProofs -------------------------
(***************************************************************************)
(* The exchange of secrets, for any names, commands and tree: a partner    *)
(* always finds the FIFOs, and when the Manager takes its next command     *)
(* nothing is left of the ones before but a service that has traded with   *)
(* the Manager.  Then the search down the lists, in any command: an answer *)
(* of zero means that nobody it is about is there.                         *)
(***************************************************************************)
EXTENDS ServiceProofs

USE NamesAssumption

Working == {"fork", "hear", "each", "await", "reap", "exit"}
ManagerTrading == cmd[Manager].op = "exchange" /\ Partner(Manager)
Partnered(n) == n \in Names /\ (pc[n] \in Trading \/ (Looping(n) /\ Partner(n)))

(* What one step of n leaves alone: the other processes, but for one that  *)
(* is born or waited for, and what the Manager is doing.                   *)
Frame(n) ==
  /\ \A m \in All \ {n} :
       \/ pc'[m] = pc[m] /\ cmd'[m] = cmd[m] /\ acc'[m] = acc[m]
       \/ m # Manager /\ {pc[m], pc'[m]} \subseteq {"none", "boot", "zombie"}
  /\ fifos' = fifos /\ cmd'[Manager] = cmd[Manager] /\ (Busy' <=> Busy)

(* What the step must see to: the trade of n, its command, and what it     *)
(* writes.                                                                 *)
TradeOf(n) ==
  /\ files' = IF Partnered(n)' THEN files \cup {n} ELSE files \ {n}
  /\ \A m \in All : fifo'[m] # <<>> => pc'[m] = "take"
  /\ \A m \in All \ {n} : fifo[m] # <<>> => fifo'[m] # <<>>
CommandOf(n) ==
  /\ n \in Names /\ pc'[n] \in Working => Busy /\ SameAsManager(cmd'[n])
  /\ n \in Names /\ pc'[n] \in Trading => Trailing(n)' \/ (Busy /\ SameAsManager(cmd'[n]))
  /\ n \in Names /\ (pc'[n] \in Trading \/ Looping(n)') /\ Manager \in {cmd'[n].a, cmd'[n].b} => cmd'[n].g = 1
  /\ ManagerTrading /\ Looping(n)' => acc'[n] >= 1
Writes ==
  /\ \A m \in All : down'[m] # <<>> =>
       \/ down'[m] = down[m]
       \/ Busy /\ SameAsManager(Head(down'[m])) /\ (ManagerTrading => Head(down'[m]).g = 1)
  /\ \A m \in All : up'[m] # <<>> => up'[m] = up[m] \/ (ManagerTrading => Head(up'[m]) >= 1)
ManagerWaits(n) ==
  pc'[Manager] = "wait" /\ Partner(Manager) =>
    /\ pc[Manager] = "wait"
    /\ n \in Names /\ pc'[n] \in Trading => pc'[n] = "unfile" \/ (pc'[n] = "take" /\ fifo'[n] # <<>>)

LEMMA TradeStep ==
  ASSUME TradeInv, NEW n \in All, Frame(n), TradeOf(n), CommandOf(n), Writes,
         ManagerWaits(n) \/ ManagerGave'
  PROVE  TradeInv'
  <1>1. /\ Manager \in All /\ (ManagerTrading' <=> ManagerTrading) /\ (Partner(Manager)' <=> Partner(Manager))
        /\ \A c : SameAsManager(c)' <=> SameAsManager(c)
        /\ \A m \in Names : m \in All /\ m # Manager
    BY DEF Frame, ManagerTrading, Partner, SameAsManager, All
  <1>2. \A m \in Names : m # n =>
          /\ pc'[m] \in Trading => pc[m] \in Trading /\ cmd'[m] = cmd[m] /\ pc'[m] = pc[m]
          /\ Looping(m)' => Looping(m) /\ cmd'[m] = cmd[m] /\ acc'[m] = acc[m]
          /\ pc'[m] \in Working => pc[m] \in Working /\ cmd'[m] = cmd[m]
          /\ Partnered(m)' <=> Partnered(m)
          /\ Trailing(m) => Trailing(m)'
    <2> SUFFICES ASSUME NEW m \in Names, m # n
                 PROVE  /\ pc'[m] \in Trading => pc[m] \in Trading /\ cmd'[m] = cmd[m] /\ pc'[m] = pc[m]
                        /\ Looping(m)' => Looping(m) /\ cmd'[m] = cmd[m] /\ acc'[m] = acc[m]
                        /\ pc'[m] \in Working => pc[m] \in Working /\ cmd'[m] = cmd[m]
                        /\ Partnered(m)' <=> Partnered(m)
                        /\ Trailing(m) => Trailing(m)'
      OBVIOUS
    <2>1. m \in All /\ (fifo[m] # <<>> => fifo'[m] # <<>>)
      BY <1>1 DEF TradeOf
    <2>2. CASE pc'[m] = pc[m] /\ cmd'[m] = cmd[m] /\ acc'[m] = acc[m]
      BY <2>1, <2>2 DEF Looping, Partnered, Partner, Trailing, Other
    <2>3. CASE {pc[m], pc'[m]} \subseteq {"none", "boot", "zombie"}
      BY <2>1, <2>3 DEF Looping, Partnered, Partner, Trailing, Other, Trading, Working
    <2> QED
      BY <2>1, <2>2, <2>3 DEF Frame
  <1>3. Filed'
    <2>1. files = {m \in Names : Partnered(m)}
      BY DEF TradeInv, Filed, Partnered
    <2>2. files' = {m \in Names : Partnered(m)'}
      BY <1>2, <2>1 DEF TradeOf, Partnered
    <2> QED
      BY <2>2 DEF Filed, Partnered
  <1>4. FifoRead' /\ FifosExist'
    BY <1>1 DEF TradeInv, FifoRead, FifosExist, TradeOf, Frame
  <1>5. Current'
    <2> SUFFICES ASSUME NEW m \in Names
                 PROVE  /\ pc'[m] \in Working => Busy /\ SameAsManager(cmd'[m])
                        /\ down'[m] # <<>> => Busy /\ SameAsManager(Head(down'[m]))
                        /\ pc'[m] \in Trading => Trailing(m)' \/ (Busy /\ SameAsManager(cmd'[m]))
      BY <1>1 DEF Current, Working, Frame
    <2>1. down'[m] # <<>> => Busy /\ SameAsManager(Head(down'[m]))
      BY <1>1 DEF Writes, TradeInv, Current
    <2>2. CASE m = n
      BY <2>1, <2>2 DEF CommandOf
    <2>3. CASE m # n
      BY <1>2, <2>1, <2>3 DEF TradeInv, Current, Working
    <2> QED
      BY <2>2, <2>3
  <1>6. SecondToManager'
    <2>1. ASSUME NEW m \in Names, pc'[m] \in Trading \/ Looping(m)', Manager \in {cmd'[m].a, cmd'[m].b}
          PROVE  cmd'[m].g = 1
      BY <1>2, <2>1 DEF TradeInv, SecondToManager, CommandOf
    <2>2. ASSUME ManagerTrading, NEW m \in All, Looping(m)' PROVE acc'[m] >= 1
      <3>1. CASE m = n
        BY <2>2, <3>1 DEF CommandOf
      <3>2. CASE m # n
        <4>1. Looping(m) /\ acc'[m] = acc[m]
          BY <2>2, <3>2 DEF Frame, Looping
        <4> QED
          BY <2>2, <4>1 DEF TradeInv, SecondToManager, ManagerTrading
      <3> QED
        BY <3>1, <3>2
    <2>3. ASSUME ManagerTrading, NEW m \in All
          PROVE  /\ down'[m] # <<>> => Head(down'[m]).g = 1
                 /\ up'[m] # <<>> => Head(up'[m]) >= 1
      BY <2>3 DEF TradeInv, SecondToManager, ManagerTrading, Writes
    <2> QED
      BY <1>1, <2>1, <2>2, <2>3 DEF SecondToManager, ManagerTrading
  <1>7. ManagerGave'
    <2> SUFFICES ASSUME ManagerWaits(n), pc'[Manager] = "wait", Partner(Manager),
                        NEW m \in Names, pc'[m] \in Trading
                 PROVE  pc'[m] = "unfile" \/ (pc'[m] = "take" /\ fifo'[m] # <<>>)
      BY <1>1 DEF ManagerGave
    <2>1. CASE m = n
      BY <2>1 DEF ManagerWaits
    <2>2. CASE m # n
      <3>1. pc[m] = "unfile" \/ (pc[m] = "take" /\ fifo[m] # <<>>)
        BY <1>2, <2>2 DEF TradeInv, ManagerGave, ManagerWaits
      <3>2. pc'[m] = pc[m] /\ m \in All
        BY <1>1, <1>2, <2>2
      <3> QED
        BY <2>2, <3>1, <3>2 DEF TradeOf
    <2> QED
      BY <2>1, <2>2
  <1> QED
    BY <1>3, <1>4, <1>5, <1>6, <1>7 DEF TradeInv
-----------------------------------------------------------------------------
(* The steps of one process, one by one.                                   *)

LEMMA TradeTyped ==
  ASSUME ServiceInv, NEW n \in All
  PROVE  /\ Manager \in All /\ Placed(n) /\ cmd[n] \in Commands /\ acc[n] \in Nat
         /\ Second(n) <=> n # Manager /\ cmd[n].op = "exchange" /\ cmd[n].g = 1 /\ Partner(n)
         /\ Other(n) \in All /\ (n # Manager => n \in Names)
  BY DEF ServiceInv, TypeOK, Commands, Second, Other, All

LEMMA TypedLoop ==
  ASSUME ServiceInv, NEW n \in All
  PROVE  pos[n] \in Nat /\ Len(children[n]) \in Nat
  BY DEF ServiceInv, TypeOK

LEMMA TradeBoot ==
  ASSUME ServiceInv, TradeInv, NEW n \in All, Boot(n)
  PROVE  TradeInv'
  <1>1. /\ pc[n] = "boot" /\ n # Manager /\ n \in Names /\ up[n] = <<>>
        /\ pc' = [pc EXCEPT ![n] = "idle"] /\ up' = [up EXCEPT ![n] = <<1>>]
        /\ UNCHANGED <<down, cmd, acc, fifo, fifos, files>>
    <2>1. pc[n] = "boot" /\ n # Manager /\ n \in Names
      BY TradeTyped DEF Boot, Placed
    <2>2. up[n] = <<>>
      BY <2>1 DEF ServiceInv, OnePlace, Holds
    <2>3. up' = [up EXCEPT ![n] = Append(<<>>, 1)]
      BY <2>2 DEF Boot, WriteToParent
    <2> QED
      BY <2>1, <2>2, <2>3 DEF Boot, Goto, locals, trade
  <1>2. /\ pc'[n] = "idle" /\ up'[n] = <<1>>
        /\ \A m \in All : m # n => pc'[m] = pc[m] /\ up'[m] = up[m]
    BY <1>1 DEF ServiceInv, TypeOK
  <1>3. Frame(n) /\ Writes /\ CommandOf(n) /\ ManagerWaits(n)
    BY <1>1, <1>2 DEF Frame, Busy, Writes, CommandOf, ManagerWaits, Trading, Working, Looping
  <1>4. TradeOf(n)
    BY <1>1, <1>2 DEF TradeOf, TradeInv, FifoRead, Filed, Partnered, Trading, Looping
  <1> QED
    BY <1>3, <1>4, TradeStep

LEMMA TradeFork ==
  ASSUME ServiceInv, TradeInv, NEW n \in All, NEW c, c = cmd[n].b, Fork(n)
  PROVE  TradeInv'
  <1>1. /\ pc[n] = "fork" /\ pc[c] = "none" /\ c \in All /\ c # n /\ c # Manager
    BY DEF Fork, ServiceInv, NameFree, Fresh, Placed, All
  <1>2. /\ pc' = [pc EXCEPT ![n] = "hear", ![c] = "boot"] /\ cmd' = [cmd EXCEPT ![c] = NoCommand]
        /\ down' = [down EXCEPT ![c] = <<>>] /\ up' = [up EXCEPT ![c] = <<>>]
        /\ UNCHANGED <<acc, fifo, fifos, files>>
    BY DEF Fork, locals, trade
  <1>3. /\ pc'[n] = "hear" /\ pc'[c] = "boot" /\ cmd'[n] = cmd[n]
        /\ \A m \in All : m # n /\ m # c => pc'[m] = pc[m]
        /\ \A m \in All : m # c => cmd'[m] = cmd[m]
        /\ \A m \in All : up'[m] # <<>> => up'[m] = up[m]
        /\ \A m \in All : down'[m] # <<>> => down'[m] = down[m]
    BY <1>1, <1>2 DEF ServiceInv, TypeOK
  <1>4. Frame(n)
    <2>1. c # Manager /\ {pc[c], pc'[c]} \subseteq {"none", "boot", "zombie"}
      BY <1>1, <1>3
    <2>2. \A m \in All : m # n /\ m # c => pc'[m] = pc[m] /\ cmd'[m] = cmd[m] /\ acc'[m] = acc[m]
      BY <1>2, <1>3
    <2>3. fifos' = fifos /\ cmd'[Manager] = cmd[Manager] /\ (Busy' <=> Busy)
      BY <1>1, <1>2, <1>3, TradeTyped DEF Busy
    <2> QED
      BY <2>1, <2>2, <2>3, Zenon DEF Frame
  <1>4a. Writes /\ ManagerWaits(n)
    BY <1>1, <1>2, <1>3, TradeTyped DEF Writes, ManagerWaits, Trading
  <1>5. CommandOf(n)
    BY <1>1, <1>2, <1>3 DEF CommandOf, TradeInv, Current, Trading, Looping
  <1>6. TradeOf(n)
    <2>1. n \notin files /\ ~Partnered(n)'
      BY <1>1, <1>3 DEF TradeInv, Filed, Partnered, Trading, Looping
    <2>2. \A m \in All : fifo[m] # <<>> => pc[m] = "take" /\ m # n /\ m # c
      BY <1>1 DEF TradeInv, FifoRead
    <2>3. files' = IF Partnered(n)' THEN files \cup {n} ELSE files \ {n}
      BY <1>2, <2>1
    <2>4. \A m \in All : fifo'[m] # <<>> => pc'[m] = "take"
      BY <1>2, <1>3, <2>2
    <2>5. \A m \in All : fifo'[m] = fifo[m]
      BY <1>2
    <2> QED
      BY <1>3, <2>3, <2>4, <2>5 DEF TradeOf
  <1> QED
    BY <1>4, <1>4a, <1>5, <1>6, TradeStep

(* A service that has the answer of its new child passes it on.            *)
LEMMA TradeHear ==
  ASSUME ServiceInv, TradeInv, NEW n \in All, NEW c, c = cmd[n].b, Hear(n), n # Manager
  PROVE  TradeInv'
  <1>1. /\ pc[n] = "hear" /\ up[c] # <<>> /\ c \in Names /\ c \in All /\ c # n /\ n \in Names /\ up[n] = <<>>
        /\ Tail(up[c]) = <<>>
    <2>1. pc[n] = "hear" /\ up[c] # <<>> /\ Waits(n, c)
      BY DEF Hear, Waits
    <2>2. c \in Names /\ c \in All /\ c # n /\ n \in Names
      BY <2>1, WaitsForKid DEF All
    <2> QED
      BY <2>1, <2>2, Pipes DEF ServiceInv, OnePlace
  <1>2. /\ pc' = [pc EXCEPT ![n] = "idle"] /\ cmd' = [cmd EXCEPT ![n] = NoCommand]
        /\ acc' = [acc EXCEPT ![n] = 0]
        /\ up' = [up EXCEPT ![c] = <<>>, ![n] = Append(<<>>, Head(up[c]))]
        /\ UNCHANGED <<down, fifo, fifos, files>>
    <2>1. up' = [up EXCEPT ![c] = Tail(up[c]), ![n] = Append(up[n], Head(up[c]))]
      BY <1>1 DEF Hear, ServiceInv, TypeOK
    <2> QED
      BY <1>1, <2>1 DEF Hear, Rest, Goto, Serve, trade
  <1>3. /\ pc'[n] = "idle" /\ up'[n] = <<Head(up[c])>> /\ up'[c] = <<>>
        /\ \A m \in All : m # n => pc'[m] = pc[m] /\ cmd'[m] = cmd[m] /\ acc'[m] = acc[m]
        /\ \A m \in All : m # n /\ m # c => up'[m] = up[m]
    BY <1>1, <1>2 DEF ServiceInv, TypeOK
  <1>4. Frame(n) /\ CommandOf(n) /\ ManagerWaits(n)
    BY <1>1, <1>2, <1>3 DEF Frame, Busy, CommandOf, ManagerWaits, Trading, Working, Looping, All
  <1>5. Writes
    <2>1. ManagerTrading => Head(up[c]) >= 1
      BY <1>1 DEF TradeInv, SecondToManager, ManagerTrading
    <2>2. Head(up'[n]) = Head(up[c])
      BY <1>3
    <2> QED
      BY <1>2, <1>3, <2>1, <2>2 DEF Writes
  <1>6. TradeOf(n)
    BY <1>1, <1>2, <1>3 DEF TradeOf, TradeInv, FifoRead, Filed, Partnered, Trading, Looping
  <1> QED
    BY <1>4, <1>5, <1>6, TradeStep

(* The count that a service passes on is one when the Manager trades: it   *)
(* has counted itself, and with two the loop has ended.                    *)
LEMMA TradeForward ==
  ASSUME ServiceInv, TradeInv, NEW n \in All, NEW k, k = Kid(n), Forward(n)
  PROVE  TradeInv'
  <1>1. /\ pc[n] = "each" /\ ~LoopOver(n) /\ k \in All /\ k # n /\ down[k] = <<>>
        /\ \A m \in All : down[m] = <<>>
    <2>1. pc[n] = "each" /\ ~LoopOver(n) /\ pos[n] < Len(children[n])
      BY TypedLoop DEF Forward, LoopOver
    <2>2. k \in All /\ k # n
      BY <2>1, KidFacts DEF All
    <2>3. \A m \in All : down[m] = <<>>
      BY <2>1 DEF ServiceInv, OnePlace, Holds
    <2> QED
      BY <2>1, <2>2, <2>3
  <1>2. /\ pc' = [pc EXCEPT ![n] = "await"] /\ down' = [down EXCEPT ![k] = <<Sent(n)>>]
        /\ UNCHANGED <<up, cmd, acc, fifo, fifos, files>>
    <2>1. down' = [down EXCEPT ![k] = Append(down[k], Sent(n))]
      BY DEF Forward, Sent
    <2>2. Append(down[k], Sent(n)) = <<Sent(n)>>
      BY <1>1
    <2> QED
      BY <2>1, <2>2 DEF Forward, Goto, locals, trade
  <1>3. /\ pc'[n] = "await" /\ down'[k] = <<Sent(n)>>
        /\ \A m \in All : m # n => pc'[m] = pc[m]
        /\ \A m \in All : m # k => down'[m] = <<>>
    BY <1>1, <1>2 DEF ServiceInv, TypeOK
  <1>4. Busy /\ SameAsManager(cmd[n])
    BY <1>1, TradeTyped DEF TradeInv, Current, SameAsManager, Busy
  <1>5. SameAsManager(Sent(n)) /\ (ManagerTrading => Sent(n).g = 1)
    <2>1. cmd[n] \in Commands /\ acc[n] \in Nat /\ Placed(n)
      BY TradeTyped
    <2>2. SameAsManager(Sent(n))
      BY <1>4, <2>1 DEF SameAsManager, Sent, Commands
    <2>3. ASSUME ManagerTrading PROVE Sent(n).g = 1
      <3>1. cmd[n].op = "exchange" /\ acc[n] >= 1 /\ acc[n] <= 2 /\ acc[n] # 2
        BY <1>1, <1>4, <2>1, <2>3
        DEF ManagerTrading, SameAsManager, TradeInv, SecondToManager, Looping, Placed, LoopOver, Enough
      <3>2. acc[n] = 1
        BY <2>1, <3>1
      <3> QED
        BY <2>1, <3>1, <3>2 DEF Sent, Commands
    <2> QED
      BY <2>2, <2>3
  <1>6. Frame(n) /\ ManagerWaits(n)
    BY <1>1, <1>2, <1>3 DEF Frame, Busy, ManagerWaits, Trading, All
  <1>7. CommandOf(n)
    BY <1>1, <1>2, <1>3, <1>4 DEF CommandOf, TradeInv, SecondToManager, ManagerTrading, Trading, Looping
  <1>8. Writes
    <2>1. Head(down'[k]) = Sent(n)
      BY <1>3
    <2> QED
      BY <1>2, <1>3, <1>4, <1>5, <2>1 DEF Writes
  <1>9. TradeOf(n)
    BY <1>1, <1>2, <1>3 DEF TradeOf, TradeInv, FifoRead, Filed, Partnered, Partner, Trading, Looping
  <1> QED
    BY <1>6, <1>7, <1>8, <1>9, TradeStep

(* The answer of a child gives a count of one when the Manager trades.     *)
LEMMA TradeCollect ==
  ASSUME ServiceInv, TradeInv, NEW n \in All, NEW k, k = Kid(n), Collect(n)
  PROVE  TradeInv'
  <1> DEFINE reply == Head(up[k])
  <1>1. /\ pc[n] = "await" /\ k \in All /\ k # n /\ up[k] # <<>> /\ Tail(up[k]) = <<>> /\ reply \in Nat
        /\ \A m \in All : m # k => up[m] = <<>>
    <2>1. pc[n] = "await" /\ up[k] # <<>> /\ Waits(n, k)
      BY DEF Collect, Waits
    <2>2. k \in All /\ k # n
      BY <2>1, WaitsForKid DEF All
    <2> QED
      BY <2>1, <2>2, Pipes DEF ServiceInv, OnePlace
  <1> HIDE DEF reply
  <1>2. PICK l \in {"each", "reap"} :
          /\ pc' = [pc EXCEPT ![n] = l] /\ acc' = [acc EXCEPT ![n] = NewAcc(n, reply)]
          /\ up' = [up EXCEPT ![k] = <<>>]
          /\ UNCHANGED <<down, cmd, fifo, fifos, files>>
    <2>1. up' = [up EXCEPT ![k] = Tail(up[k])]
      BY DEF Collect
    <2>2. up' = [up EXCEPT ![k] = <<>>] /\ UNCHANGED <<down, cmd, fifo, fifos, files>>
      BY <1>1, <2>1 DEF Collect, trade
    <2>3. acc' = [acc EXCEPT ![n] = NewAcc(n, reply)]
      BY DEF Collect, reply
    <2> QED
      BY <2>2, <2>3 DEF Collect, Goto
  <1>3. /\ pc'[n] = l /\ acc'[n] = NewAcc(n, reply)
        /\ \A m \in All : m # n => pc'[m] = pc[m] /\ acc'[m] = acc[m]
        /\ \A m \in All : up'[m] = <<>>
    BY <1>1, <1>2 DEF ServiceInv, TypeOK
  <1>4. Frame(n) /\ ManagerWaits(n) /\ Writes
    BY <1>1, <1>2, <1>3 DEF Frame, Busy, ManagerWaits, Writes, Trading, All
  <1>5. ManagerTrading /\ cmd[n].op = "exchange" => NewAcc(n, reply) >= 1
    <2> SUFFICES ASSUME ManagerTrading, cmd[n].op = "exchange" PROVE NewAcc(n, reply) >= 1
      OBVIOUS
    <2>1. acc[n] >= 1
      BY <1>1 DEF TradeInv, SecondToManager, ManagerTrading, Looping
    <2>2. reply >= 1
      BY <1>1 DEF TradeInv, SecondToManager, ManagerTrading, reply
    <2> QED
      BY <2>1, <2>2 DEF NewAcc
  <1>6. CommandOf(n)
    BY <1>1, <1>2, <1>3, <1>5 DEF CommandOf, TradeInv, Current, SecondToManager, Trading, Looping
  <1>7. TradeOf(n)
    <2>1. n \in files <=> n \in Names /\ Looping(n) /\ Partner(n)
      BY <1>1 DEF TradeInv, Filed, Trading
    <2>2. l = "reap" => cmd[n].op = "kill"
      <3>1. l = "reap" => Targets(n, k)
        BY <1>1, <1>2, <1>3 DEF Collect, Goto, Targets, ServiceInv, TypeOK
      <3> QED
        BY <3>1 DEF Targets
    <2>3. Partnered(n)' <=> n \in files
      BY <1>1, <1>2, <1>3, <2>1, <2>2 DEF Partnered, Looping, Partner, Trading
    <2> QED
      BY <1>1, <1>2, <1>3, <2>3 DEF TradeOf, TradeInv, FifoRead
  <1> QED
    BY <1>4, <1>6, <1>7, TradeStep

LEMMA TradeReap ==
  ASSUME ServiceInv, TradeInv, NEW n \in All, NEW k, k = Kid(n), Reap(n)
  PROVE  TradeInv'
  <1>1. /\ pc[n] = "reap" /\ cmd[n].op = "kill" /\ pc[k] = "zombie" /\ k \in All /\ k # n /\ k # Manager
    <2>1. pc[n] = "reap" /\ Waits(n, k) /\ pc[k] = "zombie"
      BY DEF Reap, Waits
    <2>2. k \in Names /\ k # n
      BY <2>1, WaitsForKid
    <2> QED
      BY <2>1, <2>2, TradeTyped DEF Placed, All
  <1>2. /\ pc' = [pc EXCEPT ![n] = "each", ![k] = "none"]
        /\ UNCHANGED <<down, up, cmd, acc, fifo, fifos, files>>
    BY DEF Reap, pipes, trade
  <1>3. /\ pc'[n] = "each" /\ pc'[k] = "none" /\ \A m \in All : m # n /\ m # k => pc'[m] = pc[m]
    BY <1>1, <1>2 DEF ServiceInv, TypeOK
  <1>4. Frame(n)
    <2>1. k # Manager /\ {pc[k], pc'[k]} \subseteq {"none", "boot", "zombie"}
      BY <1>1, <1>3
    <2>2. \A m \in All : m # n /\ m # k => pc'[m] = pc[m] /\ cmd'[m] = cmd[m] /\ acc'[m] = acc[m]
      BY <1>2, <1>3
    <2>3. fifos' = fifos /\ cmd'[Manager] = cmd[Manager] /\ (Busy' <=> Busy)
      BY <1>1, <1>2, <1>3, TradeTyped DEF Busy
    <2> QED
      BY <2>1, <2>2, <2>3 DEF Frame
  <1>5. Writes /\ ManagerWaits(n)
    BY <1>1, <1>2, <1>3, TradeTyped DEF Writes, ManagerWaits, Trading
  <1>6. CommandOf(n)
    BY <1>1, <1>2, <1>3 DEF CommandOf, TradeInv, Current, Trading, Looping
  <1>7. TradeOf(n)
    <2>1. n \notin files /\ ~Partnered(n)'
      BY <1>1, <1>2, <1>3 DEF TradeInv, Filed, Partnered, Trading, Looping
    <2>2. \A m \in All : fifo[m] # <<>> => pc[m] = "take" /\ m # n /\ m # k
      BY <1>1 DEF TradeInv, FifoRead
    <2> QED
      BY <1>2, <1>3, <2>1, <2>2 DEF TradeOf
  <1> QED
    BY <1>4, <1>5, <1>6, <1>7, TradeStep

LEMMA TradeReply ==
  ASSUME ServiceInv, TradeInv, NEW n \in All, Reply(n)
  PROVE  TradeInv'
  <1>1. /\ pc[n] = "each" /\ n # Manager /\ n \in Names /\ up[n] = <<>> /\ acc[n] \in Nat
        /\ cmd[n].op = "exchange" => ~Partner(n)
    <2>1. pc[n] = "each" /\ n # Manager /\ (cmd[n].op = "exchange" => ~Partner(n))
      BY DEF Reply
    <2> QED
      BY <2>1, TradeTyped DEF ServiceInv, OnePlace, Holds
  <1>2. /\ pc' = [pc EXCEPT ![n] = "idle"] /\ cmd' = [cmd EXCEPT ![n] = NoCommand]
        /\ acc' = [acc EXCEPT ![n] = 0] /\ up' = [up EXCEPT ![n] = Append(<<>>, acc[n])]
        /\ UNCHANGED <<down, fifo, fifos, files>>
    <2>1. up' = [up EXCEPT ![n] = Append(<<>>, acc[n])]
      BY <1>1 DEF Reply, WriteToParent
    <2> QED
      BY <2>1 DEF Reply, Rest, Goto, Serve, trade
  <1>3. /\ pc'[n] = "idle" /\ up'[n] = <<acc[n]>> /\ Head(up'[n]) = acc[n]
        /\ \A m \in All : m # n => pc'[m] = pc[m] /\ cmd'[m] = cmd[m] /\ acc'[m] = acc[m] /\ up'[m] = up[m]
    BY <1>1, <1>2 DEF ServiceInv, TypeOK
  <1>4. Frame(n) /\ CommandOf(n) /\ ManagerWaits(n)
    BY <1>1, <1>2, <1>3 DEF Frame, Busy, CommandOf, ManagerWaits, Trading, Working, Looping, All
  <1>5. Writes
    <2>1. ManagerTrading => acc[n] >= 1
      BY <1>1 DEF TradeInv, Current, SameAsManager, SecondToManager, ManagerTrading, Looping
    <2> QED
      BY <1>2, <1>3, <2>1 DEF Writes
  <1>6. TradeOf(n)
    BY <1>1, <1>2, <1>3 DEF TradeOf, TradeInv, FifoRead, Filed, Partnered, Trading, Looping
  <1> QED
    BY <1>4, <1>5, <1>6, TradeStep

(* A first partner begins to trade, or waits for the other to be found.    *)
LEMMA TradeReplyPartner ==
  ASSUME ServiceInv, TradeInv, NEW n \in All, ReplyPartner(n)
  PROVE  TradeInv'
  <1>1. /\ pc[n] = "each" /\ n # Manager /\ n \in Names /\ up[n] = <<>> /\ acc[n] \in Nat
        /\ cmd[n].op = "exchange" /\ Partner(n) /\ pc[Manager] # "wait"
    <2>1. pc[n] = "each" /\ n # Manager /\ cmd[n].op = "exchange" /\ Partner(n)
      BY DEF ReplyPartner
    <2>2. up[n] = <<>> /\ pc[Manager] # "wait"
      BY <2>1, TradeTyped DEF ServiceInv, OnePlace, Holds
    <2> QED
      BY <2>1, <2>2, TradeTyped
  <1>2. PICK l \in {"take", "watch"} :
          /\ pc' = [pc EXCEPT ![n] = l] /\ (up' = up \/ up' = [up EXCEPT ![n] = Append(<<>>, acc[n])])
          /\ UNCHANGED <<down, cmd, acc, fifo, fifos, files>>
    BY <1>1 DEF ReplyPartner, WriteToParent, Goto, locals, trade
  <1>3. /\ pc'[n] = l /\ (up'[n] = up[n] \/ (up'[n] = <<acc[n]>> /\ Head(up'[n]) = acc[n]))
        /\ \A m \in All : m # n => pc'[m] = pc[m] /\ up'[m] = up[m]
    BY <1>1, <1>2 DEF ServiceInv, TypeOK
  <1>4. Busy /\ SameAsManager(cmd[n]) /\ Looping(n) /\ n \in files
    BY <1>1 DEF TradeInv, Current, Looping, Filed
  <1>5. Frame(n)
    BY <1>1, <1>2, <1>3 DEF Frame, Busy, All
  <1>6. CommandOf(n)
    BY <1>1, <1>2, <1>3, <1>4 DEF CommandOf, TradeInv, SecondToManager, Working, Looping
  <1>7. Writes /\ ManagerWaits(n)
    <2>1. ManagerTrading => acc[n] >= 1
      BY <1>4 DEF TradeInv, SecondToManager, ManagerTrading
    <2> QED
      BY <1>1, <1>2, <1>3, <2>1, TradeTyped DEF Writes, ManagerWaits
  <1>8. TradeOf(n)
    <2>1. Partnered(n)'
      BY <1>1, <1>3 DEF Partnered, Trading
    <2>2. \A m \in All : fifo[m] # <<>> => pc[m] = "take" /\ m # n
      BY <1>1 DEF TradeInv, FifoRead
    <2> QED
      BY <1>2, <1>3, <1>4, <2>1, <2>2 DEF TradeOf
  <1> QED
    BY <1>5, <1>6, <1>7, <1>8, TradeStep

LEMMA TradeReplyDying ==
  ASSUME ServiceInv, TradeInv, NEW n \in All, ReplyDying(n)
  PROVE  TradeInv'
  <1>1. /\ pc[n] = "each" /\ n # Manager /\ n \in Names /\ up[n] = <<>> /\ acc[n] \in Nat /\ cmd[n].op = "kill"
    <2>1. pc[n] = "each" /\ n # Manager /\ cmd[n].op = "kill"
      BY DEF ReplyDying
    <2> QED
      BY <2>1, TradeTyped DEF ServiceInv, OnePlace, Holds
  <1>2. /\ pc' = [pc EXCEPT ![n] = "exit"] /\ up' = [up EXCEPT ![n] = Append(<<>>, acc[n] + 1)]
        /\ UNCHANGED <<down, cmd, acc, fifo, fifos, files>>
    BY <1>1 DEF ReplyDying, WriteToParent, Goto, locals, trade
  <1>3. /\ pc'[n] = "exit" /\ Head(up'[n]) = acc[n] + 1 /\ acc[n] + 1 >= 1
        /\ \A m \in All : m # n => pc'[m] = pc[m] /\ up'[m] = up[m]
    BY <1>1, <1>2 DEF ServiceInv, TypeOK
  <1>4. Frame(n) /\ ManagerWaits(n) /\ Writes
    BY <1>1, <1>2, <1>3 DEF Frame, Busy, ManagerWaits, Writes, Trading, All
  <1>5. CommandOf(n)
    BY <1>1, <1>2, <1>3 DEF CommandOf, TradeInv, Current, Trading, Looping
  <1>6. TradeOf(n)
    BY <1>1, <1>2, <1>3 DEF TradeOf, TradeInv, FifoRead, Filed, Partnered, Trading, Looping
  <1> QED
    BY <1>4, <1>5, <1>6, TradeStep

LEMMA TradeExit ==
  ASSUME ServiceInv, TradeInv, NEW n \in All, Exit(n)
  PROVE  TradeInv'
  <1>1. /\ pc[n] = "exit" /\ n # Manager /\ n \in Names
    BY TradeTyped DEF Exit, Placed
  <1>2. /\ pc' = [pc EXCEPT ![n] = "zombie"]
        /\ cmd' = [cmd EXCEPT ![n] = NoCommand] /\ acc' = [acc EXCEPT ![n] = 0]
        /\ UNCHANGED <<down, up, fifo, fifos, files>>
    BY DEF Exit, Goto, Serve, pipes, trade
  <1>3. pc'[n] = "zombie" /\ \A m \in All : m # n => pc'[m] = pc[m] /\ cmd'[m] = cmd[m] /\ acc'[m] = acc[m]
    BY <1>1, <1>2 DEF ServiceInv, TypeOK
  <1>4. Frame(n) /\ ManagerWaits(n) /\ Writes /\ CommandOf(n)
    BY <1>1, <1>2, <1>3 DEF Frame, Busy, ManagerWaits, Writes, CommandOf, Trading, Working, Looping, All
  <1>5. TradeOf(n)
    BY <1>1, <1>2, <1>3 DEF TradeOf, TradeInv, FifoRead, Filed, Partnered, Trading, Looping
  <1> QED
    BY <1>4, <1>5, TradeStep
-----------------------------------------------------------------------------
(* The steps of the two partners.                                          *)

(* A service that trades has the command of the Manager, unless it trails. *)
LEMMA TradingFacts ==
  ASSUME ServiceInv, TradeInv, NEW n \in Names, pc[n] \in Trading
  PROVE  /\ n \in All /\ n # Manager /\ n \in files /\ cmd[n].op = "exchange" /\ Partner(n)
         /\ Trailing(n) => Manager \in {cmd[n].a, cmd[n].b} /\ (pc[n] = "unfile" \/ pc[n] = "take")
         /\ Trailing(n) \/ (Busy /\ SameAsManager(cmd[n]))
         /\ Manager \in {cmd[n].a, cmd[n].b} => cmd[n].g = 1 /\ Second(n)
         /\ Manager \in {cmd[n].a, cmd[n].b} => Other(n) = Manager
  <1>1. n \in All /\ n # Manager
    BY DEF All
  <1>2. n \in files
    BY DEF TradeInv, Filed
  <1>3. Placed(n)
    BY <1>1, TradeTyped
  <1>4. cmd[n].op = "exchange" /\ Partner(n)
    BY <1>3 DEF Placed, Trading
  <1>5. Trailing(n) => Manager \in {cmd[n].a, cmd[n].b} /\ (pc[n] = "unfile" \/ pc[n] = "take")
    BY DEF Trailing, Other
  <1>6. Trailing(n) \/ (Busy /\ SameAsManager(cmd[n]))
    BY DEF TradeInv, Current
  <1>7. Manager \in {cmd[n].a, cmd[n].b} => cmd[n].g = 1 /\ Second(n)
    BY <1>1, <1>4 DEF TradeInv, SecondToManager, Second
  <1>8. Manager \in {cmd[n].a, cmd[n].b} => Other(n) = Manager
    BY <1>1, <1>4 DEF Partner, Other
  <1> QED
    BY <1>1, <1>2, <1>4, <1>5, <1>6, <1>7, <1>8

LEMMA TradeReplySecond ==
  ASSUME ServiceInv, TradeInv, NEW n \in All, ReplySecond(n)
  PROVE  TradeInv'
  <1>1. /\ pc[n] = "second" /\ n # Manager /\ n \in Names /\ up[n] = <<>> /\ pc[Manager] # "wait"
        /\ pc[n] \in Trading
    <2>1. pc[n] = "second" /\ n # Manager
      BY TradeTyped DEF ReplySecond, Placed
    <2> QED
      BY <2>1, TradeTyped DEF ServiceInv, OnePlace, Holds, Trading
  <1>2. /\ pc' = [pc EXCEPT ![n] = "give"] /\ up' = [up EXCEPT ![n] = Append(<<>>, 2)]
        /\ UNCHANGED <<down, cmd, acc, fifo, fifos, files>>
    BY <1>1 DEF ReplySecond, WriteToParent, Goto, locals, trade
  <1>3. /\ pc'[n] = "give" /\ Head(up'[n]) = 2 /\ pc'[Manager] = pc[Manager]
        /\ \A m \in All : m # n => pc'[m] = pc[m] /\ up'[m] = up[m]
    BY <1>1, <1>2, TradeTyped DEF ServiceInv, TypeOK
  <1>4. Frame(n) /\ ManagerWaits(n) /\ Writes
    BY <1>1, <1>2, <1>3 DEF Frame, Busy, ManagerWaits, Writes, All
  <1>5. CommandOf(n)
    BY <1>1, <1>2, <1>3, TradingFacts DEF CommandOf, Working, Looping
  <1>6. TradeOf(n)
    <2>1. Partnered(n)' /\ files \cup {n} = files
      BY <1>1, <1>3, TradingFacts DEF Partnered, Trading
    <2>2. \A m \in All : fifo[m] # <<>> => pc[m] = "take" /\ m # n
      BY <1>1 DEF TradeInv, FifoRead
    <2> QED
      BY <1>2, <1>3, <2>1, <2>2 DEF TradeOf
  <1> QED
    BY <1>4, <1>5, <1>6, TradeStep

LEMMA TradeWatch ==
  ASSUME ServiceInv, TradeInv, NEW n \in All, Watch(n)
  PROVE  TradeInv'
  <1>1. pc[n] = "watch" /\ n # Manager /\ n \in Names /\ pc[n] \in Trading
    BY TradeTyped DEF Watch, Placed, Trading
  <1>2. /\ pc' = [pc EXCEPT ![n] = "take"]
        /\ UNCHANGED <<down, up, cmd, acc, fifo, fifos, files>>
    BY DEF Watch, Goto, pipes, locals, trade
  <1>3. /\ pc'[n] = "take" /\ pc'[Manager] = pc[Manager]
        /\ \A m \in All : m # n => pc'[m] = pc[m]
    BY <1>1, <1>2, TradeTyped DEF ServiceInv, TypeOK
  <1>4. Frame(n) /\ Writes
    BY <1>1, <1>2, <1>3 DEF Frame, Busy, Writes, All
  <1>5. ManagerWaits(n)
    BY <1>1, <1>3 DEF ManagerWaits, TradeInv, ManagerGave
  <1>6. CommandOf(n)
    BY <1>1, <1>2, <1>3, TradingFacts DEF CommandOf, Working, Looping
  <1>7. TradeOf(n)
    <2>1. Partnered(n)' /\ files \cup {n} = files
      BY <1>1, <1>3, TradingFacts DEF Partnered, Trading
    <2>2. \A m \in All : fifo[m] # <<>> => pc[m] = "take" /\ m # n
      BY <1>1 DEF TradeInv, FifoRead
    <2> QED
      BY <1>2, <1>3, <2>1, <2>2 DEF TradeOf
  <1> QED
    BY <1>4, <1>5, <1>6, <1>7, TradeStep

LEMMA TradeReport ==
  ASSUME ServiceInv, TradeInv, NEW n \in All, Report(n)
  PROVE  TradeInv'
  <1>1. /\ pc[n] = "report" /\ n # Manager /\ n \in Names /\ up[n] = <<>> /\ pc[Manager] # "wait"
        /\ pc[n] \in Trading
    <2>1. pc[n] = "report" /\ n # Manager
      BY TradeTyped DEF Report, Placed
    <2> QED
      BY <2>1, TradeTyped DEF ServiceInv, OnePlace, Holds, Trading
  <1>2. /\ pc' = [pc EXCEPT ![n] = "unfile"] /\ up' = [up EXCEPT ![n] = Append(<<>>, 2)]
        /\ UNCHANGED <<down, cmd, acc, fifo, fifos, files>>
    BY <1>1 DEF Report, WriteToParent, Goto, locals, trade
  <1>3. /\ pc'[n] = "unfile" /\ Head(up'[n]) = 2 /\ pc'[Manager] = pc[Manager]
        /\ \A m \in All : m # n => pc'[m] = pc[m] /\ up'[m] = up[m]
    BY <1>1, <1>2, TradeTyped DEF ServiceInv, TypeOK
  <1>4. Frame(n) /\ ManagerWaits(n) /\ Writes
    BY <1>1, <1>2, <1>3 DEF Frame, Busy, ManagerWaits, Writes, All
  <1>5. CommandOf(n)
    BY <1>1, <1>2, <1>3, TradingFacts DEF CommandOf, Working, Looping
  <1>6. TradeOf(n)
    <2>1. Partnered(n)' /\ files \cup {n} = files
      BY <1>1, <1>3, TradingFacts DEF Partnered, Trading
    <2>2. \A m \in All : fifo[m] # <<>> => pc[m] = "take" /\ m # n
      BY <1>1 DEF TradeInv, FifoRead
    <2> QED
      BY <1>2, <1>3, <2>1, <2>2 DEF TradeOf
  <1> QED
    BY <1>4, <1>5, <1>6, TradeStep

LEMMA TradeUnfile ==
  ASSUME ServiceInv, TradeInv, NEW n \in All, Unfile(n)
  PROVE  TradeInv'
  <1>1. pc[n] = "unfile" /\ n # Manager /\ n \in Names
    BY TradeTyped DEF Unfile, Placed
  <1>2. /\ pc' = [pc EXCEPT ![n] = "idle"] /\ cmd' = [cmd EXCEPT ![n] = NoCommand]
        /\ acc' = [acc EXCEPT ![n] = 0] /\ files' = files \ {n}
        /\ UNCHANGED <<down, up, fifo, fifos>>
    BY DEF Unfile, Rest, Goto, Serve, pipes
  <1>3. pc'[n] = "idle" /\ \A m \in All : m # n => pc'[m] = pc[m] /\ cmd'[m] = cmd[m] /\ acc'[m] = acc[m]
    BY <1>1, <1>2 DEF ServiceInv, TypeOK
  <1>4. Frame(n) /\ ManagerWaits(n) /\ Writes /\ CommandOf(n)
    BY <1>1, <1>2, <1>3 DEF Frame, Busy, ManagerWaits, Writes, CommandOf, Trading, Working, Looping, All
  <1>5. TradeOf(n)
    BY <1>1, <1>2, <1>3 DEF TradeOf, TradeInv, FifoRead, Partnered, Trading, Looping
  <1> QED
    BY <1>4, <1>5, TradeStep

(* The reader of a FIFO goes on; a second partner is then done, and only a *)
(* second partner trades with the Manager.                                 *)
LEMMA TradeTake ==
  ASSUME ServiceInv, TradeInv, NEW n \in All, Take(n)
  PROVE  TradeInv'
  <1>1. pc[n] = "take" /\ pc[n] \in Trading
    BY DEF Take, Trading
  <1>2. PICK l \in {"unfile", "give"} :
          /\ pc' = [pc EXCEPT ![n] = l] /\ (l = "unfile" <=> Second(n))
          /\ fifo' = [fifo EXCEPT ![n] = <<>>]
          /\ UNCHANGED <<down, up, cmd, acc, fifos, files>>
    BY DEF Take, Goto, pipes, locals
  <1>3. /\ pc'[n] = l /\ fifo'[n] = <<>>
        /\ \A m \in All : m # n => pc'[m] = pc[m] /\ fifo'[m] = fifo[m]
    BY <1>2 DEF ServiceInv, TypeOK
  <1>4. Frame(n) /\ Writes
    BY <1>1, <1>2, <1>3 DEF Frame, Busy, Writes, All
  <1>5. ManagerWaits(n)
    <2> SUFFICES ASSUME pc'[Manager] = "wait", Partner(Manager)
                 PROVE  /\ pc[Manager] = "wait"
                        /\ n \in Names /\ pc'[n] \in Trading => pc'[n] = "unfile"
      BY DEF ManagerWaits
    <2>1. n # Manager /\ n \in Names /\ pc[Manager] = "wait"
      BY <1>2, <1>3, TradeTyped
    <2>2. Second(n)
      BY <1>1, <2>1, TradingFacts DEF SameAsManager, Partner
    <2> QED
      BY <1>2, <1>3, <2>1, <2>2
  <1>6. CommandOf(n)
    <2> SUFFICES ASSUME n \in Names PROVE CommandOf(n)
      BY <1>2, <1>3, TradeTyped DEF CommandOf, Looping
    <2>1. Trailing(n) => Trailing(n)'
      <3> SUFFICES ASSUME Trailing(n) PROVE Trailing(n)'
        OBVIOUS
      <3>1. Second(n) /\ cmd[n].op = "exchange" /\ Other(n) = Manager
        BY <1>1, TradingFacts
      <3>2. pc'[n] = "unfile" /\ cmd' = cmd
        BY <1>2, <1>3, <3>1
      <3> QED
        BY <3>1, <3>2 DEF Trailing, Other
    <2>2. pc'[n] \notin Working /\ ~Looping(n)'
      BY <1>2, <1>3 DEF Working, Looping
    <2> QED
      BY <1>1, <1>2, <2>1, <2>2, TradingFacts DEF CommandOf
  <1>7. TradeOf(n)
    <2>1. files' = IF Partnered(n)' THEN files \cup {n} ELSE files \ {n}
      <3>1. CASE n \in Names
        <4>1. Partnered(n)' /\ files \cup {n} = files
          BY <1>1, <1>2, <1>3, <3>1, TradingFacts DEF Partnered, Trading
        <4> QED
          BY <1>2, <4>1
      <3>2. CASE n \notin Names
        <4>1. ~Partnered(n)' /\ n \notin files
          BY <3>2 DEF Partnered, TradeInv, Filed
        <4> QED
          BY <1>2, <4>1
      <3> QED
        BY <3>1, <3>2
    <2>2. \A m \in All : fifo[m] # <<>> => pc[m] = "take"
      BY DEF TradeInv, FifoRead
    <2> QED
      BY <1>3, <2>1, <2>2 DEF TradeOf
  <1> QED
    BY <1>4, <1>5, <1>6, <1>7, TradeStep

(* The writer of a FIFO goes on when the reader has come to it.  When the  *)
(* Manager is the writer, its partner has opened both FIFOs.               *)
LEMMA TradeGive ==
  ASSUME ServiceInv, TradeInv, NEW n \in All, NEW o, o = Other(n), Give(n)
  PROVE  TradeInv'
  <1>1. /\ pc[n] = "give" /\ pc[n] \in Trading /\ pc[o] = "take" /\ o # n /\ o \in All
        /\ cmd[n].op = "exchange" /\ Partner(n)
    BY TradeTyped DEF Give, Trading, Placed
  <1>2. PICK l \in {"take", "wait", "report", "unfile"} :
          /\ pc' = [pc EXCEPT ![n] = l] /\ fifo' = [fifo EXCEPT ![o] = <<secret[n]>>]
          /\ n = Manager => l = "wait"
          /\ n # Manager => l # "wait"
          /\ UNCHANGED <<down, up, cmd, acc, fifos, files>>
    <2>1. ~Second(Manager)
      BY DEF Second
    <2> QED
      BY <2>1 DEF Give, Goto, pipes, locals
  <1>3. /\ pc'[n] = l /\ fifo'[o] = <<secret[n]>> /\ fifo'[o] # <<>> /\ pc'[o] = "take"
        /\ \A m \in All : m # n => pc'[m] = pc[m]
        /\ \A m \in All : m # o => fifo'[m] = fifo[m]
    BY <1>1, <1>2 DEF ServiceInv, TypeOK
  <1>4. Frame(n) /\ Writes
    BY <1>1, <1>2, <1>3, TradeTyped DEF Frame, Busy, Writes
  <1>5. CommandOf(n)
    <2>1. CASE n = Manager
      BY <1>2, <1>3, <2>1 DEF CommandOf, Looping
    <2>2. CASE n # Manager
      <3>1. n \in Names /\ Busy /\ SameAsManager(cmd[n])
        BY <1>1, <2>2, TradeTyped, TradingFacts
      <3>2. pc'[n] \notin Working /\ ~Looping(n)'
        BY <1>2, <1>3 DEF Working, Looping
      <3> QED
        BY <1>1, <1>2, <3>1, <3>2, TradingFacts DEF CommandOf
    <2> QED
      BY <2>1, <2>2
  <1>6. TradeOf(n)
    <2>1. files' = IF Partnered(n)' THEN files \cup {n} ELSE files \ {n}
      <3>1. CASE n = Manager
        <4>1. ~Partnered(n)' /\ n \notin files
          BY <3>1 DEF Partnered, TradeInv, Filed
        <4> QED
          BY <1>2, <4>1
      <3>2. CASE n # Manager
        <4>1. Partnered(n)' /\ files \cup {n} = files
          BY <1>1, <1>2, <1>3, <3>2, TradeTyped, TradingFacts DEF Partnered, Trading
        <4> QED
          BY <1>2, <4>1
      <3> QED
        BY <3>1, <3>2
    <2>2. \A m \in All : fifo[m] # <<>> => pc[m] = "take"
      BY DEF TradeInv, FifoRead
    <2> QED
      BY <1>1, <1>3, <2>1, <2>2 DEF TradeOf
  <1>7. ManagerWaits(n) \/ ManagerGave'
    <2>1. CASE n = Manager
      <3> SUFFICES ASSUME NEW m \in Names, pc'[m] \in Trading
                   PROVE  pc'[m] = "unfile" \/ (pc'[m] = "take" /\ fifo'[m] # <<>>)
        BY DEF ManagerGave
      <3>1. m \in All /\ m # n /\ pc'[m] = pc[m] /\ pc[m] \in Trading
        BY <1>3, <2>1, TradeTyped DEF All
      <3>2. CASE Trailing(m)
        BY <1>3, <3>1, <3>2 DEF Trailing
      <3>3. CASE SameAsManager(cmd[m])
        <4>1. Partner(m)
          BY <3>1, TradingFacts
        <4>2. m = o
          BY <1>1, <2>1, <3>1, <3>3, <4>1 DEF Partner, Other, SameAsManager
        <4> QED
          BY <1>3, <4>2
      <3> QED
        BY <3>1, <3>2, <3>3, TradingFacts
    <2>2. CASE n # Manager
      <3>1. n \in Names /\ ~(pc[Manager] = "wait" /\ Partner(Manager))
        BY <1>1, <2>2, TradeTyped DEF TradeInv, ManagerGave
      <3>2. pc'[Manager] = pc[Manager]
        BY <1>3, <2>2, TradeTyped
      <3> QED
        BY <3>1, <3>2 DEF ManagerWaits
    <2> QED
      BY <2>1, <2>2
  <1> QED
    BY <1>4, <1>5, <1>6, <1>7, TradeStep
-----------------------------------------------------------------------------
(* A service that reads a command works on the Manager's: it is a partner  *)
(* by the name it has, and second when the count it reads is one.          *)
LEMMA TradeReceive ==
  ASSUME ServiceInv, TradeInv, NEW n \in All, NEW c, c = Head(down[n]), Receive(n)
  PROVE  TradeInv'
  <1>1. /\ pc[n] = "idle" /\ n # Manager /\ n \in Names /\ down[n] # <<>> /\ Tail(down[n]) = <<>>
        /\ c \in Commands /\ pc[Manager] # "wait" /\ Busy /\ SameAsManager(c)
        /\ ManagerTrading => c.g = 1
        /\ n \notin files
    <2>1. pc[n] = "idle" /\ n # Manager /\ n \in Names /\ down[n] # <<>>
      BY TradeTyped DEF Receive
    <2>2. c \in Commands /\ Tail(down[n]) = <<>>
      BY <2>1, Pipes
    <2>3. pc[Manager] # "wait"
      BY <2>1, TradeTyped DEF ServiceInv, OnePlace, Holds
    <2>4. Busy /\ SameAsManager(c) /\ (ManagerTrading => c.g = 1)
      BY <2>1 DEF TradeInv, Current, SecondToManager, ManagerTrading
    <2>5. n \notin files
      BY <2>1 DEF TradeInv, Filed, Trading, Looping
    <2> QED
      BY <2>1, <2>2, <2>3, <2>4, <2>5
  <1> DEFINE Becomes(l, d, a) ==
        /\ pc' = [pc EXCEPT ![n] = l] /\ cmd' = [cmd EXCEPT ![n] = d] /\ acc' = [acc EXCEPT ![n] = a]
        /\ l \in {"fork", "each", "second"} /\ d.op = c.op /\ d.a = c.a /\ d.b = c.b
        /\ c.op # "exchange" => l # "second" /\ files' = files
        /\ c.op = "exchange" =>
             /\ d.g = c.g /\ a >= c.g /\ (l = "second" => n \in {c.a, c.b} /\ c.g = 1) /\ l # "fork"
             /\ files' = IF n \in {c.a, c.b} THEN files \cup {n} ELSE files
  <1>2. PICK l \in {"fork", "each", "second"}, d \in Commands, a \in Nat : Becomes(l, d, a)
    <2>1. CASE ReceiveSpawn(n, c)
      <3>1. Becomes(IF c.a = n THEN "fork" ELSE "each", c, 0)
        BY <2>1 DEF ReceiveSpawn, Serve, Goto
      <3> HIDE DEF Becomes
      <3> QED
        BY <1>1, <3>1
    <2>2. CASE ReceiveKill(n, c)
      <3> DEFINE d == IF c.a = n THEN [c EXCEPT !.g = 1] ELSE c
      <3>1. d \in Commands /\ d.op = c.op /\ d.a = c.a /\ d.b = c.b
        BY <1>1 DEF Commands
      <3>2. pc' = [pc EXCEPT ![n] = "each"] /\ cmd' = [cmd EXCEPT ![n] = d]
            /\ acc' = [acc EXCEPT ![n] = 0] /\ c.op = "kill" /\ files' = files
        BY <2>2 DEF ReceiveKill, Serve, Goto
      <3> HIDE DEF d
      <3>3. Becomes("each", d, 0)
        BY <3>1, <3>2
      <3> HIDE DEF Becomes
      <3> QED
        BY <3>1, <3>3
    <2>3. CASE ReceiveExchange(n, c) /\ n \in {c.a, c.b}
      <3>1. c.g \in {0, 1}
        BY <1>1 DEF Commands
      <3>2. Becomes(IF c.g + 1 = 2 THEN "second" ELSE "each", c, c.g + 1)
        BY <2>3, <3>1 DEF ReceiveExchange, Serve, Goto
      <3> HIDE DEF Becomes
      <3> QED
        BY <1>1, <3>1, <3>2
    <2>4. CASE ReceiveExchange(n, c) /\ n \notin {c.a, c.b}
      <3>1. c.g \in {0, 1}
        BY <1>1 DEF Commands
      <3>2. Becomes("each", c, c.g)
        BY <2>4, <3>1 DEF ReceiveExchange, Serve, Goto
      <3> HIDE DEF Becomes
      <3> QED
        BY <1>1, <3>1, <3>2
    <2> QED
      BY <2>1, <2>2, <2>3, <2>4 DEF Receive
  <1>3. /\ down' = [down EXCEPT ![n] = <<>>] /\ UNCHANGED <<up, fifo, fifos>>
    BY <1>1 DEF Receive
  <1>4. /\ pc'[n] = l /\ cmd'[n] = d /\ acc'[n] = a /\ down'[n] = <<>>
        /\ \A m \in All : m # n => pc'[m] = pc[m] /\ cmd'[m] = cmd[m] /\ acc'[m] = acc[m] /\ down'[m] = down[m]
    BY <1>2, <1>3 DEF ServiceInv, TypeOK
  <1>5. Frame(n) /\ Writes /\ ManagerWaits(n)
    BY <1>1, <1>3, <1>4, TradeTyped DEF Frame, Busy, Writes, ManagerWaits
  <1>6. SameAsManager(d) /\ (c.op = "exchange" /\ Manager \in {c.a, c.b} => ManagerTrading)
    BY <1>1, <1>2 DEF SameAsManager, ManagerTrading, Partner
  <1>7. Looping(n)' => c.op = "exchange" /\ l = "each"
    BY <1>2, <1>4 DEF Looping
  <1>8. c.g \in {0, 1} /\ a \in Nat
    BY <1>1, <1>2 DEF Commands
  <1>9. CommandOf(n)
    <2>1. l \in Trading => l = "second" /\ c.op = "exchange"
      BY <1>2 DEF Trading
    <2>2. ManagerTrading /\ Looping(n)' => acc'[n] >= 1
      BY <1>1, <1>2, <1>4, <1>7, <1>8
    <2>3. (l \in Trading \/ Looping(n)') /\ Manager \in {d.a, d.b} => d.g = 1
      BY <1>1, <1>2, <1>6, <1>7, <2>1
    <2> QED
      BY <1>1, <1>4, <1>6, <2>2, <2>3 DEF CommandOf
  <1>10. TradeOf(n)
    <2>1. Partnered(n)' <=> c.op = "exchange" /\ n \in {c.a, c.b}
      BY <1>1, <1>2, <1>4 DEF Partnered, Looping, Partner, Trading
    <2>2. \A m \in All : fifo[m] # <<>> => pc[m] = "take" /\ m # n
      BY <1>1 DEF TradeInv, FifoRead
    <2> QED
      BY <1>1, <1>2, <1>3, <1>4, <2>1, <2>2 DEF TradeOf
  <1> QED
    BY <1>5, <1>9, <1>10, TradeStep
-----------------------------------------------------------------------------
(* The Manager begins and ends a command.                                  *)

(* When it has ended one, only those trail that have traded with it.       *)
LEMMA ManagerEnds ==
  ASSUME ServiceInv, TradeInv, pc[Manager] # "take", pc'[Manager] \in {"idle", "gone"}, ~fifos',
         \A m \in Names : pc'[m] = pc[m] /\ pc[m] \notin Working /\ (pc[m] \in Trading => Trailing(m)),
         \A m \in All : down'[m] = <<>> /\ up'[m] = <<>>,
         UNCHANGED <<cmd, acc, fifo, files>>
  PROVE  TradeInv'
  <1>1. Manager \in All /\ \A m \in All : m # Manager => m \in Names
    BY DEF All
  <1>2. \A m \in All : ~Looping(m)'
    BY <1>1 DEF Looping, Working
  <1>3. Filed'
    BY <1>2 DEF TradeInv, Filed, Looping, Working
  <1>4. FifoRead'
    BY <1>1 DEF TradeInv, FifoRead
  <1>5. FifosExist' /\ ManagerGave'
    BY DEF FifosExist, Busy, ManagerGave
  <1>6. Current'
    <2>1. \A m \in Names : m \in All /\ (Trailing(m) => Trailing(m)')
      BY DEF Trailing, Other, All
    <2> QED
      BY <2>1 DEF Current, Working
  <1>7. SecondToManager'
    <2>1. \A m \in Names : m \in All /\ (pc'[m] \in Trading => pc[m] \in Trading)
      BY DEF All
    <2>2. \A m \in Names : (pc'[m] \in Trading \/ Looping(m)') /\ Manager \in {cmd'[m].a, cmd'[m].b} => cmd'[m].g = 1
      BY <1>2, <2>1 DEF TradeInv, SecondToManager
    <2> QED
      BY <1>2, <2>2 DEF SecondToManager
  <1> QED
    BY <1>3, <1>4, <1>5, <1>6, <1>7 DEF TradeInv

LEMMA TradeManagerHear ==
  ASSUME ServiceInv, TradeInv, Hear(Manager)
  PROVE  TradeInv'
  <1> DEFINE c == cmd[Manager].b
             S == {k \in Names : pc[k] \in Working}
  <1>1. /\ pc[Manager] = "hear" /\ Manager \in All /\ cmd[Manager].op = "spawn" /\ up[c] # <<>> /\ c \in All
        /\ Tail(up[c]) = <<>> /\ \A m \in All : down[m] = <<>> /\ (m # c => up[m] = <<>>)
    <2>1. pc[Manager] = "hear" /\ Manager \in All /\ up[c] # <<>> /\ Waits(Manager, c)
      BY DEF Hear, Waits, All
    <2>2. cmd[Manager].op = "spawn"
      BY <2>1, TradeTyped DEF Placed
    <2>3. c \in All
      BY <2>1, WaitsForKid DEF All
    <2>4. Tail(up[c]) = <<>> /\ \A m \in All : down[m] = <<>> /\ (m # c => up[m] = <<>>)
      BY <2>1, <2>3, Pipes DEF ServiceInv, OnePlace
    <2> QED
      BY <2>1, <2>2, <2>3, <2>4
  <1>2. /\ pc' = [pc EXCEPT ![Manager] = "idle"] /\ up' = [up EXCEPT ![c] = <<>>]
        /\ UNCHANGED <<down, cmd, acc, fifo, fifos, files>>
    BY <1>1 DEF Hear, Goto, locals, trade
  <1>3. ASSUME NEW k \in S PROVE \E p \in S : k \in Kids(p)
    <2>1. Engaged(k)
      BY <1>3 DEF Engaged, Holds, Working
    <2>2. PICK p \in All : k \in Kids(p) /\ Waits(p, k)
      BY <1>3, <2>1 DEF ServiceInv, Supervised
    <2>3. Heard(p, k)
      BY <1>3, <2>2 DEF ServiceInv, ChainHeard
    <2>4. p # Manager
      BY <1>1, <1>3, <2>3 DEF Heard, Working
    <2>5. pc[p] \in Working
      BY <2>2 DEF Waits, Working
    <2> QED
      BY <2>2, <2>4, <2>5 DEF All
  <1>4. S = {}
    <2>1. S \in SUBSET Names
      OBVIOUS
    <2> HIDE DEF S
    <2> QED
      BY <1>3, <2>1 DEF ServiceInv, Acyclic
  <1>5. /\ pc'[Manager] = "idle" /\ \A m \in Names : pc'[m] = pc[m]
        /\ \A m \in All : down'[m] = <<>> /\ up'[m] = <<>>
    BY <1>1, <1>2, NamesAssumption DEF ServiceInv, TypeOK, All
  <1>6. ~fifos'
    BY <1>1, <1>2 DEF TradeInv, FifosExist
  <1>7. \A m \in Names : pc[m] \in Trading => Trailing(m)
    BY <1>1, TradingFacts DEF SameAsManager
  <1> QED
    BY <1>1, <1>2, <1>4, <1>5, <1>6, <1>7, ManagerEnds

(* While the Manager holds the token nobody works and no pipe has anything.*)
LEMMA ManagerHolds ==
  ASSUME ServiceInv, pc[Manager] \in {"idle", "gone", "each", "wait"}
  PROVE  /\ \A m \in Names : pc[m] \notin Working \cup {"boot", "zombie"}
         /\ \A m \in Names : ~Holds(m)
         /\ \A m \in All : down[m] = <<>> /\ up[m] = <<>>
  <1>1. \A m \in Names : ~Engaged(m) /\ m \in All
    BY NobodyEngaged DEF All
  <1>2. Manager \in All /\ Holds(Manager)
    BY DEF Holds, All
  <1>3. \A m \in All : down[m] = <<>> /\ up[m] = <<>>
    BY <1>2 DEF ServiceInv, OnePlace
  <1> QED
    BY <1>1, <1>3 DEF Engaged, Holds, Working

LEMMA TradeConclude ==
  ASSUME ServiceInv, TradeInv, Conclude
  PROVE  TradeInv'
  <1>1. /\ pc[Manager] = "each" /\ Manager \in All /\ Conclusion /\ cmd[Manager].op # "none"
        /\ cmd[Manager] \in Commands
    BY TradeTyped DEF Conclude, Placed, All
  <1>2. UNCHANGED <<down, up, cmd, acc, fifo, fifos, files>>
    BY DEF Conclude, pipes, locals, trade
  <1>3. CASE cmd[Manager].op = "exchange"
    <2>1. pc' = [pc EXCEPT ![Manager] = IF Partner(Manager) THEN "take" ELSE "wait"]
      BY <1>1, <1>3 DEF Conclusion, Goto
    <2>2. /\ pc'[Manager] = IF Partner(Manager) THEN "take" ELSE "wait"
          /\ \A m \in All : m # Manager => pc'[m] = pc[m]
      BY <1>1, <2>1 DEF ServiceInv, TypeOK
    <2>3. Frame(Manager) /\ Writes /\ ManagerWaits(Manager)
      BY <1>1, <1>2, <2>2 DEF Frame, Busy, Writes, ManagerWaits
    <2>4. CommandOf(Manager)
      BY <2>2 DEF CommandOf, Looping
    <2>5. TradeOf(Manager)
      BY <1>1, <1>2, <2>2 DEF TradeOf, TradeInv, FifoRead, Filed, Partnered
    <2> QED
      BY <1>1, <2>3, <2>4, <2>5, TradeStep
  <1>4. CASE cmd[Manager].op # "exchange"
    <2>1. pc' = [pc EXCEPT ![Manager] = "idle"] \/ pc' = [pc EXCEPT ![Manager] = "gone"]
      BY <1>1, <1>4 DEF Conclusion, Goto
    <2>2. /\ pc'[Manager] \in {"idle", "gone"} /\ \A m \in Names : pc'[m] = pc[m]
      BY <1>1, <2>1 DEF ServiceInv, TypeOK, All
    <2>3. ~fifos'
      BY <1>2, <1>4 DEF TradeInv, FifosExist
    <2>4. \A m \in Names : pc[m] \in Trading => Trailing(m)
      BY <1>4, TradingFacts DEF SameAsManager
    <2> QED
      BY <1>1, <1>2, <2>2, <2>3, <2>4, ManagerHolds, ManagerEnds
  <1> QED
    BY <1>3, <1>4

LEMMA TradeEndExchange ==
  ASSUME ServiceInv, TradeInv, EndExchange
  PROVE  TradeInv'
  <1>1. /\ pc[Manager] = "wait" /\ Manager \in All /\ ~fifos' /\ cmd[Manager].op = "exchange"
        /\ Partner(Manager) \/ files \cap {cmd[Manager].a, cmd[Manager].b} = {}
    BY TradeTyped DEF EndExchange, Placed, All
  <1>2. pc' = [pc EXCEPT ![Manager] = "idle"] /\ UNCHANGED <<down, up, cmd, acc, fifo, files>>
    BY DEF EndExchange, Goto, pipes, locals
  <1>3. pc'[Manager] = "idle" /\ \A m \in Names : pc'[m] = pc[m]
    BY <1>1, <1>2 DEF ServiceInv, TypeOK, All
  <1>4. ASSUME NEW m \in Names, pc[m] \in Trading PROVE Trailing(m)
    <2>1. CASE Partner(Manager)
      <3>1. pc[m] = "unfile" \/ (pc[m] = "take" /\ fifo[m] # <<>>)
        BY <1>1, <1>4, <2>1 DEF TradeInv, ManagerGave
      <3>2. Trailing(m) \/ Manager \in {cmd[m].a, cmd[m].b}
        BY <1>4, <2>1, TradingFacts DEF SameAsManager, Partner
      <3> QED
        BY <1>4, <3>1, <3>2, TradingFacts DEF Trailing
    <2>2. CASE ~Partner(Manager)
      <3>1. m \in files /\ Partner(m)
        BY <1>4, TradingFacts
      <3>2. ~SameAsManager(cmd[m])
        BY <1>1, <2>2, <3>1 DEF SameAsManager, Partner
      <3> QED
        BY <1>4, <3>2, TradingFacts
    <2> QED
      BY <2>1, <2>2
  <1> QED
    BY <1>1, <1>2, <1>3, <1>4, ManagerHolds, ManagerEnds

(* A command is given when nothing of the one before is under way.         *)
LEMMA TradeIssue ==
  ASSUME ServiceInv, TradeInv, Issue
  PROVE  TradeInv'
  <1>1. pc[Manager] = "idle" /\ Manager \in All /\ ~Busy /\ ~fifos
    BY DEF Issue, TradeInv, FifosExist, Busy, All
  <1>2. PICK op \in Ops, a \in All, b \in All :
          LET g == IF Manager \in {a, b} /\ op # "spawn" THEN 1 ELSE 0
          IN  /\ Serve(Manager, Command(op, a, b, g), IF op = "exchange" THEN g ELSE 0)
              /\ Goto(Manager, IF op = "spawn" /\ a = Manager THEN "fork" ELSE "each")
              /\ fifos' = (op = "exchange" \/ fifos)
    BY DEF Issue
  <1> DEFINE g == IF Manager \in {a, b} /\ op # "spawn" THEN 1 ELSE 0
  <1>3. PICK l \in {"fork", "each"} :
          /\ pc' = [pc EXCEPT ![Manager] = l] /\ cmd' = [cmd EXCEPT ![Manager] = Command(op, a, b, g)]
          /\ acc' = [acc EXCEPT ![Manager] = IF op = "exchange" THEN g ELSE 0]
          /\ fifos' = (op = "exchange" \/ fifos)
    BY <1>2 DEF Serve, Goto
  <1>4. UNCHANGED <<down, up, fifo, files>>
    BY DEF Issue, pipes
  <1>5. /\ pc'[Manager] = l /\ cmd'[Manager] = Command(op, a, b, g)
        /\ acc'[Manager] = IF op = "exchange" THEN g ELSE 0
        /\ \A m \in Names : m \in All /\ m # Manager /\ pc'[m] = pc[m] /\ cmd'[m] = cmd[m] /\ acc'[m] = acc[m]
    BY <1>1, <1>3 DEF ServiceInv, TypeOK, All
  <1> HIDE DEF g
  <1>6. /\ cmd'[Manager].op = op /\ cmd'[Manager].a = a /\ cmd'[Manager].b = b
        /\ op = "exchange" /\ Manager \in {a, b} => g = 1
    BY <1>5 DEF Command, g
  <1>7. /\ \A m \in Names : pc[m] \notin Working
        /\ \A m \in All : down'[m] = <<>> /\ up'[m] = <<>>
    BY <1>1, <1>4, ManagerHolds
  <1>8. \A m \in Names : ~Looping(m) /\ ~Looping(m)'
    BY <1>5, <1>7 DEF Looping, Working
  <1>9. \A m \in Names : pc[m] \in Trading => Trailing(m)
    BY <1>1, TradingFacts
  <1>10. Filed'
    BY <1>4, <1>5, <1>8 DEF TradeInv, Filed
  <1>11. FifoRead'
    <2>1. \A m \in All : m # Manager => m \in Names
      BY DEF All
    <2> QED
      BY <1>1, <1>4, <1>5, <2>1 DEF TradeInv, FifoRead
  <1>12. FifosExist' /\ ManagerGave'
    BY <1>1, <1>3, <1>5, <1>6 DEF FifosExist, Busy, ManagerGave
  <1>13. Current'
    <2>1. \A m \in Names : pc'[m] \in Trading => Trailing(m)'
      BY <1>4, <1>5, <1>9 DEF Trailing, Other
    <2> QED
      BY <1>5, <1>7, <2>1 DEF Current, Working
  <1>14. SecondToManager'
    <2>1. \A m \in Names : (pc'[m] \in Trading \/ Looping(m)') /\ Manager \in {cmd'[m].a, cmd'[m].b} => cmd'[m].g = 1
      BY <1>5, <1>8 DEF TradeInv, SecondToManager
    <2>2. op = "exchange" /\ Manager \in {a, b} => acc'[Manager] >= 1
      BY <1>5, <1>6
    <2>3. \A m \in All : m = Manager \/ m \in Names
      BY DEF All
    <2> QED
      BY <1>6, <1>7, <1>8, <2>1, <2>2, <2>3 DEF SecondToManager, Partner
  <1> QED
    BY <1>10, <1>11, <1>12, <1>13, <1>14 DEF TradeInv

LEMMA TradeInit == Init => TradeInv
  <1> SUFFICES ASSUME Init PROVE TradeInv
    OBVIOUS
  <1>1. /\ pc[Manager] = "idle" /\ \A n \in Names : pc[n] = "none"
        /\ \A n \in All : fifo[n] = <<>> /\ down[n] = <<>> /\ up[n] = <<>> /\ pc[n] \in {"idle", "none"}
        /\ files = {} /\ ~fifos
    BY NamesAssumption DEF Init, All
  <1>2. Filed /\ FifoRead /\ FifosExist
    BY <1>1 DEF Filed, FifoRead, FifosExist, Busy, Trading, Looping
  <1>3. Current /\ ManagerGave
    <2>1. \A n \in Names : n \in All
      BY DEF All
    <2> QED
      BY <1>1, <2>1 DEF Current, ManagerGave, Trading
  <1>4. SecondToManager
    BY <1>1 DEF SecondToManager, Trading, Looping
  <1> QED
    BY <1>2, <1>3, <1>4 DEF TradeInv

LEMMA TradeStutter ==
  ASSUME TradeInv, UNCHANGED vars
  PROVE  TradeInv'
  <1>1. UNCHANGED <<pc, cmd, acc, down, up, fifo, fifos, files>>
    BY DEF vars, pipes, locals, trade
  <1>2. Filed' /\ FifoRead' /\ FifosExist'
    BY <1>1 DEF TradeInv, Filed, FifoRead, FifosExist, Busy, Looping, Partner
  <1>3. Current' /\ ManagerGave'
    BY <1>1 DEF TradeInv, Current, Busy, SameAsManager, Trailing, Other, ManagerGave, Partner
  <1>4. SecondToManager'
    BY <1>1 DEF TradeInv, SecondToManager, Looping, Partner
  <1> QED
    BY <1>2, <1>3, <1>4 DEF TradeInv

LEMMA TradeNext ==
  ASSUME ServiceInv, TradeInv, NEW n \in All, Step(n)
  PROVE  TradeInv'
  <1>1. CASE Receive(n) \/ Fork(n) \/ Boot(n)
    BY <1>1, TradeReceive, TradeFork, TradeBoot
  <1>2. CASE Hear(n)
    BY <1>2, TradeHear, TradeManagerHear
  <1>3. CASE Forward(n) \/ Collect(n) \/ Reap(n)
    BY <1>3, TradeForward, TradeCollect, TradeReap
  <1>4. CASE Reply(n) \/ ReplyPartner(n) \/ ReplyDying(n) \/ Exit(n)
    BY <1>4, TradeReply, TradeReplyPartner, TradeReplyDying, TradeExit
  <1>5. CASE ReplySecond(n) \/ Watch(n) \/ Give(n)
    BY <1>5, TradeReplySecond, TradeWatch, TradeGive
  <1>6. CASE Take(n) \/ Report(n) \/ Unfile(n)
    BY <1>6, TradeTake, TradeReport, TradeUnfile
  <1>7. CASE n = Manager /\ (Conclude \/ EndExchange)
    BY <1>7, TradeConclude, TradeEndExchange
  <1> QED
    BY <1>1, <1>2, <1>3, <1>4, <1>5, <1>6, <1>7 DEF Step

-----------------------------------------------------------------------------
(* The invariant: whoever works on a command has the Manager's, a service   *)
(* has its file exactly while it is a partner, and the FIFOs are there as   *)
(* long as an exchange is under way.                                        *)
THEOREM TradeInvariance == Spec => [](ServiceInv /\ TradeInv)
  <1>1. ASSUME ServiceInv, TradeInv, [Next]_vars PROVE TradeInv'
    BY <1>1, TradeIssue, TradeNext, TradeStutter DEF Next
  <1> QED
    BY <1>1, TradeInit, ServiceInvariance, PTL DEF Spec

(* In every tree: a partner that is to open a FIFO finds it, because the    *)
(* Manager does not unlink the FIFOs before both partners have opened both. *)
THEOREM FifosAlwaysInPlace == Spec => []FifosInPlace
  <1>1. ASSUME ServiceInv, TradeInv, NEW n \in All,
               pc[n] \in {"watch", "second", "give"} \/ (pc[n] = "take" /\ fifo[n] = <<>>)
        PROVE  fifos
    <2>1. Placed(n) /\ cmd[n].op = "exchange"
      BY <1>1, TradeTyped DEF Placed
    <2>2. Busy /\ cmd[Manager].op = "exchange"
      <3>1. CASE n = Manager
        BY <1>1, <2>1, <3>1 DEF Busy
      <3>2. CASE n # Manager
        <4>1. n \in Names /\ pc[n] \in Trading /\ ~Trailing(n)
          BY <1>1, <3>2 DEF Trading, Trailing, All
        <4> QED
          BY <1>1, <2>1, <4>1, TradingFacts DEF SameAsManager
      <3> QED
        BY <3>1, <3>2
    <2> QED
      BY <1>1, <2>2 DEF TradeInv, FifosExist
  <1>2. ServiceInv /\ TradeInv => FifosInPlace
    BY <1>1 DEF FifosInPlace
  <1> QED
    BY <1>2, TradeInvariance, PTL

(* In every tree: when the Manager takes a command, or has ended, no service *)
(* works on one before, and no message, file or FIFO of one is left, but for *)
(* a service that has traded with the Manager.                               *)
THEOREM QuietBetweenCommands == Spec => []Quiet
  <1>1. ASSUME ServiceInv, TradeInv, pc[Manager] \in {"idle", "gone"}
        PROVE  /\ \A n \in Names : pc[n] \in {"idle", "none"} \/ Trailing(n)
               /\ \A n \in All : down[n] = <<>> /\ up[n] = <<>>
               /\ \A n \in All : Trailing(n) \/ (n \notin files /\ fifo[n] = <<>>)
               /\ ~fifos
    <2>1. ~fifos /\ ~Busy
      BY <1>1 DEF TradeInv, FifosExist, Busy
    <2>2. \A n \in Names : pc[n] \notin Working \cup {"boot", "zombie"}
      BY <1>1, ManagerHolds
    <2>3. \A n \in Names : pc[n] \in Trading => Trailing(n)
      BY <1>1, <2>1, TradingFacts
    <2>4. ASSUME NEW n \in Names PROVE pc[n] \in {"idle", "none"} \cup Trading
      <3>1. n \in All /\ n # Manager
        BY DEF All
      <3>2. pc[n] \in Labels /\ pc[n] \notin {"wait", "gone"}
        BY <1>1, <3>1, TradeTyped DEF Placed, ServiceInv, TypeOK
      <3> QED
        BY <2>2, <3>2 DEF Labels, Working, Trading
    <2>5. ASSUME NEW n \in All PROVE Trailing(n) \/ (n \notin files /\ fifo[n] = <<>>)
      <3>1. n \in files => n \in Names /\ pc[n] \in Trading
        BY <1>1, <2>2 DEF TradeInv, Filed, Looping, Working
      <3>2. fifo[n] # <<>> => n \in Names /\ pc[n] \in Trading
        BY <1>1 DEF TradeInv, FifoRead, Trading, All
      <3> QED
        BY <2>3, <3>1, <3>2
    <2> QED
      BY <1>1, <2>1, <2>3, <2>4, <2>5, ManagerHolds
  <1>2. ServiceInv /\ TradeInv => Quiet
    BY <1>1 DEF Quiet
  <1> QED
    BY <1>2, TradeInvariance, PTL
-----------------------------------------------------------------------------
(* The steps, process by process.                                          *)

(* Nothing changes of the control of the other processes.                  *)
Only(n) ==
  \A m \in All : m # n => pc'[m] = pc[m] /\ cmd'[m] = cmd[m] /\ pos'[m] = pos[m] /\ acc'[m] = acc[m]
Silent == \A m \in All : up[m] = <<>> /\ down[m] = <<>>
ChildOf(n, k) == k \in Kids(n) /\ k \in Names /\ k \in All /\ k # n /\ k # Manager

LEMMA Typed ==
  ASSUME ServiceInv
  PROVE  /\ DOMAIN pc = All /\ DOMAIN cmd = All /\ DOMAIN pos = All /\ DOMAIN acc = All
         /\ DOMAIN up = All /\ DOMAIN down = All /\ DOMAIN children = All /\ DOMAIN secret = All
         /\ pc = [m \in All |-> pc[m]] /\ cmd = [m \in All |-> cmd[m]] /\ pos = [m \in All |-> pos[m]]
         /\ acc = [m \in All |-> acc[m]] /\ up = [m \in All |-> up[m]] /\ down = [m \in All |-> down[m]]
         /\ children = [m \in All |-> children[m]] /\ secret = [m \in All |-> secret[m]]
  BY DEF ServiceInv, TypeOK

LEMMA CommandFields ==
  ASSUME NEW c \in Commands
  PROVE  /\ c.g \in {0, 1} /\ c.op \in {"none", "spawn", "kill", "exchange"} /\ c.a \in All /\ c.b \in All
         /\ [c EXCEPT !.g = 1] \in Commands
         /\ [c EXCEPT !.g = 1].g = 1 /\ [c EXCEPT !.g = 1].op = c.op
         /\ [c EXCEPT !.g = 1].a = c.a /\ [c EXCEPT !.g = 1].b = c.b
  BY DEF Commands

LEMMA HolderAlone ==
  ASSUME ServiceInv, NEW n \in All, Holds(n)
  PROVE  Silent /\ \A m \in All : Holds(m) => m = n
  BY DEF ServiceInv, OnePlace, Silent

LEMMA KidOf ==
  ASSUME ServiceInv, NEW n \in All, NEW k, k = Kid(n), pos[n] < Len(children[n])
  PROVE  ChildOf(n, k)
  BY KidFacts, NamesAssumption DEF ChildOf, All

(* Who is served has the command of the Manager.                           *)
LEMMA ServesManager ==
  ASSUME ServiceInv, TradeInv, NEW n \in All, pc[n] \in Working
  PROVE  Busy /\ SameAsManager(cmd[n])
  BY DEF TradeInv, Current, Working, All, Busy, SameAsManager

LEMMA DoesReceive ==
  ASSUME ServiceInv, TradeInv, NEW n \in All, NEW c, c = Head(down[n]), Receive(n)
  PROVE  /\ n \in Names /\ n # Manager /\ pc[n] = "idle" /\ down[n] # <<>> /\ c \in Commands
         /\ Busy /\ SameAsManager(c) /\ Only(n) /\ pos'[n] = 0
         /\ \A m \in All : up[m] = <<>> /\ down'[m] = <<>> /\ ~Holds(m)
         /\ UNCHANGED <<children, secret, up, tm, fifo, fifos, answer, subtree, before>>
         /\ \/ /\ c.op = "spawn" /\ files' = files /\ cmd'[n] = c /\ acc'[n] = 0
               /\ pc'[n] = IF c.a = n THEN "fork" ELSE "each"
            \/ /\ c.op = "kill" /\ files' = files /\ pc'[n] = "each" /\ acc'[n] = 0
               /\ SameAsManager(cmd'[n]) /\ cmd'[n].op = c.op /\ cmd'[n].a = c.a /\ cmd'[n].b = c.b
               /\ cmd'[n].g = IF c.a = n THEN 1 ELSE c.g
            \/ /\ c.op = "exchange" /\ n \in {c.a, c.b} /\ files' = files \cup {n} /\ cmd'[n] = c
               /\ acc'[n] = c.g + 1 /\ pc'[n] = IF c.g + 1 = 2 THEN "second" ELSE "each"
            \/ /\ c.op = "exchange" /\ n \notin {c.a, c.b} /\ files' = files /\ cmd'[n] = c
               /\ acc'[n] = c.g /\ pc'[n] = "each"
  <1>1. n \in Names /\ n # Manager /\ pc[n] = "idle" /\ down[n] # <<>>
    BY TradeTyped DEF Receive
  <1>2. c \in Commands /\ Tail(down[n]) = <<>> /\ Busy /\ SameAsManager(c)
    BY <1>1, Pipes DEF TradeInv, Current
  <1>3. \A m \in All : up[m] = <<>> /\ ~Holds(m) /\ (m # n => down[m] = <<>>)
    BY <1>1 DEF ServiceInv, OnePlace
  <1>4. down' = [down EXCEPT ![n] = <<>>] /\ \A m \in All : down'[m] = <<>>
    BY <1>2, <1>3, Typed DEF Receive
  <1>5. UNCHANGED <<children, secret, up, tm, fifo, fifos, answer, subtree, before>>
    BY DEF Receive, history
  <1>6. PICK l, d, a : /\ pc' = [pc EXCEPT ![n] = l] /\ cmd' = [cmd EXCEPT ![n] = d]
                       /\ pos' = [pos EXCEPT ![n] = 0] /\ acc' = [acc EXCEPT ![n] = a]
                       /\ \/ c.op = "spawn" /\ files' = files /\ d = c /\ a = 0 /\ l = IF c.a = n THEN "fork" ELSE "each"
                          \/ /\ c.op = "kill" /\ files' = files /\ l = "each" /\ a = 0
                             /\ d = IF c.a = n THEN [c EXCEPT !.g = 1] ELSE c
                          \/ /\ c.op = "exchange" /\ n \in {c.a, c.b} /\ files' = files \cup {n} /\ d = c
                             /\ a = c.g + 1 /\ l = IF c.g + 1 = 2 THEN "second" ELSE "each"
                          \/ /\ c.op = "exchange" /\ n \notin {c.a, c.b} /\ files' = files /\ d = c
                             /\ a = c.g /\ l = "each"
    <2>1. CASE ReceiveSpawn(n, c)
      BY <2>1 DEF ReceiveSpawn, Serve, Goto
    <2>2. CASE ReceiveKill(n, c)
      BY <2>2 DEF ReceiveKill, Serve, Goto
    <2>3. CASE ReceiveExchange(n, c)
      BY <2>3 DEF ReceiveExchange, Serve, Goto
    <2> QED
      BY <2>1, <2>2, <2>3 DEF Receive
  <1>7. Only(n) /\ pc'[n] = l /\ cmd'[n] = d /\ pos'[n] = 0 /\ acc'[n] = a
    BY <1>6, Typed DEF Only
  <1>8. c.op = "kill" =>
          /\ SameAsManager(d) /\ d.op = c.op /\ d.a = c.a /\ d.b = c.b
          /\ d.g = IF c.a = n THEN 1 ELSE c.g
    BY <1>2, <1>6, CommandFields DEF SameAsManager
  <1> QED
    BY <1>1, <1>2, <1>3, <1>4, <1>5, <1>6, <1>7, <1>8

LEMMA DoesFork ==
  ASSUME ServiceInv, TradeInv, NEW n \in All, NEW c, c = cmd[n].b, Fork(n)
  PROVE  /\ pc[n] = "fork" /\ Silent /\ Busy /\ SameAsManager(cmd[n])
         /\ cmd[n].op = "spawn" /\ cmd[n].a = n /\ Fresh(c) /\ c \in All /\ c # n /\ c # Manager /\ children[c] = <<>>
         /\ pc'[n] = "hear" /\ pc'[c] = "boot" /\ cmd'[n] = cmd[n] /\ cmd'[c] = NoCommand
         /\ \A m \in All : m # n /\ m # c => pc'[m] = pc[m] /\ cmd'[m] = cmd[m] /\ children'[m] = children[m]
         /\ children'[n] = Append(children[n], c) /\ children'[c] = <<>>
         /\ \A m \in All : up'[m] = <<>> /\ down'[m] = <<>>
         /\ UNCHANGED <<pos, acc, tm, fifo, fifos, files, answer, subtree, before>>
  <1>1. pc[n] = "fork" /\ Silent /\ Busy /\ SameAsManager(cmd[n])
    BY HolderAlone, ServesManager DEF Fork, Holds, Working
  <1>2. cmd[n].op = "spawn" /\ cmd[n].a = n /\ Fresh(c)
    BY <1>1, TradeTyped DEF Placed, ServiceInv, NameFree
  <1>3. c \in All /\ c # n /\ c # Manager /\ children[c] = <<>>
    BY <1>1, <1>2, NamesAssumption DEF Fresh, ServiceInv, Placed, All
  <1>4. /\ children' = [children EXCEPT ![n] = Append(children[n], c), ![c] = <<>>]
        /\ cmd' = [cmd EXCEPT ![c] = NoCommand] /\ pc' = [pc EXCEPT ![n] = "hear", ![c] = "boot"]
        /\ down' = [down EXCEPT ![c] = <<>>] /\ up' = [up EXCEPT ![c] = <<>>]
        /\ UNCHANGED <<pos, acc, tm, fifo, fifos, files, answer, subtree, before>>
    BY DEF Fork, locals, trade, history
  <1>5. /\ pc'[n] = "hear" /\ pc'[c] = "boot" /\ cmd'[n] = cmd[n] /\ cmd'[c] = NoCommand
        /\ \A m \in All : m # n /\ m # c => pc'[m] = pc[m] /\ cmd'[m] = cmd[m] /\ children'[m] = children[m]
        /\ children'[n] = Append(children[n], c) /\ children'[c] = <<>>
    BY <1>3, <1>4, Typed
  <1>6. \A m \in All : up'[m] = <<>> /\ down'[m] = <<>>
    BY <1>1, <1>3, <1>4, Typed DEF Silent
  <1> QED
    BY <1>1, <1>2, <1>3, <1>4, <1>5, <1>6

LEMMA DoesBoot ==
  ASSUME ServiceInv, NEW n \in All, Boot(n)
  PROVE  /\ pc[n] = "boot" /\ n # Manager /\ Only(n) /\ pc'[n] = "idle" /\ up'[n] = <<1>>
         /\ \A m \in All : down[m] = <<>> /\ (m # n => up'[m] = <<>>)
         /\ \E p \in All : pc[p] = "hear"
         /\ UNCHANGED <<children, down, cmd, pos, acc, tm, fifo, fifos, files, secret, answer, subtree, before>>
  <1>1. pc[n] = "boot" /\ n # Manager /\ n \in Names /\ Silent
    BY HolderAlone, TradeTyped DEF Boot, Placed, Holds
  <1>2. up' = [up EXCEPT ![n] = Append(<<>>, 1)] /\ pc' = [pc EXCEPT ![n] = "idle"]
        /\ UNCHANGED <<children, down, cmd, pos, acc, tm, fifo, fifos, files, secret, answer, subtree, before>>
    BY <1>1 DEF Boot, WriteToParent, Goto, locals, trade, history, Silent
  <1>3. Only(n) /\ pc'[n] = "idle" /\ up'[n] = <<1>> /\ \A m \in All : down[m] = <<>> /\ (m # n => up'[m] = <<>>)
    BY <1>1, <1>2, Typed DEF Only, Silent
  <1>4. \E p \in All : pc[p] = "hear"
    <2>1. PICK p \in All : n \in Kids(p) /\ Waits(p, n)
      BY <1>1 DEF Engaged, Holds, ServiceInv, Supervised
    <2>2. Heard(p, n) /\ Holds(n)
      BY <1>1, <2>1 DEF ServiceInv, ChainHeard, Holds
    <2> QED
      BY <1>1, <2>1, <2>2 DEF Waits, Heard
  <1> QED
    BY <1>1, <1>2, <1>3, <1>4

LEMMA DoesHear ==
  ASSUME ServiceInv, TradeInv, NEW n \in All, NEW c, c = cmd[n].b, Hear(n)
  PROVE  /\ pc[n] = "hear" /\ cmd[n].op = "spawn" /\ Busy /\ SameAsManager(cmd[n]) /\ c \in All /\ c # n /\ Only(n)
         /\ pc'[n] = "idle" /\ up[c] = <<1>> /\ up'[c] = <<>>
         /\ \A m \in All : down[m] = <<>> /\ (m # n => up'[m] = <<>>)
         /\ IF n = Manager THEN up'[n] = <<>> /\ answer'.told = "spawned" /\ cmd' = cmd /\ acc' = acc
                           ELSE up'[n] = <<1>> /\ answer' = answer /\ acc'[n] = 0 /\ pos'[n] = 0 /\ cmd'[n] = NoCommand
         /\ UNCHANGED <<children, down, tm, fifo, fifos, files, secret, subtree, before>>
  <1>1. /\ pc[n] = "hear" /\ cmd[n].op = "spawn" /\ Busy /\ SameAsManager(cmd[n]) /\ c \in Kids(n)
        /\ up[c] # <<>> /\ Waits(n, c)
    BY TradeTyped, ServesManager DEF Hear, Placed, Working, Waits
  <1>2. c \in Names /\ c \in All /\ c # n
    BY <1>1, WaitsForKid DEF All
  <1>3. up[c] = <<1>> /\ Tail(up[c]) = <<>> /\ \A m \in All : down[m] = <<>> /\ (m # c => up[m] = <<>>)
    BY <1>1, <1>2, Pipes DEF ServiceInv, OnePlace, ChainHeard, Heard
  <1>4. pc' = [pc EXCEPT ![n] = "idle"]
        /\ UNCHANGED <<children, down, tm, fifo, fifos, files, secret, subtree, before>>
    BY DEF Hear, Rest, Goto, trade, history
  <1>5. CASE n = Manager
    <2>1. up' = [up EXCEPT ![c] = <<>>] /\ UNCHANGED <<cmd, pos, acc>> /\ answer'.told = "spawned"
      BY <1>3, <1>5 DEF Hear, Tell, locals
    <2>2. Only(n) /\ pc'[n] = "idle" /\ \A m \in All : up'[m] = <<>>
      BY <1>2, <1>3, <1>4, <2>1, Typed DEF Only
    <2> QED
      BY <1>1, <1>2, <1>3, <1>4, <1>5, <2>1, <2>2
  <1>6. CASE n # Manager
    <2>1. /\ answer' = answer
          /\ cmd' = [cmd EXCEPT ![n] = NoCommand] /\ pos' = [pos EXCEPT ![n] = 0] /\ acc' = [acc EXCEPT ![n] = 0]
      BY <1>6 DEF Hear, Rest, Serve
    <2>2. up'[n] = <<1>> /\ \A m \in All : m # n => up'[m] = <<>>
      <3>1. Head(up[c]) = 1
        BY <1>3
      <3>2. up' = [up EXCEPT ![c] = <<>>, ![n] = Append(<<>>, 1)]
        BY <1>2, <1>3, <1>6, <3>1, Typed DEF Hear
      <3> QED
        BY <1>2, <1>3, <3>2, Typed
    <2>3. Only(n) /\ pc'[n] = "idle" /\ cmd'[n] = NoCommand /\ acc'[n] = 0 /\ pos'[n] = 0
      BY <1>4, <2>1, Typed DEF Only
    <2> QED
      BY <1>1, <1>2, <1>3, <1>4, <1>6, <2>1, <2>2, <2>3
  <1> QED
    BY <1>5, <1>6

LEMMA DoesForward ==
  ASSUME ServiceInv, TradeInv, NEW n \in All, NEW k, k = Kid(n), Forward(n)
  PROVE  /\ pc[n] = "each" /\ ~LoopOver(n) /\ ~Enough(n) /\ pos[n] < Len(children[n]) /\ ChildOf(n, k)
         /\ Busy /\ SameAsManager(cmd[n]) /\ Silent /\ Only(n) /\ pc'[n] = "await"
         /\ down'[k] = <<Sent(n)>> /\ \A m \in All : m # k => down'[m] = <<>>
         /\ UNCHANGED <<children, up, cmd, pos, acc, tm, fifo, fifos, files, secret, answer, subtree, before>>
  <1>1. /\ pc[n] = "each" /\ ~LoopOver(n) /\ ~Enough(n) /\ pos[n] < Len(children[n])
        /\ Busy /\ SameAsManager(cmd[n]) /\ Silent
    BY TypedLoop, HolderAlone, ServesManager DEF Forward, LoopOver, Working, Holds
  <1>2. ChildOf(n, k)
    BY <1>1, KidOf
  <1>3. /\ pc' = [pc EXCEPT ![n] = "await"] /\ down' = [down EXCEPT ![k] = Append(<<>>, Sent(n))]
        /\ UNCHANGED <<children, up, cmd, pos, acc, tm, fifo, fifos, files, secret, answer, subtree, before>>
    BY <1>1, <1>2 DEF Forward, Goto, Sent, locals, trade, history, Silent, ChildOf
  <1>4. Only(n) /\ pc'[n] = "await"
    BY <1>3, Typed DEF Only
  <1>5. down'[k] = <<Sent(n)>> /\ \A m \in All : m # k => down'[m] = <<>>
    BY <1>1, <1>2, <1>3, Typed DEF Silent, ChildOf
  <1> QED
    BY <1>1, <1>2, <1>3, <1>4, <1>5

LEMMA DoesCollect ==
  ASSUME ServiceInv, TradeInv, NEW n \in All, NEW k, k = Kid(n), Collect(n)
  PROVE  /\ pc[n] = "await" /\ ~Enough(n) /\ pos[n] < Len(children[n]) /\ ChildOf(n, k)
         /\ Busy /\ SameAsManager(cmd[n]) /\ Only(n) /\ Heard(n, k) /\ Waits(n, k)
         /\ up[k] # <<>> /\ Head(up[k]) \in Nat
         /\ \A m \in All : down[m] = <<>> /\ up'[m] = <<>> /\ ~Holds(m)
         /\ acc'[n] = NewAcc(n, Head(up[k]))
         /\ IF Targets(n, k) THEN pc'[n] = "reap" /\ pos'[n] = pos[n] ELSE pc'[n] = "each" /\ pos'[n] = pos[n] + 1
         /\ UNCHANGED <<children, down, cmd, tm, fifo, fifos, files, secret, answer, subtree, before>>
  <1>1. /\ pc[n] = "await" /\ ~Enough(n) /\ pos[n] < Len(children[n]) /\ Waits(n, k)
        /\ Busy /\ SameAsManager(cmd[n]) /\ up[k] # <<>>
    BY TypedLoop, ServesManager, TradeTyped DEF Collect, LoopOver, Working, Placed, Waits
  <1>2. ChildOf(n, k) /\ Heard(n, k)
    BY <1>1, KidOf DEF ServiceInv, ChainHeard, ChildOf
  <1>3. Head(up[k]) \in Nat /\ Tail(up[k]) = <<>>
    BY <1>1, <1>2, Pipes DEF ChildOf
  <1>4. \A m \in All : down[m] = <<>> /\ ~Holds(m) /\ (m # k => up[m] = <<>>)
    BY <1>1, <1>2 DEF ServiceInv, OnePlace, ChildOf
  <1>5. /\ acc' = [acc EXCEPT ![n] = NewAcc(n, Head(up[k]))] /\ up' = [up EXCEPT ![k] = <<>>]
        /\ pc' = [pc EXCEPT ![n] = IF Targets(n, k) THEN "reap" ELSE "each"]
        /\ pos' = IF Targets(n, k) THEN pos ELSE [pos EXCEPT ![n] = pos[n] + 1]
        /\ UNCHANGED <<children, down, cmd, tm, fifo, fifos, files, secret, answer, subtree, before>>
    BY <1>3, Typed DEF Collect, Goto, Targets, trade, history
  <1>6. \A m \in All : up'[m] = <<>>
    BY <1>2, <1>4, <1>5, Typed DEF ChildOf
  <1>7. /\ Only(n) /\ acc'[n] = NewAcc(n, Head(up[k]))
        /\ IF Targets(n, k) THEN pc'[n] = "reap" /\ pos'[n] = pos[n] ELSE pc'[n] = "each" /\ pos'[n] = pos[n] + 1
    BY <1>5, Typed DEF Only
  <1> QED
    BY <1>1, <1>2, <1>3, <1>4, <1>5, <1>6, <1>7

LEMMA DoesReap ==
  ASSUME ServiceInv, TradeInv, NEW n \in All, NEW k, k = Kid(n), Reap(n)
  PROVE  /\ pc[n] = "reap" /\ cmd[n].op = "kill" /\ pos[n] < Len(children[n]) /\ ChildOf(n, k) /\ pc[k] = "zombie"
         /\ Busy /\ SameAsManager(cmd[n]) /\ Silent
         /\ pc'[n] = "each" /\ pc'[k] = "none" /\ pos'[n] = pos[n] + 1
         /\ \A m \in All : m # n => pos'[m] = pos[m] /\ children'[m] = children[m] /\ (m # k => pc'[m] = pc[m])
         /\ \A m \in All : Kids(m)' \subseteq Kids(m)
         /\ cmd[n].g = 1 => children' = children
         /\ UNCHANGED <<down, up, cmd, acc, tm, fifo, fifos, files, secret, answer, subtree, before>>
  <1>1. /\ pc[n] = "reap" /\ cmd[n].op = "kill" /\ pos[n] < Len(children[n]) /\ pc[k] = "zombie"
        /\ Busy /\ SameAsManager(cmd[n]) /\ Silent
    BY HolderAlone, ServesManager, TradeTyped DEF Reap, Placed, Holds, Working
  <1>2. ChildOf(n, k)
    BY <1>1, KidOf
  <1>3. /\ pc' = [pc EXCEPT ![n] = "each", ![k] = "none"] /\ pos' = [pos EXCEPT ![n] = pos[n] + 1]
        /\ children' = IF cmd[n].g = 1 THEN children
                       ELSE [children EXCEPT ![n] = DeleteNode(children[n], pos[n] + 1)]
        /\ UNCHANGED <<down, up, cmd, acc, tm, fifo, fifos, files, secret, answer, subtree, before>>
    BY Typed DEF Reap, pipes, trade, history
  <1>4. /\ pc'[n] = "each" /\ pc'[k] = "none" /\ pos'[n] = pos[n] + 1
        /\ \A m \in All : m # n => pos'[m] = pos[m] /\ children'[m] = children[m] /\ (m # k => pc'[m] = pc[m])
    BY <1>2, <1>3, Typed DEF ChildOf
  <1>5. \A m \in All : Kids(m)' \subseteq Kids(m)
    <2>1. CASE cmd[n].g = 1
      BY <1>3, <2>1 DEF Kids
    <2>2. CASE cmd[n].g # 1
      <3>1. children[n] \in Seq(Names) /\ pos[n] + 1 \in 1 .. Len(children[n])
        <4>1. children[n] \in Seq(Names)
          BY DEF ServiceInv, TypeOK
        <4>2. pos[n] \in Nat /\ Len(children[n]) \in Nat /\ pos[n] < Len(children[n])
          BY <1>1, TypedLoop
        <4>3. pos[n] + 1 \in 1 .. Len(children[n])
          BY <4>2
        <4> QED
          BY <4>1, <4>3
      <3>2. children'[n] = DeleteNode(children[n], pos[n] + 1)
        BY <1>3, <2>2, Typed
      <3>3. Kids(n)' \subseteq Kids(n)
        <4> DEFINE s == children[n]
                   t == children'[n]
        <4>1. Len(t) = Len(s) - 1 /\ \A j \in 1 .. Len(s) - 1 : t[j] = IF j < pos[n] + 1 THEN s[j] ELSE s[j + 1]
          BY <3>1, <3>2, DeleteNodeProperties
        <4>2. Len(s) \in Nat /\ Kids(n) = {s[i] : i \in 1 .. Len(s)} /\ Kids(n)' = {t[i] : i \in 1 .. Len(t)}
          BY <3>1 DEF Kids
        <4> HIDE DEF s, t
        <4>3. ASSUME NEW i \in 1 .. Len(t) PROVE t[i] \in Kids(n)
          <5>1. i \in 1 .. Len(s) /\ i + 1 \in 1 .. Len(s) /\ (t[i] = s[i] \/ t[i] = s[i + 1])
            BY <4>1, <4>2
          <5>2. \A j \in 1 .. Len(s) : s[j] \in Kids(n)
            BY <4>2
          <5> QED
            BY <5>1, <5>2
        <4> QED
          BY <4>2, <4>3
      <3>4. \A m \in All : m # n => Kids(m)' = Kids(m)
        BY <1>4 DEF Kids
      <3> QED
        BY <3>3, <3>4
    <2> QED
      BY <2>1, <2>2
  <1> QED
    BY <1>1, <1>2, <1>3, <1>4, <1>5

LEMMA DoesReply ==
  ASSUME ServiceInv, TradeInv, NEW n \in All, Reply(n)
  PROVE  /\ pc[n] = "each" /\ n \in Names /\ n # Manager /\ LoopOver(n) /\ cmd[n].op \in {"spawn", "kill", "exchange"}
         /\ cmd[n].op = "kill" => cmd[n].g = 0
         /\ cmd[n].op = "exchange" => ~Partner(n)
         /\ Busy /\ SameAsManager(cmd[n]) /\ Silent /\ Only(n)
         /\ pc'[n] = "idle" /\ cmd'[n] = NoCommand /\ acc'[n] = 0 /\ pos'[n] = 0
         /\ up'[n] = <<acc[n]>> /\ acc[n] \in Nat /\ \A m \in All : m # n => up'[m] = <<>>
         /\ UNCHANGED <<children, down, tm, fifo, fifos, files, secret, answer, subtree, before>>
  <1>1. /\ pc[n] = "each" /\ n \in Names /\ n # Manager /\ LoopOver(n) /\ cmd[n].op \in {"spawn", "kill", "exchange"}
        /\ cmd[n].op = "kill" => cmd[n].g = 0
        /\ cmd[n].op = "exchange" => ~Partner(n)
    BY TradeTyped DEF Reply
  <1>2. Busy /\ SameAsManager(cmd[n]) /\ Silent /\ acc[n] \in Nat
    BY <1>1, HolderAlone, ServesManager, TradeTyped DEF Holds, Working
  <1>3. /\ pc' = [pc EXCEPT ![n] = "idle"] /\ cmd' = [cmd EXCEPT ![n] = NoCommand]
        /\ pos' = [pos EXCEPT ![n] = 0] /\ acc' = [acc EXCEPT ![n] = 0]
        /\ up' = [up EXCEPT ![n] = Append(<<>>, acc[n])]
        /\ UNCHANGED <<children, down, tm, fifo, fifos, files, secret, answer, subtree, before>>
    BY <1>2 DEF Reply, Rest, Goto, Serve, WriteToParent, trade, history, Silent
  <1>4. /\ Only(n) /\ pc'[n] = "idle" /\ cmd'[n] = NoCommand /\ acc'[n] = 0 /\ pos'[n] = 0
    BY <1>3, Typed DEF Only
  <1>5. up'[n] = <<acc[n]>> /\ \A m \in All : m # n => up'[m] = <<>>
    BY <1>2, <1>3, Typed DEF Silent
  <1> QED
    BY <1>1, <1>2, <1>3, <1>4, <1>5

LEMMA DoesReplyDying ==
  ASSUME ServiceInv, TradeInv, NEW n \in All, ReplyDying(n)
  PROVE  /\ pc[n] = "each" /\ n \in Names /\ n # Manager /\ LoopOver(n) /\ cmd[n].op = "kill" /\ cmd[n].g = 1
         /\ Busy /\ SameAsManager(cmd[n]) /\ Silent /\ Only(n)
         /\ pc'[n] = "exit" /\ up'[n] = <<acc[n] + 1>> /\ acc[n] \in Nat
         /\ \A m \in All : m # n => up'[m] = <<>>
         /\ UNCHANGED <<children, down, cmd, pos, acc, tm, fifo, fifos, files, secret, answer, subtree, before>>
  <1>1. pc[n] = "each" /\ n \in Names /\ n # Manager /\ LoopOver(n) /\ cmd[n].op = "kill" /\ cmd[n].g = 1
    BY TradeTyped DEF ReplyDying
  <1>2. Busy /\ SameAsManager(cmd[n]) /\ Silent /\ acc[n] \in Nat
    BY <1>1, HolderAlone, ServesManager, TradeTyped DEF Holds, Working
  <1>3. /\ pc' = [pc EXCEPT ![n] = "exit"] /\ up' = [up EXCEPT ![n] = Append(<<>>, acc[n] + 1)]
        /\ UNCHANGED <<children, down, cmd, pos, acc, tm, fifo, fifos, files, secret, answer, subtree, before>>
    BY <1>2 DEF ReplyDying, Goto, WriteToParent, locals, trade, history, Silent
  <1>4. Only(n) /\ pc'[n] = "exit"
    BY <1>3, Typed DEF Only
  <1>5. up'[n] = <<acc[n] + 1>> /\ \A m \in All : m # n => up'[m] = <<>>
    BY <1>2, <1>3, Typed DEF Silent
  <1> QED
    BY <1>1, <1>2, <1>3, <1>4, <1>5

LEMMA DoesExit ==
  ASSUME ServiceInv, TradeInv, NEW n \in All, Exit(n)
  PROVE  /\ pc[n] = "exit" /\ n \in Names /\ n # Manager /\ Busy /\ SameAsManager(cmd[n]) /\ cmd[n].op = "kill"
         /\ cmd[n].g = 1 /\ pos[n] >= Len(children[n])
         /\ Only(n) /\ pc'[n] = "zombie" /\ cmd'[n] = NoCommand /\ acc'[n] = 0 /\ pos'[n] = 0
         /\ children'[n] = <<>> /\ \A m \in All : m # n => children'[m] = children[m]
         /\ UNCHANGED <<down, up, tm, fifo, fifos, files, answer, subtree, before>>
  <1>1. /\ pc[n] = "exit" /\ n \in Names /\ n # Manager /\ Busy /\ SameAsManager(cmd[n]) /\ cmd[n].op = "kill"
        /\ cmd[n].g = 1 /\ pos[n] >= Len(children[n])
    BY TradeTyped, ServesManager DEF Exit, Placed, Working
  <1>2. /\ pc' = [pc EXCEPT ![n] = "zombie"] /\ cmd' = [cmd EXCEPT ![n] = NoCommand]
        /\ pos' = [pos EXCEPT ![n] = 0] /\ acc' = [acc EXCEPT ![n] = 0] /\ children' = [children EXCEPT ![n] = <<>>]
        /\ UNCHANGED <<down, up, tm, fifo, fifos, files, answer, subtree, before>>
    BY DEF Exit, Goto, Serve, pipes, trade, history
  <1>3. /\ Only(n) /\ pc'[n] = "zombie" /\ cmd'[n] = NoCommand /\ acc'[n] = 0 /\ pos'[n] = 0
        /\ children'[n] = <<>> /\ \A m \in All : m # n => children'[m] = children[m]
    BY <1>2, Typed DEF Only
  <1> QED
    BY <1>1, <1>2, <1>3

(* The steps of the partners of an exchange: what they leave alone, and    *)
(* where they are.                                                         *)
Aside(n) ==
  /\ pc[n] \in Trading /\ pc'[n] \in (Trading \ {"second", "watch"}) \cup {"idle", "wait"}
  /\ cmd[n].op = "exchange" /\ Partner(n) /\ Only(n) /\ (n # Manager => cmd'[n] \in {cmd[n], NoCommand})
  /\ n = Manager => cmd' = cmd /\ pc'[n] # "idle"
  /\ \A m \in All : up'[m] # <<>> => up'[m] \in {up[m], <<2>>}
  /\ pc[n] \in {"take", "give", "watch", "unfile"} => up' = up
  /\ UNCHANGED <<children, down, fifos, answer, subtree, before>>

LEMMA DoesAside ==
  ASSUME ServiceInv, TradeInv, NEW n \in All,
         ReplySecond(n) \/ Watch(n) \/ Give(n) \/ Take(n) \/ Report(n) \/ Unfile(n)
  PROVE  Aside(n)
  <1>1. pc[n] \in {"second", "watch", "give", "take", "report", "unfile"} /\ cmd[n].op = "exchange" /\ Partner(n)
    BY TradeTyped DEF ReplySecond, Watch, Give, Take, Report, Unfile, Placed
  <1>2. n = Manager => pc[n] \in {"give", "take"} /\ ~Second(n)
    BY <1>1, TradeTyped DEF Placed
  <1>4. UNCHANGED <<children, down, fifos, answer, subtree, before>>
    BY DEF ReplySecond, Watch, Give, Take, Report, Unfile, pipes, locals, trade, history
  <1>5. up' = up \/ up' = [up EXCEPT ![n] = <<2>>]
    <2>1. CASE ReplySecond(n) \/ Report(n)
      <3>1. up' = [up EXCEPT ![n] = Append(up[n], 2)] /\ up[n] = <<>>
        BY <2>1, HolderAlone DEF ReplySecond, Report, WriteToParent, Holds, Silent
      <3> QED
        BY <3>1
    <2>2. CASE ~(ReplySecond(n) \/ Report(n))
      BY <2>2 DEF Watch, Give, Take, Unfile, pipes
    <2> QED
      BY <2>1, <2>2
  <1>6. PICK l : /\ pc' = [pc EXCEPT ![n] = l]
                 /\ l \in {"idle", "take", "give", "unfile", "report", "wait"} /\ (n = Manager => l # "idle")
    BY <1>2 DEF ReplySecond, Watch, Give, Take, Report, Unfile, Goto, Rest
  <1>7. \/ UNCHANGED <<cmd, pos, acc>>
        \/ /\ n # Manager /\ cmd' = [cmd EXCEPT ![n] = NoCommand] /\ pos' = [pos EXCEPT ![n] = 0]
           /\ acc' = [acc EXCEPT ![n] = 0]
    BY <1>2 DEF ReplySecond, Watch, Give, Take, Report, Unfile, Rest, Serve, locals
  <1>8. Only(n) /\ pc'[n] = l /\ (n = Manager => cmd' = cmd) /\ (n # Manager => cmd'[n] \in {cmd[n], NoCommand})
    BY <1>6, <1>7, Typed DEF Only
  <1>9. \A m \in All : up'[m] # <<>> => up'[m] \in {up[m], <<2>>}
    BY <1>5, Typed
  <1>10. pc[n] \in {"take", "give", "watch", "unfile"} => up' = up
    BY DEF ReplySecond, Watch, Give, Take, Report, Unfile, pipes
  <1> QED
    BY <1>1, <1>4, <1>6, <1>8, <1>9, <1>10 DEF Aside, Trading

LEMMA DoesReplyPartner ==
  ASSUME ServiceInv, TradeInv, NEW n \in All, ReplyPartner(n)
  PROVE  /\ pc[n] = "each" /\ n \in Names /\ n # Manager /\ LoopOver(n) /\ cmd[n].op = "exchange" /\ Partner(n)
         /\ Busy /\ SameAsManager(cmd[n]) /\ Silent /\ Only(n) /\ acc[n] \in Nat
         /\ IF acc[n] = 2 THEN pc'[n] = "take" /\ up'[n] = <<>> ELSE pc'[n] = "watch" /\ up'[n] = <<acc[n]>>
         /\ \A m \in All : m # n => up'[m] = <<>>
         /\ UNCHANGED <<children, down, cmd, pos, acc, tm, fifo, fifos, files, secret, answer, subtree, before>>
  <1>1. pc[n] = "each" /\ n \in Names /\ n # Manager /\ LoopOver(n) /\ cmd[n].op = "exchange" /\ Partner(n)
    BY TradeTyped DEF ReplyPartner
  <1>2. Busy /\ SameAsManager(cmd[n]) /\ Silent /\ acc[n] \in Nat
    BY <1>1, HolderAlone, ServesManager, TradeTyped DEF Holds, Working
  <1>3. /\ pc' = [pc EXCEPT ![n] = IF acc[n] = 2 THEN "take" ELSE "watch"]
        /\ up' = IF acc[n] = 2 THEN up ELSE [up EXCEPT ![n] = Append(<<>>, acc[n])]
        /\ UNCHANGED <<children, down, cmd, pos, acc, tm, fifo, fifos, files, secret, answer, subtree, before>>
    BY <1>2 DEF ReplyPartner, Goto, WriteToParent, locals, trade, history, Silent
  <1>4. Only(n) /\ pc'[n] = IF acc[n] = 2 THEN "take" ELSE "watch"
    BY <1>3, Typed DEF Only
  <1>5. /\ \A m \in All : m # n => up'[m] = <<>>
        /\ up'[n] = IF acc[n] = 2 THEN <<>> ELSE <<acc[n]>>
    BY <1>2, <1>3, Typed DEF Silent
  <1> QED
    BY <1>1, <1>2, <1>3, <1>4, <1>5

LEMMA DoesEndExchange ==
  ASSUME ServiceInv, TradeInv, EndExchange
  PROVE  /\ pc[Manager] = "wait" /\ Busy /\ cmd[Manager].op = "exchange" /\ Silent /\ Manager \in All
         /\ Partner(Manager) \/ files \cap {cmd[Manager].a, cmd[Manager].b} = {}
         /\ Only(Manager) /\ pc'[Manager] = "idle" /\ answer'.told = "exchanged"
         /\ \A m \in Names : pc[m] \notin Working \cup {"boot", "zombie"}
         /\ UNCHANGED <<children, down, up, cmd, pos, acc, tm, fifo, files, secret, subtree, before>>
  <1>1. /\ pc[Manager] = "wait" /\ Busy /\ cmd[Manager].op = "exchange" /\ Manager \in All
        /\ Partner(Manager) \/ files \cap {cmd[Manager].a, cmd[Manager].b} = {}
    BY TradeTyped DEF EndExchange, Placed, Busy, All
  <1>2. /\ pc' = [pc EXCEPT ![Manager] = "idle"] /\ answer'.told = "exchanged"
        /\ UNCHANGED <<children, down, up, cmd, pos, acc, tm, fifo, files, secret, subtree, before>>
    BY DEF EndExchange, Goto, Tell, pipes, locals, history
  <1>3. Only(Manager) /\ pc'[Manager] = "idle"
    BY <1>1, <1>2, Typed DEF Only
  <1>4. Silent /\ \A m \in Names : pc[m] \notin Working \cup {"boot", "zombie"}
    BY <1>1, ManagerHolds DEF Silent
  <1> QED
    BY <1>1, <1>2, <1>3, <1>4

LEMMA DoesConclude ==
  ASSUME ServiceInv, TradeInv, NEW c, c = cmd[Manager], Conclude
  PROVE  /\ pc[Manager] = "each" /\ Manager \in All /\ LoopOver(Manager) /\ Silent /\ Only(Manager) /\ acc[Manager] \in Nat
         /\ \A m \in Names : pc[m] \notin Working \cup {"boot", "zombie"}
         /\ \/ /\ c.op = "spawn" /\ pc'[Manager] = "idle"
               /\ answer'.told = IF acc[Manager] = 1 THEN "spawned" ELSE "missing"
            \/ /\ c.op = "kill" /\ c.g = 0 /\ pc'[Manager] = "idle"
               /\ IF acc[Manager] = 0 THEN answer'.told = "missing"
                  ELSE answer' = [told |-> "killed", count |-> acc[Manager] - 1]
            \/ /\ c.op = "kill" /\ c.g = 1 /\ pc'[Manager] = "gone"
               /\ answer' = [told |-> "killed", count |-> acc[Manager]]
            \/ /\ c.op = "exchange" /\ answer' = answer
               /\ pc'[Manager] = IF Partner(Manager) THEN "take" ELSE "wait"
         /\ IF pc'[Manager] = "gone"
            THEN children'[Manager] = <<>> /\ \A m \in All : m # Manager => children'[m] = children[m]
            ELSE children' = children
         /\ UNCHANGED <<down, up, cmd, pos, acc, tm, fifo, fifos, files, secret, subtree, before>>
  <1>1. /\ pc[Manager] = "each" /\ Manager \in All /\ LoopOver(Manager) /\ Conclusion /\ acc[Manager] \in Nat
    BY TradeTyped DEF Conclude, All
  <1>2. Silent /\ \A m \in Names : pc[m] \notin Working \cup {"boot", "zombie"}
    BY <1>1, ManagerHolds DEF Silent
  <1>3. PICK l : /\ pc' = [pc EXCEPT ![Manager] = l]
                 /\ \/ /\ c.op = "spawn" /\ l = "idle"
                       /\ answer'.told = IF acc[Manager] = 1 THEN "spawned" ELSE "missing"
                    \/ /\ c.op = "kill" /\ c.g = 0 /\ l = "idle"
                       /\ IF acc[Manager] = 0 THEN answer'.told = "missing"
                          ELSE answer' = [told |-> "killed", count |-> acc[Manager] - 1]
                    \/ /\ c.op = "kill" /\ c.g = 1 /\ l = "gone"
                       /\ answer' = [told |-> "killed", count |-> acc[Manager]]
                    \/ /\ c.op = "exchange" /\ answer' = answer
                       /\ l = IF Partner(Manager) THEN "take" ELSE "wait"
    <2> DEFINE To(l) == pc' = [pc EXCEPT ![Manager] = l]
    <2>1. CASE c.op = "spawn"
      <3>1. To("idle") /\ answer'.told = IF acc[Manager] = 1 THEN "spawned" ELSE "missing"
        BY <1>1, <2>1 DEF Conclusion, Goto, Tell
      <3> QED
        BY <2>1, <3>1
    <2>2. CASE c.op = "kill" /\ c.g = 0
      <3>1. /\ To("idle")
            /\ IF acc[Manager] = 0 THEN answer'.told = "missing"
               ELSE answer' = [told |-> "killed", count |-> acc[Manager] - 1]
        BY <1>1, <2>2 DEF Conclusion, Goto, Tell
      <3> QED
        BY <2>2, <3>1
    <2>3. CASE c.op = "kill" /\ c.g = 1
      <3>1. To("gone") /\ answer' = [told |-> "killed", count |-> acc[Manager]]
        BY <1>1, <2>3 DEF Conclusion, Goto, Tell
      <3> QED
        BY <2>3, <3>1
    <2>4. CASE c.op = "exchange"
      <3>1. To(IF Partner(Manager) THEN "take" ELSE "wait") /\ answer' = answer
        BY <1>1, <2>4 DEF Conclusion, Goto
      <3> QED
        BY <2>4, <3>1
    <2> QED
      BY <1>1, <2>1, <2>2, <2>3, <2>4 DEF Conclusion
  <1>4. Only(Manager) /\ pc'[Manager] = l /\ UNCHANGED <<cmd, pos, acc>>
    <2>1. UNCHANGED <<cmd, pos, acc>>
      BY DEF Conclude, locals
    <2> QED
      BY <1>1, <1>3, <2>1, Typed DEF Only
  <1>5. IF l = "gone" THEN children'[Manager] = <<>> /\ \A m \in All : m # Manager => children'[m] = children[m]
        ELSE children' = children
    BY <1>1, <1>4, Typed DEF Conclude
  <1>6. UNCHANGED <<down, up, cmd, pos, acc, tm, fifo, fifos, files, secret, subtree, before>>
    BY DEF Conclude, pipes, locals, trade, history
  <1> QED
    BY <1>1, <1>2, <1>3, <1>4, <1>5, <1>6

(* The Manager has read a command.                                         *)
Issued(op, a, b, g) ==
  /\ g = IF Manager \in {a, b} /\ op # "spawn" THEN 1 ELSE 0
  /\ pc[Manager] = "idle" /\ Manager \in All /\ Silent /\ Only(Manager)
  /\ \A m \in Names : pc[m] \notin Working \cup {"boot", "zombie"}
  /\ MayIssue(Command(op, a, b, g)) /\ op \in {"spawn", "kill", "exchange"}
  /\ cmd'[Manager] = Command(op, a, b, g) /\ pos'[Manager] = 0
  /\ acc'[Manager] = IF op = "exchange" THEN g ELSE 0
  /\ pc'[Manager] = IF op = "spawn" /\ a = Manager THEN "fork" ELSE "each"
  /\ subtree' = [n \in All |-> IF op = "kill" /\ Alive(n) THEN Below({n}) ELSE {}]
  /\ before' = IF op = "exchange" THEN [n \in All |-> SecretOf(n)] ELSE [n \in All |-> n]
  /\ UNCHANGED <<children, secret, down, up, tm, fifo, files>>

LEMMA DoesIssue ==
  ASSUME ServiceInv, TradeInv, Issue
  PROVE  \E op \in Ops, a, b \in All, g \in {0, 1} : Issued(op, a, b, g)
  <1>1. pc[Manager] = "idle" /\ Manager \in All
    BY DEF Issue, All
  <1>2. Silent /\ \A m \in Names : pc[m] \notin Working \cup {"boot", "zombie"}
    BY <1>1, ManagerHolds DEF Silent
  <1>3. PICK op \in Ops, a \in All, b \in All :
          LET g == IF Manager \in {a, b} /\ op # "spawn" THEN 1 ELSE 0
          IN  /\ MayIssue(Command(op, a, b, g))
              /\ Serve(Manager, Command(op, a, b, g), IF op = "exchange" THEN g ELSE 0)
              /\ Goto(Manager, IF op = "spawn" /\ a = Manager THEN "fork" ELSE "each")
              /\ subtree' = [n \in All |-> IF op = "kill" /\ Alive(n) THEN Below({n}) ELSE {}]
              /\ before' = IF op = "exchange" THEN [n \in All |-> SecretOf(n)] ELSE [n \in All |-> n]
    BY DEF Issue
  <1> DEFINE g == IF Manager \in {a, b} /\ op # "spawn" THEN 1 ELSE 0
             l == IF op = "spawn" /\ a = Manager THEN "fork" ELSE "each"
             k == IF op = "exchange" THEN g ELSE 0
             c == Command(op, a, b, g)
  <1>4. /\ pc' = [pc EXCEPT ![Manager] = l] /\ cmd' = [cmd EXCEPT ![Manager] = c]
        /\ pos' = [pos EXCEPT ![Manager] = 0] /\ acc' = [acc EXCEPT ![Manager] = k]
    BY <1>3 DEF Serve, Goto
  <1>5. UNCHANGED <<children, secret, down, up, tm, fifo, files>>
    BY DEF Issue, pipes
  <1> HIDE DEF l, k, c
  <1>6. Only(Manager) /\ pc'[Manager] = l /\ cmd'[Manager] = c /\ pos'[Manager] = 0 /\ acc'[Manager] = k
    BY <1>1, <1>4, Typed DEF Only
  <1>7. op \in {"spawn", "kill", "exchange"}
    BY NamesAssumption
  <1>8. Issued(op, a, b, g)
    BY <1>1, <1>2, <1>3, <1>5, <1>6, <1>7 DEF Issued, l, k, c
  <1>9. g \in {0, 1}
    OBVIOUS
  <1> QED
    BY <1>8, <1>9
-----------------------------------------------------------------------------
(* The search.                                                             *)

(* When the lists only lose nodes, nobody is below more than before.       *)
LEMMA BelowShrinks ==
  ASSUME \A m \in All : Kids(m)' \subseteq Kids(m), NEW S \in SUBSET All
  PROVE  Below(S)' \subseteq Below(S)
  <1>1. \A T \in SUBSET All : Closed(T) => Closed(T)'
    BY DEF Closed
  <1> QED
    BY <1>1 DEF Below

(* Below a process are itself and what is below its children.              *)
LEMMA BelowSplit ==
  ASSUME ServiceInv, NEW n \in All
  PROVE  /\ n \in Below({n}) /\ Below({n}) \subseteq All
         /\ \A k \in Kids(n) : Below({k}) \subseteq Below({n})
         /\ \A x \in Below({n}) : x = n \/ \E k \in Kids(n) : x \in Below({k})
  <1>1. n \in Below({n}) /\ Below({n}) \subseteq All /\ Closed(Below({n}))
    BY BelowLeast
  <1>2. Kids(n) \subseteq All
    BY KidFacts DEF All
  <1>3. \A k \in Kids(n) : {k} \in SUBSET All /\ {k} \subseteq Below({n})
    BY <1>1, <1>2 DEF Closed
  <1>4. \A k \in Kids(n) : Below({k}) \subseteq Below({n})
    BY <1>3, BelowGrows
  <1>5. \A k \in Kids(n) : k \in Below({k}) /\ Closed(Below({k})) /\ Below({k}) \subseteq All
    BY <1>3, BelowLeast
  <1> DEFINE T == {z \in All : z = n \/ \E k \in Kids(n) : z \in Below({k})}
  <1>6. ASSUME NEW z \in T, NEW y \in Kids(z) PROVE y \in T
    <2>1. y \in All
      BY KidFacts DEF All
    <2>2. CASE z = n
      BY <1>5, <1>6, <2>1, <2>2
    <2>3. CASE z # n
      <3>1. PICK k \in Kids(n) : z \in Below({k})
        BY <1>6, <2>3
      <3>2. y \in Below({k})
        BY <1>5, <1>6, <3>1 DEF Closed
      <3> QED
        BY <2>1, <3>2
    <2> QED
      BY <2>2, <2>3
  <1>7. T \in SUBSET All /\ {n} \subseteq T
    OBVIOUS
  <1> HIDE DEF T
  <1>8. Below({n}) \subseteq T
    BY <1>6, <1>7, BelowLeast DEF Closed
  <1> QED
    BY <1>1, <1>4, <1>8 DEF T

LEMMA UnfoundKept ==
  ASSUME \A m \in All : Kids(m)' \subseteq Kids(m), cmd'[Manager] = cmd[Manager]
  PROVE  Sought' = Sought /\ \A m \in All : Unfound(m) => Unfound(m)'
  <1>1. Sought' = Sought
    BY DEF Sought
  <1>2. \A m \in All : Below({m})' \subseteq Below({m})
    BY BelowShrinks
  <1> QED
    BY <1>1, <1>2 DEF Unfound

LEMMA SearchedStep ==
  ASSUME ServiceInv', Searched, NEW n \in All, Sought' = Sought,
         \A m \in All : Unfound(m) => Unfound(m)',
         \A m \in All : m # n /\ EmptyHanded(m)' =>
           EmptyHanded(m) /\ pos'[m] = pos[m] /\ children'[m] = children[m],
         EmptyHanded(n)' =>
           n \notin Sought /\ \A i \in 1 .. Len(children'[n]) : i <= pos'[n] => Unfound(children'[n][i]),
         \A m \in All : up'[m] # <<>> /\ Head(up'[m]) = 0 => Unfound(m)
  PROVE  Searched'
  <1>1. \A m \in All : \A i \in 1 .. Len(children'[m]) : children'[m][i] \in All
    BY DEF ServiceInv, TypeOK, All
  <1>2. ASSUME NEW m \in All, EmptyHanded(m)', NEW i \in 1 .. Len(children'[m]), i <= pos'[m]
        PROVE  m \notin Sought /\ Unfound(children'[m][i])
    BY <1>2 DEF Searched
  <1>3. ASSUME NEW m \in All, EmptyHanded(m)'
        PROVE  m \notin Sought
    BY <1>3 DEF Searched
  <1> QED
    BY <1>1, <1>2, <1>3 DEF Searched

(* In a command that is no exchange nobody passes one on.                  *)
LEMMA NoLooping ==
  ASSUME ServiceInv, TradeInv, cmd[Manager].op # "exchange", NEW m \in All
  PROVE  ~Looping(m)
  BY ServesManager DEF Looping, Working, SameAsManager

LEMMA CountGrowsNone ==
  ASSUME \A m \in All : ~Looping(m)'
  PROVE  CountGrows'
  BY DEF CountGrows

(* A partner has counted itself.                                           *)
LEMMA PartnerCounted ==
  ASSUME ServiceInv, TradeInv, SearchInv, NEW n \in All, Looping(n), n \in Sought
  PROVE  acc[n] # 0
  <1>1. ~Dying(n)
    BY DEF Looping, Dying
  <1> QED
    BY <1>1 DEF SearchInv, Searched, EmptyHanded, Looping

LEMMA SearchReceive ==
  ASSUME ServiceInv, ServiceInv', TradeInv, SearchInv, NEW n \in All, NEW c, c = Head(down[n]), Receive(n)
  PROVE  SearchInv'
  <1>1. /\ n \in Names /\ n # Manager /\ pc[n] = "idle" /\ down[n] # <<>> /\ c \in Commands
        /\ Busy /\ SameAsManager(c) /\ Only(n) /\ pos'[n] = 0
        /\ \A m \in All : up[m] = <<>> /\ down'[m] = <<>> /\ ~Holds(m)
        /\ UNCHANGED <<children, up>>
    BY DoesReceive
  <1>1a. pc'[n] \in {"fork", "each", "second"} /\ (pc'[n] = "fork" => c.op = "spawn")
    BY DoesReceive
  <1>1b. ASSUME pc'[n] = "each"
         PROVE  /\ cmd'[n].op = c.op /\ cmd'[n].a = c.a /\ acc'[n] \in Nat /\ c.op # "none"
                /\ c.op = "spawn" => c.a # n
                /\ c.op = "kill" => (c.a = n => cmd'[n].g = 1)
                /\ c.op = "exchange" => acc'[n] >= c.g /\ (n \in {c.a, c.b} => acc'[n] # 0)
    <2>1. c.g \in {0, 1}
      BY <1>1, CommandFields
    <2>2. CASE c.op = "spawn"
      BY <1>1b, <2>2, DoesReceive
    <2>3. CASE c.op = "kill"
      BY <1>1b, <2>3, DoesReceive
    <2>4. CASE c.op = "exchange"
      BY <1>1b, <2>1, <2>4, DoesReceive
    <2> QED
      BY <2>2, <2>3, <2>4, DoesReceive
  <1>2. cmd'[Manager] = cmd[Manager] /\ \A m \in All : Kids(m)' \subseteq Kids(m)
    BY <1>1 DEF Only, All, Kids
  <1>3. EmptyHanded(n)' => n \notin Sought
    <2>1. EmptyHanded(n)' => pc'[n] = "each" /\ acc'[n] = 0 /\ ~(c.op = "kill" /\ cmd'[n].g = 1)
      BY <1>1, <1>1a, <1>1b DEF EmptyHanded, Dying
    <2>2. Sought = IF c.op = "exchange" THEN {c.a, c.b} ELSE {c.a}
      BY <1>1 DEF Sought, SameAsManager
    <2>3. c.op \in {"none", "spawn", "kill", "exchange"} /\ (pc'[n] = "each" => c.op # "none")
      BY <1>1, <1>1b, CommandFields
    <2> QED
      BY <1>1, <1>1b, <2>1, <2>2, <2>3
  <1>4. Searched'
    <2>1. \A m \in All : m # n /\ EmptyHanded(m)' =>
            EmptyHanded(m) /\ pos'[m] = pos[m] /\ children'[m] = children[m]
      BY <1>1 DEF Only, EmptyHanded, Dying
    <2>2. \A i \in 1 .. Len(children'[n]) : ~(i <= pos'[n])
      BY <1>1
    <2> QED
      BY <1>1, <1>2, <1>3, <2>1, <2>2, UnfoundKept, SearchedStep DEF SearchInv
  <1>5. DeadCount'
    BY <1>1, <1>1a DEF SearchInv, DeadCount, Only
  <1>6. CountGrows'
    <2>1. \A m \in All : m # n /\ Looping(m)' => Looping(m) /\ acc'[m] = acc[m]
      BY <1>1 DEF Only, Looping
    <2>2. \A m \in All : Looping(m) => acc[m] <= c.g
      BY <1>1 DEF SearchInv, CountGrows
    <2>3. Looping(n)' => acc'[n] >= c.g /\ acc'[n] \in Nat /\ c.g \in {0, 1}
      <3>1. Looping(n)' => pc'[n] = "each" /\ c.op = "exchange"
        BY <1>1, <1>1a, <1>1b DEF Looping
      <3> QED
        BY <1>1, <1>1b, <3>1, CommandFields
    <2>4. \A m \in All : m # n => pc'[m] # "each"
      BY <1>1 DEF Only, Holds
    <2>5. \A m \in All : acc[m] \in Nat
      BY TradeTyped
    <2>6. \A m \in All : Looping(m)' /\ Looping(n)' => acc'[m] <= acc'[n]
      BY <2>1, <2>2, <2>3, <2>5
    <2> QED
      BY <1>1, <2>4, <2>6 DEF CountGrows
  <1> QED
    BY <1>4, <1>5, <1>6 DEF SearchInv

(* The service that spawns is the one sought, so the new one is below       *)
(* nobody under whom it was not found.                                      *)
LEMMA SearchFork ==
  ASSUME ServiceInv, ServiceInv', TradeInv, SearchInv, NEW n \in All, NEW c, c = cmd[n].b, Fork(n)
  PROVE  SearchInv'
  <1>1. /\ pc[n] = "fork" /\ SameAsManager(cmd[n])
        /\ cmd[n].op = "spawn" /\ cmd[n].a = n /\ c \in All /\ c # n /\ c # Manager /\ children[c] = <<>>
        /\ pc'[n] = "hear" /\ pc'[c] = "boot" /\ cmd'[n] = cmd[n]
        /\ \A m \in All : m # n /\ m # c => pc'[m] = pc[m] /\ cmd'[m] = cmd[m] /\ children'[m] = children[m]
        /\ children'[c] = <<>>
        /\ \A m \in All : up'[m] = <<>> /\ down'[m] = <<>>
        /\ UNCHANGED <<pos, acc>>
    BY DoesFork
  <1>2. cmd'[Manager] = cmd[Manager] /\ Sought = {n} /\ Sought' = Sought
    <2>1. Manager \in All /\ cmd'[Manager] = cmd[Manager]
      BY <1>1 DEF All
    <2> QED
      BY <1>1, <2>1 DEF Sought, SameAsManager
  <1>3. ASSUME NEW m \in All, Unfound(m) PROVE Unfound(m)'
    <2> PICK T : T = Below({m})
      OBVIOUS
    <2>1. {m} \subseteq T /\ T \subseteq All /\ Closed(T) /\ n \notin T
      BY <1>2, <1>3, BelowLeast DEF Unfound
    <2>2. \A x \in All : x # n => Kids(x)' \subseteq Kids(x)
      <3>1. \A x \in All : x # n => children'[x] = children[x]
        BY <1>1
      <3> QED
        BY <3>1 DEF Kids
    <2>3. Closed(T)'
      BY <2>1, <2>2 DEF Closed
    <2>4. Below({m})' \subseteq T
      BY <2>1, <2>3 DEF Below
    <2> QED
      BY <1>2, <1>3, <2>4 DEF Unfound
  <1>4. Searched'
    <2>1. \A m \in All : m # n /\ EmptyHanded(m)' =>
            EmptyHanded(m) /\ pos'[m] = pos[m] /\ children'[m] = children[m]
      BY <1>1 DEF EmptyHanded, Dying
    <2>2. ~EmptyHanded(n)'
      BY <1>1 DEF EmptyHanded
    <2> QED
      BY <1>1, <1>2, <1>3, <2>1, <2>2, SearchedStep DEF SearchInv
  <1>5. DeadCount'
    BY <1>1 DEF SearchInv, DeadCount
  <1>6. \A m \in All : Looping(m)' => Looping(m)
    BY <1>1 DEF Looping
  <1>7. CountGrows'
    BY <1>1, <1>6, NoLooping, CountGrowsNone DEF SameAsManager
  <1> QED
    BY <1>4, <1>5, <1>7 DEF SearchInv

(* Steps after which no process is empty-handed that was not before.        *)
LEMMA SearchedKept ==
  ASSUME ServiceInv', Searched, cmd'[Manager] = cmd[Manager],
         \A m \in All : Kids(m)' \subseteq Kids(m),
         \A m \in All : EmptyHanded(m)' =>
           EmptyHanded(m) /\ pos'[m] = pos[m] /\ children'[m] = children[m],
         \A m \in All : up'[m] # <<>> /\ Head(up'[m]) = 0 => Unfound(m)
  PROVE  Searched'
  <1>1. Manager \in All /\ Sought' = Sought /\ \A m \in All : Unfound(m) => Unfound(m)'
    BY UnfoundKept DEF All
  <1>2. EmptyHanded(Manager)' =>
          /\ Manager \notin Sought
          /\ \A i \in 1 .. Len(children'[Manager]) : i <= pos'[Manager] => Unfound(children'[Manager][i])
    BY <1>1 DEF Searched
  <1> QED
    BY <1>1, <1>2, SearchedStep

LEMMA SearchBootHear ==
  ASSUME ServiceInv, ServiceInv', TradeInv, SearchInv, NEW n \in All, Boot(n) \/ Hear(n)
  PROVE  SearchInv'
  <1>1. /\ cmd[Manager].op = "spawn" /\ Only(n) /\ pc'[n] = "idle" /\ UNCHANGED <<children, down>>
        /\ cmd'[Manager] = cmd[Manager]
        /\ \A m \in All : up'[m] # <<>> => up'[m] = <<1>>
    <2>1. CASE Boot(n)
      <3>1. cmd[Manager].op = "spawn"
        BY <2>1, DoesBoot, ServesManager, TradeTyped DEF Working, Placed, SameAsManager
      <3> QED
        BY <2>1, <3>1, DoesBoot
    <2>2. CASE Hear(n)
      <3> DEFINE c == cmd[n].b
      <3>1. /\ cmd[n].op = "spawn" /\ SameAsManager(cmd[n]) /\ Only(n) /\ pc'[n] = "idle" /\ children' = children
            /\ down' = down /\ \A m \in All : m # n => up'[m] = <<>>
            /\ up'[n] # <<>> => up'[n] = <<1>>
            /\ n = Manager => cmd' = cmd
        BY <2>2, DoesHear
      <3> QED
        BY <3>1, TradeTyped DEF SameAsManager, Only
    <2> QED
      BY <2>1, <2>2
  <1>2. \A m \in All : Kids(m)' = Kids(m)
    BY <1>1 DEF Kids
  <1>3. Searched'
    <2>1. \A m \in All : EmptyHanded(m)' => EmptyHanded(m) /\ pos'[m] = pos[m] /\ children'[m] = children[m]
      BY <1>1 DEF EmptyHanded, Dying, Only
    <2>2. \A m \in All : up'[m] # <<>> => Head(up'[m]) # 0
      BY <1>1
    <2> QED
      BY <1>1, <1>2, <2>1, <2>2, SearchedKept DEF SearchInv
  <1>4. DeadCount'
    BY <1>1 DEF SearchInv, DeadCount, Only
  <1>5. \A m \in All : Looping(m)' => Looping(m)
    BY <1>1 DEF Looping, Only
  <1> QED
    BY <1>1, <1>3, <1>4, <1>5, NoLooping, CountGrowsNone DEF SearchInv

LEMMA SearchForward ==
  ASSUME ServiceInv, ServiceInv', TradeInv, SearchInv, NEW n \in All, NEW k, k = Kid(n), Forward(n)
  PROVE  SearchInv'
  <1>1. /\ pc[n] = "each" /\ SameAsManager(cmd[n]) /\ Silent /\ Only(n) /\ pc'[n] = "await"
        /\ down'[k] = <<Sent(n)>> /\ \A m \in All : m # k => down'[m] = <<>>
        /\ UNCHANGED <<children, up, cmd, pos, acc>>
    BY DoesForward
  <1>2. Searched'
    <2>1. \A m \in All : Kids(m)' = Kids(m)
      BY <1>1 DEF Kids
    <2>2. \A m \in All : EmptyHanded(m)' => EmptyHanded(m)
      BY <1>1 DEF EmptyHanded, Dying, Only
    <2> QED
      BY <1>1, <2>1, <2>2, SearchedKept DEF SearchInv, Silent
  <1>3. DeadCount'
    BY <1>1 DEF SearchInv, DeadCount, Only
  <1>4. CountGrows'
    <2>1. CASE cmd[Manager].op = "exchange"
      <3>1. Looping(n) /\ Sent(n).g = acc[n]
        BY <1>1, <2>1, TradeTyped, CommandFields DEF Looping, SameAsManager, Sent, Commands
      <3>2. \A m \in All : Looping(m)' => acc'[m] = acc[m] /\ acc[m] <= acc[n]
        BY <1>1, <3>1 DEF SearchInv, CountGrows, Looping, Only
      <3>3. \A m \in All : up'[m] = <<>> /\ pc'[m] # "each"
        BY <1>1, HolderAlone DEF Silent, Only, Holds
      <3>4. \A m \in All : down'[m] # <<>> => Head(down'[m]) = Sent(n)
        BY <1>1
      <3> QED
        BY <3>1, <3>2, <3>3, <3>4 DEF CountGrows
    <2>2. CASE cmd[Manager].op # "exchange"
      <3>1. \A m \in All : Looping(m)' => Looping(m)
        BY <1>1 DEF Looping, Only
      <3> QED
        BY <2>2, <3>1, NoLooping, CountGrowsNone
    <2> QED
      BY <2>1, <2>2
  <1> QED
    BY <1>2, <1>3, <1>4 DEF SearchInv

(* An answer of zero: nothing was found before, and nothing below the child.*)
LEMMA SearchCollect ==
  ASSUME ServiceInv, ServiceInv', TradeInv, SearchInv, NEW n \in All, NEW k, k = Kid(n), Collect(n)
  PROVE  SearchInv'
  <1> DEFINE reply == Head(up[k])
  <1>1. /\ pc[n] = "await" /\ ~Enough(n) /\ pos[n] < Len(children[n]) /\ ChildOf(n, k)
        /\ SameAsManager(cmd[n]) /\ Only(n) /\ Heard(n, k)
        /\ up[k] # <<>> /\ reply \in Nat
        /\ \A m \in All : down[m] = <<>> /\ up'[m] = <<>> /\ ~Holds(m)
        /\ acc'[n] = NewAcc(n, reply)
        /\ UNCHANGED <<children, down, cmd>>
    BY DoesCollect
  <1>1a. IF Targets(n, k) THEN pc'[n] = "reap" /\ pos'[n] = pos[n] ELSE pc'[n] = "each" /\ pos'[n] = pos[n] + 1
    BY DoesCollect
  <1> HIDE DEF reply
  <1>2. /\ cmd[n].op \in {"spawn", "kill", "exchange"} /\ acc[n] \in Nat /\ pos[n] \in Nat
        /\ cmd[n].op = "spawn" => acc[n] = 0
    <2>1. cmd[n] \in Commands /\ acc[n] \in Nat /\ pos[n] \in Nat /\ Placed(n)
      BY TradeTyped, TypedLoop
    <2>2. cmd[n].op \in {"none", "spawn", "kill", "exchange"}
      BY <2>1, CommandFields
    <2> QED
      BY <1>1, <2>1, <2>2 DEF Placed, Enough
  <1>3. Looping(n) /\ Partner(n) => acc[n] # 0
    BY <1>1, PartnerCounted DEF Sought, Looping, Partner, SameAsManager
  <1>4. cmd[n].op = "exchange" => Looping(n) /\ acc[n] <= reply
    BY <1>1 DEF Looping, SearchInv, CountGrows, reply, ChildOf
  <1>5. NewAcc(n, reply) = 0 => acc[n] = 0 /\ reply = 0
    <2>1. CASE cmd[n].op = "exchange"
      BY <1>1, <1>2, <1>3, <1>4, <2>1 DEF NewAcc
    <2>2. CASE cmd[n].op # "exchange"
      BY <1>1, <1>2, <2>2 DEF NewAcc
    <2> QED
      BY <2>1, <2>2
  <1>6. Searched'
    <2>1. \A m \in All : m # n /\ EmptyHanded(m)' =>
            EmptyHanded(m) /\ pos'[m] = pos[m] /\ children'[m] = children[m]
      BY <1>1 DEF Only, EmptyHanded, Dying
    <2>2. ASSUME EmptyHanded(n)'
          PROVE  n \notin Sought /\ \A i \in 1 .. Len(children'[n]) : i <= pos'[n] => Unfound(children'[n][i])
      <3>1. pc'[n] = "each" /\ pos'[n] = pos[n] + 1 /\ acc'[n] = 0
        BY <1>1a, <2>2 DEF EmptyHanded
      <3>2. acc[n] = 0 /\ reply = 0
        BY <1>1, <1>5, <3>1
      <3>3. EmptyHanded(n)
        BY <1>1, <2>2, <3>1, <3>2 DEF EmptyHanded, Dying
      <3>4. Unfound(k) /\ k = children[n][pos[n] + 1]
        BY <1>1, <3>2 DEF SearchInv, Searched, reply, ChildOf, Kid
      <3>5. n \notin Sought /\ \A i \in 1 .. Len(children[n]) : i <= pos[n] => Unfound(children[n][i])
        BY <3>3 DEF SearchInv, Searched
      <3>6. \A i \in 1 .. Len(children[n]) : i <= pos[n] + 1 => i <= pos[n] \/ i = pos[n] + 1
        BY <1>2
      <3> QED
        BY <1>1, <3>1, <3>4, <3>5, <3>6
    <2>3. Sought' = Sought /\ \A m \in All : Unfound(m) => Unfound(m)'
      BY <1>1, UnfoundKept DEF Kids
    <2> QED
      BY <1>1, <2>1, <2>2, <2>3, SearchedStep DEF SearchInv
  <1>7. DeadCount'
    <2>1. Targets(n, k) => acc'[n] # 0
      <3> SUFFICES ASSUME Targets(n, k) PROVE acc'[n] # 0
        OBVIOUS
      <3>1. reply # 0
        BY <1>1 DEF Heard, SearchInv, DeadCount, reply, ChildOf
      <3> QED
        BY <1>1, <1>5, <3>1
    <2> QED
      BY <1>1, <1>1a, <2>1 DEF SearchInv, DeadCount, Only
  <1>8. CountGrows'
    <2>1. ASSUME NEW m \in All, Looping(m)', Looping(n)' PROVE acc'[m] <= acc'[n]
      <3>1. CASE m = n
        <4>1. acc'[n] \in Nat
          BY DEF ServiceInv, TypeOK
        <4> QED
          BY <3>1, <4>1
      <3>2. CASE m # n
        <4>1. Looping(m) /\ acc'[m] = acc[m]
          BY <1>1, <2>1, <3>2 DEF Only, Looping
        <4>2. acc[m] <= reply /\ acc[m] \in Nat
          BY <1>1, <4>1, TradeTyped DEF SearchInv, CountGrows, reply, ChildOf
        <4>3. cmd[n].op = "exchange"
          BY <1>1, <2>1 DEF Looping
        <4>4. reply <= 2 /\ acc[n] <= reply /\ (Partner(n) => acc[n] >= 1)
          BY <1>1, <1>2, <1>3, <1>4, <4>3 DEF Heard, reply
        <4>5. NewAcc(n, reply) = reply \/ (Partner(n) /\ reply # 2 /\ NewAcc(n, reply) = acc[n])
          BY <4>3 DEF NewAcc
        <4> QED
          BY <1>1, <1>2, <4>1, <4>2, <4>4, <4>5
      <3> QED
        BY <3>1, <3>2
    <2>2. \A m \in All : m # n => pc'[m] # "each"
      BY <1>1 DEF Only, Holds
    <2> QED
      BY <1>1, <2>1, <2>2 DEF CountGrows
  <1> QED
    BY <1>6, <1>7, <1>8 DEF SearchInv

LEMMA SearchReap ==
  ASSUME ServiceInv, ServiceInv', TradeInv, SearchInv, NEW n \in All, NEW k, k = Kid(n), Reap(n)
  PROVE  SearchInv'
  <1>1. /\ pc[n] = "reap" /\ cmd[n].op = "kill" /\ ChildOf(n, k) /\ SameAsManager(cmd[n]) /\ Silent
        /\ pc'[n] = "each" /\ pc'[k] = "none"
        /\ \A m \in All : m # n => pos'[m] = pos[m] /\ children'[m] = children[m] /\ (m # k => pc'[m] = pc[m])
        /\ \A m \in All : Kids(m)' \subseteq Kids(m)
        /\ cmd[n].g = 1 => children' = children
        /\ UNCHANGED <<down, up, cmd, acc>>
    BY DoesReap
  <1>2. acc[n] # 0
    BY <1>1 DEF SearchInv, DeadCount
  <1>3. Searched'
    <2>1. \A m \in All : EmptyHanded(m)' => EmptyHanded(m) /\ pos'[m] = pos[m] /\ children'[m] = children[m]
      BY <1>1, <1>2 DEF EmptyHanded, Dying
    <2> QED
      BY <1>1, <2>1, SearchedKept DEF SearchInv, Silent
  <1>4. DeadCount'
    BY <1>1 DEF SearchInv, DeadCount
  <1>5. \A m \in All : Looping(m)' => Looping(m)
    BY <1>1 DEF Looping
  <1> QED
    BY <1>1, <1>3, <1>4, <1>5, NoLooping, CountGrowsNone DEF SearchInv, SameAsManager

(* Who answers zero has found nobody: it is none of those sought, and       *)
(* nobody of them is below its children.                                    *)
LEMMA UnfoundAtEnd ==
  ASSUME ServiceInv, TradeInv, SearchInv, NEW n \in All, pc[n] = "each", LoopOver(n), acc[n] = 0, ~Dying(n)
  PROVE  Unfound(n)
  <1>1. /\ n \notin Sought
        /\ \A i \in 1 .. Len(children[n]) : i <= pos[n] => Unfound(children[n][i])
    BY DEF SearchInv, Searched, EmptyHanded
  <1>2. pos[n] >= Len(children[n]) /\ pos[n] \in Nat /\ Len(children[n]) \in Nat
    BY TypedLoop DEF LoopOver, Enough
  <1>3. \A k \in Kids(n) : Unfound(k)
    BY <1>1, <1>2 DEF Kids
  <1>4. ASSUME NEW x \in Below({n}), x \in Sought PROVE FALSE
    BY <1>1, <1>3, <1>4, BelowSplit DEF Unfound
  <1> QED
    BY <1>4 DEF Unfound

LEMMA SearchReplies ==
  ASSUME ServiceInv, ServiceInv', TradeInv, SearchInv, NEW n \in All, Reply(n) \/ ReplyPartner(n)
  PROVE  SearchInv'
  <1>1. /\ pc[n] = "each" /\ LoopOver(n) /\ ~Dying(n) /\ SameAsManager(cmd[n]) /\ Silent /\ Only(n) /\ acc[n] \in Nat
        /\ pc'[n] \in {"idle", "take", "watch"} /\ (up'[n] # <<>> => up'[n] = <<acc[n]>>)
        /\ cmd[n].op = "exchange" /\ Partner(n) => acc[n] # 0
        /\ n # Manager /\ \A m \in All : m # n => up'[m] = <<>>
        /\ UNCHANGED <<children, down>>
    <2>1. CASE Reply(n)
      BY <2>1, DoesReply DEF Dying
    <2>2. CASE ReplyPartner(n)
      <3>1. cmd[n].op = "exchange" /\ pc[n] = "each" /\ Partner(n) /\ SameAsManager(cmd[n])
        BY <2>2, DoesReplyPartner
      <3>2. Looping(n) /\ n \in Sought
        BY <3>1 DEF Looping, Sought, SameAsManager, Partner
      <3>3. acc[n] # 0
        BY <3>2, PartnerCounted
      <3> QED
        BY <2>2, <3>1, <3>3, DoesReplyPartner DEF Dying
    <2> QED
      BY <2>1, <2>2
  <1>2. acc[n] = 0 => Unfound(n)
    BY <1>1, UnfoundAtEnd
  <1>3. Searched'
    <2>1. \A m \in All : EmptyHanded(m)' => EmptyHanded(m) /\ pos'[m] = pos[m] /\ children'[m] = children[m]
      BY <1>1 DEF EmptyHanded, Dying, Only
    <2>2. cmd'[Manager] = cmd[Manager] /\ \A m \in All : Kids(m)' = Kids(m)
      BY <1>1, TradeTyped DEF Kids, Only
    <2>3. \A m \in All : up'[m] # <<>> /\ Head(up'[m]) = 0 => Unfound(m)
      BY <1>1, <1>2
    <2> QED
      BY <2>1, <2>2, <2>3, SearchedKept DEF SearchInv
  <1>4. DeadCount'
    BY <1>1 DEF SearchInv, DeadCount, Only, Silent
  <1>5. CountGrows'
    <2>1. \A m \in All : Looping(m)' => Looping(m) /\ acc'[m] = acc[m] /\ pc'[m] = pc[m] /\ m # n
      BY <1>1 DEF Looping, Only
    <2>2. CASE cmd[Manager].op = "exchange"
      <3>1. Looping(n)
        BY <1>1, <2>2 DEF Looping, SameAsManager
      <3>2. \A m \in All : Looping(m)' => acc'[m] <= acc[n]
        BY <1>1, <2>1, <3>1 DEF SearchInv, CountGrows
      <3>3. \A m \in All : m # n => pc'[m] # "each"
        BY <1>1, HolderAlone DEF Only, Holds
      <3>4. \A m \in All : down'[m] = <<>> /\ (up'[m] # <<>> => Head(up'[m]) = acc[n])
        BY <1>1 DEF Silent
      <3> QED
        BY <1>1, <3>2, <3>3, <3>4 DEF CountGrows
    <2>3. CASE cmd[Manager].op # "exchange"
      BY <2>1, <2>3, NoLooping, CountGrowsNone
    <2> QED
      BY <2>2, <2>3
  <1> QED
    BY <1>3, <1>4, <1>5 DEF SearchInv

LEMMA SearchDies ==
  ASSUME ServiceInv, ServiceInv', TradeInv, SearchInv, NEW n \in All, ReplyDying(n) \/ Exit(n)
  PROVE  SearchInv'
  <1>1. /\ pc[n] \in {"each", "exit"} /\ cmd[Manager].op = "kill" /\ Only(n) /\ n # Manager
        /\ pc'[n] \in {"exit", "zombie"} /\ (up'[n] # <<>> => Head(up'[n]) # 0)
        /\ \A m \in All : m # n => up'[m] = <<>> \/ up'[m] = up[m]
        /\ \A m \in All : m # n => children'[m] = children[m]
        /\ Kids(n)' \subseteq Kids(n)
    <2>1. CASE ReplyDying(n)
      <3>1. children' = children /\ up'[n] = <<acc[n] + 1>> /\ acc[n] \in Nat
        BY <2>1, DoesReplyDying
      <3> QED
        BY <2>1, <3>1, DoesReplyDying DEF Kids, SameAsManager
    <2>2. CASE Exit(n)
      <3>1. pc[n] = "exit" /\ up' = up /\ children'[n] = <<>>
        BY <2>2, DoesExit
      <3>2. up'[n] # <<>> => Head(up'[n]) # 0
        BY <3>1 DEF SearchInv, DeadCount
      <3>3. Kids(n)' = {}
        BY <3>1 DEF Kids
      <3> QED
        BY <2>2, <3>1, <3>2, <3>3, DoesExit DEF SameAsManager
    <2> QED
      BY <2>1, <2>2
  <1>2. Searched'
    <2>1. \A m \in All : EmptyHanded(m)' => EmptyHanded(m) /\ pos'[m] = pos[m] /\ children'[m] = children[m]
      BY <1>1 DEF EmptyHanded, Dying, Only
    <2>2. cmd'[Manager] = cmd[Manager]
      BY <1>1, TradeTyped DEF Only
    <2>3. \A m \in All : m # n => Kids(m)' = Kids(m)
      BY <1>1 DEF Kids
    <2>4. \A m \in All : up'[m] # <<>> /\ Head(up'[m]) = 0 => Unfound(m)
      BY <1>1 DEF SearchInv, Searched
    <2> QED
      BY <1>1, <2>1, <2>2, <2>3, <2>4, SearchedKept DEF SearchInv
  <1>3. DeadCount'
    BY <1>1 DEF SearchInv, DeadCount, Only
  <1>4. \A m \in All : Looping(m)' => Looping(m)
    BY <1>1 DEF Looping, Only
  <1> QED
    BY <1>1, <1>2, <1>3, <1>4, NoLooping, CountGrowsNone DEF SearchInv

LEMMA SearchAside ==
  ASSUME ServiceInv, ServiceInv', TradeInv, SearchInv, NEW n \in All, Aside(n)
  PROVE  SearchInv'
  <1>1. /\ Only(n) /\ pc'[n] \notin {"each", "await", "reap", "exit", "zombie"}
        /\ cmd'[Manager] = cmd[Manager] /\ UNCHANGED <<children, down>>
        /\ \A m \in All : up'[m] # <<>> => up'[m] = up[m] \/ Head(up'[m]) = 2
    BY TradeTyped DEF Aside, Only, Trading
  <1>2. Searched'
    <2>1. \A m \in All : EmptyHanded(m)' => EmptyHanded(m) /\ pos'[m] = pos[m] /\ children'[m] = children[m]
      BY <1>1 DEF EmptyHanded, Dying, Only
    <2>2. \A m \in All : up'[m] # <<>> /\ Head(up'[m]) = 0 => Unfound(m)
      BY <1>1 DEF SearchInv, Searched
    <2>3. \A m \in All : Kids(m)' = Kids(m)
      BY <1>1 DEF Kids
    <2> QED
      BY <1>1, <2>1, <2>2, <2>3, SearchedKept DEF SearchInv
  <1>3. DeadCount'
    BY <1>1 DEF SearchInv, DeadCount, Only
  <1>4. CountGrows'
    <2>1. \A m \in All : Looping(m)' => Looping(m) /\ acc'[m] = acc[m] /\ pc'[m] = pc[m]
      BY <1>1 DEF Looping, Only
    <2>2. \A m \in All : Looping(m) => acc[m] <= 2
      BY TradeTyped DEF Looping, Placed
    <2> QED
      BY <1>1, <2>1, <2>2 DEF SearchInv, CountGrows
  <1> QED
    BY <1>2, <1>3, <1>4 DEF SearchInv

LEMMA SearchEnds ==
  ASSUME ServiceInv, ServiceInv', TradeInv, SearchInv, Conclude \/ EndExchange
  PROVE  SearchInv'
  <1>1. /\ Manager \in All /\ Only(Manager) /\ Silent /\ UNCHANGED <<down, up, cmd, pos, acc>>
        /\ pc'[Manager] \in {"idle", "gone", "take", "wait"}
        /\ \A m \in Names : pc[m] \notin Working
    BY DoesConclude, DoesEndExchange
  <1>2. \A m \in All : pc'[m] \notin Working
    BY <1>1 DEF Only, Working, All
  <1>3. Searched'
    BY <1>1, <1>2 DEF Searched, EmptyHanded, Working, Silent
  <1>4. DeadCount'
    BY <1>1, <1>2 DEF DeadCount, Working, Silent
  <1>5. CountGrows'
    BY <1>2 DEF CountGrows, Looping, Working
  <1> QED
    BY <1>3, <1>4, <1>5 DEF SearchInv

LEMMA SearchIssue ==
  ASSUME ServiceInv, TradeInv, SearchInv, Issue
  PROVE  SearchInv'
  <1>0. PICK op \in Ops, a \in All, b \in All, g \in {0, 1} : Issued(op, a, b, g)
    BY DoesIssue
  <1>1. /\ g = IF Manager \in {a, b} /\ op # "spawn" THEN 1 ELSE 0
        /\ pc[Manager] = "idle" /\ Manager \in All /\ Silent /\ Only(Manager)
        /\ \A m \in Names : pc[m] \notin Working \cup {"boot", "zombie"}
        /\ MayIssue(Command(op, a, b, g)) /\ op \in {"spawn", "kill", "exchange"}
        /\ cmd'[Manager] = Command(op, a, b, g) /\ pos'[Manager] = 0
        /\ acc'[Manager] = IF op = "exchange" THEN g ELSE 0
        /\ pc'[Manager] = IF op = "spawn" /\ a = Manager THEN "fork" ELSE "each"
        /\ UNCHANGED <<children, down, up>>
    BY <1>0 DEF Issued
  <1>2. cmd'[Manager].op = op /\ cmd'[Manager].a = a /\ cmd'[Manager].b = b /\ cmd'[Manager].g = g
    BY <1>1 DEF Command
  <1>3. \A m \in All : m # Manager => pc'[m] \notin Working \cup {"zombie"}
    BY <1>1 DEF Only, All
  <1>4. EmptyHanded(Manager)' => Manager \notin Sought'
    <2>1. EmptyHanded(Manager)' => acc'[Manager] = 0 /\ pc'[Manager] = "each" /\ ~(op = "kill" /\ g = 1)
      BY <1>1, <1>2 DEF EmptyHanded, Dying
    <2>2. op = "kill" => a = b
      BY <1>1 DEF MayIssue, Command
    <2>3. Sought' = IF op = "exchange" THEN {a, b} ELSE {a}
      BY <1>2 DEF Sought
    <2> QED
      BY <1>1, <2>1, <2>2, <2>3
  <1>5. \A m \in All : EmptyHanded(m)' => m = Manager
    BY <1>3 DEF EmptyHanded, Working
  <1>6. Searched'
    <2>1. \A i \in 1 .. Len(children'[Manager]) : ~(i <= pos'[Manager])
      BY <1>1
    <2> QED
      BY <1>1, <1>4, <1>5, <2>1 DEF Searched, Silent
  <1>7. DeadCount'
    BY <1>1, <1>3 DEF DeadCount, Working, Silent
  <1>8. \A m \in All : Looping(m)' => m = Manager
    BY <1>3 DEF Looping, Working
  <1>9. CountGrows'
    <2>1. acc'[Manager] <= acc'[Manager]
      BY <1>1
    <2> QED
      BY <1>1, <1>8, <2>1 DEF CountGrows, Silent
  <1> QED
    BY <1>6, <1>7, <1>9 DEF SearchInv

LEMMA SearchStutter ==
  ASSUME SearchInv, UNCHANGED vars
  PROVE  SearchInv'
  <1>1. UNCHANGED <<pc, cmd, pos, acc, down, up, children>>
    BY DEF vars, pipes, locals
  <1>2. Sought' = Sought /\ \A m \in All : (Unfound(m)' <=> Unfound(m)) /\ (EmptyHanded(m)' <=> EmptyHanded(m))
    BY <1>1 DEF Sought, Unfound, Below, Closed, Kids, EmptyHanded, Dying
  <1>3. Searched'
    <2>1. \A m \in All : \A i \in 1 .. Len(children[m]) : Unfound(children[m][i])' <=> Unfound(children[m][i])
      BY <1>1 DEF Sought, Unfound, Below, Closed, Kids
    <2> QED
      BY <1>1, <1>2, <2>1 DEF SearchInv, Searched
  <1>4. DeadCount' /\ CountGrows'
    BY <1>1 DEF SearchInv, DeadCount, CountGrows, Looping
  <1> QED
    BY <1>3, <1>4 DEF SearchInv

LEMMA SearchInit == Init => SearchInv
  <1> SUFFICES ASSUME Init PROVE SearchInv
    OBVIOUS
  <1>1. \A n \in All : pc[n] \in {"idle", "none"} /\ up[n] = <<>>
    BY DEF Init
  <1> QED
    BY <1>1 DEF SearchInv, Searched, EmptyHanded, DeadCount, CountGrows, Looping

LEMMA SearchNext ==
  ASSUME ServiceInv, ServiceInv', TradeInv, SearchInv, NEW n \in All, Step(n)
  PROVE  SearchInv'
  <1>1. CASE Receive(n) \/ Fork(n) \/ Boot(n) \/ Hear(n)
    BY <1>1, SearchReceive, SearchFork, SearchBootHear
  <1>2. CASE Forward(n) \/ Collect(n) \/ Reap(n)
    BY <1>2, SearchForward, SearchCollect, SearchReap
  <1>3. CASE Reply(n) \/ ReplyPartner(n) \/ ReplyDying(n) \/ Exit(n)
    BY <1>3, SearchReplies, SearchDies
  <1>4. CASE ReplySecond(n) \/ Watch(n) \/ Give(n) \/ Take(n) \/ Report(n) \/ Unfile(n)
    BY <1>4, DoesAside, SearchAside
  <1>5. CASE n = Manager /\ (Conclude \/ EndExchange)
    BY <1>5, SearchEnds
  <1> QED
    BY <1>1, <1>2, <1>3, <1>4, <1>5 DEF Step

(* The search is right: who answers zero has nobody the command is about    *)
(* below it.                                                                *)
THEOREM SearchInvariance == Spec => [](ServiceInv /\ TradeInv /\ SearchInv)
  <1>1. ASSUME ServiceInv, ServiceInv', TradeInv, SearchInv, [Next]_vars PROVE SearchInv'
    BY <1>1, SearchIssue, SearchNext, SearchStutter DEF Next
  <1> QED
    BY <1>1, SearchInit, TradeInvariance, PTL DEF Spec
=============================================================================
