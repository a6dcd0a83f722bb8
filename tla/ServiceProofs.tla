--------------------------- MODULE ServiceProofs ----------------------------
(***************************************************************************)
(* For any names, any commands and any tree: a command is under way in one *)
(* place at a time, everybody on its way is waited for by its parent, and  *)
(* so the lists of the living processes always form a tree.                *)
(***************************************************************************)
EXTENDS Service, FiniteSetTheorems, FunctionTheorems, SequenceTheorems, TLAPS

USE NamesAssumption
-----------------------------------------------------------------------------
(* Facts about the lists.                                                  *)

LEMMA KidFacts ==
  ASSUME ServiceInv, NEW p \in All
  PROVE  /\ Kids(p) \subseteq Names
         /\ p \notin Kids(p)
         /\ \A q \in All : \A k : k \in Kids(p) /\ k \in Kids(q) => p = q
         /\ pos[p] \in Nat
         /\ pos[p] < Len(children[p]) => Kid(p) \in Kids(p) /\ Kid(p) \in Names /\ Kid(p) # p
  <1>1. children[p] \in Seq(Names) /\ Len(children[p]) \in Nat /\ pos[p] \in Nat
    BY DEF ServiceInv, TypeOK
  <1>2. \A i \in 1 .. Len(children[p]) : children[p][i] \in Names
    BY <1>1
  <1>3. Kids(p) \subseteq Names
    BY <1>2 DEF Kids
  <1>4. ASSUME p \in Kids(p) PROVE FALSE
    <2>1. p \in Names
      BY <1>3, <1>4
    <2>2. {p} \in SUBSET Names /\ \A n \in {p} : \E q \in {p} : n \in Kids(q)
      BY <1>4, <2>1
    <2>3. Acyclic
      BY DEF ServiceInv
    <2> DEFINE S == {p}
    <2>4. S # {}
      OBVIOUS
    <2>5. S \in SUBSET Names /\ \A n \in S : \E q \in S : n \in Kids(q)
      BY <2>2
    <2> HIDE DEF S
    <2> QED
      BY <2>3, <2>4, <2>5 DEF Acyclic
  <1>5. \A q \in All : \A k : k \in Kids(p) /\ k \in Kids(q) => p = q
    BY DEF ServiceInv, OneParent, Kids
  <1>6. pos[p] < Len(children[p]) => Kid(p) \in Kids(p)
    <2>1. pos[p] < Len(children[p]) => pos[p] + 1 \in 1 .. Len(children[p])
      BY <1>1
    <2> QED
      BY <2>1 DEF Kids, Kid
  <1> QED
    BY <1>1, <1>3, <1>4, <1>5, <1>6

(* What is said of a process speaks of its own variables.                  *)
LEMMA PlacedKept ==
  ASSUME NEW m \in All, Placed(m), children'[m] = children[m],
         pc'[m] = pc[m], cmd'[m] = cmd[m], pos'[m] = pos[m], acc'[m] = acc[m],
         down'[m] = down[m], up'[m] = up[m]
  PROVE  Placed(m)'
  <1>1. /\ (Second(m)' <=> Second(m)) /\ (LoopOver(m)' <=> LoopOver(m))
        /\ (Partner(m)' <=> Partner(m)) /\ Kids(m)' = Kids(m)
    BY DEF Second, LoopOver, Enough, Partner, Kids
  <1> QED
    BY <1>1 DEF Placed

(* What a parent knows of a child speaks of these two, but for the name of *)
(* a service that was not found.                                           *)
LEMMA HeardKept ==
  ASSUME NEW p \in All, NEW k \in All, Heard(p, k),
         pc'[p] = pc[p], cmd'[p] = cmd[p], acc'[p] = acc[p],
         pc'[k] = pc[k], cmd'[k] = cmd[k], acc'[k] = acc[k],
         down'[k] = down[k], up'[k] = up[k],
         up[k] = <<>> \/ \A j : Fresh(j) => Fresh(j)'
  PROVE  Heard(p, k)'
  <1>1. /\ (Holds(k)' <=> Holds(k)) /\ (Targets(p, k)' <=> Targets(p, k))
        /\ Sent(p)' = Sent(p) /\ (SameCommand(p, k)' <=> SameCommand(p, k))
    BY DEF Holds, Targets, Sent, SameCommand
  <1> QED
    BY <1>1 DEF Heard

(* Who waits for a service is its parent.                                  *)
LEMMA WaitsForKid ==
  ASSUME ServiceInv, NEW p \in All, NEW k, Waits(p, k)
  PROVE  k \in Kids(p) /\ k \in Names /\ k # p
  <1>1. Placed(p) /\ pos[p] \in Nat /\ Len(children[p]) \in Nat
    BY DEF ServiceInv, TypeOK
  <1>2. pc[p] = "hear" => cmd[p].b \in Kids(p)
    BY <1>1 DEF Placed
  <1>3. pc[p] \in {"await", "reap"} => pos[p] < Len(children[p])
    BY <1>1 DEF Placed, LoopOver
  <1> QED
    BY <1>2, <1>3, KidFacts DEF Waits

(* The parent of one that is engaged waits for it, and nobody else does.   *)
LEMMA EngagedParent ==
  ASSUME ServiceInv, NEW p \in All, NEW k \in Kids(p), Engaged(k)
  PROVE  Waits(p, k) /\ pc[p] \in {"hear", "await", "reap"} /\ Heard(p, k)
  <1>1. k \in Names
    BY KidFacts
  <1>2. PICK q \in All : k \in Kids(q) /\ Waits(q, k)
    BY <1>1 DEF ServiceInv, Supervised
  <1>3. q = p
    BY <1>2, KidFacts
  <1> QED
    BY <1>1, <1>2, <1>3 DEF ServiceInv, ChainHeard, Waits

(* While the Manager waits for nobody, nobody works on a command.          *)
LEMMA NobodyEngaged ==
  ASSUME ServiceInv, pc[Manager] \notin {"hear", "await", "reap"}
  PROVE  \A k \in Names : ~Engaged(k)
  <1> DEFINE S == {k \in Names : Engaged(k)}
  <1>1. ASSUME NEW k \in S PROVE \E p \in S : k \in Kids(p)
    <2>1. PICK p \in All : k \in Kids(p) /\ Waits(p, k)
      BY <1>1 DEF ServiceInv, Supervised
    <2>2. pc[p] \in {"hear", "await", "reap"}
      BY <2>1 DEF Waits
    <2>3. p # Manager /\ Engaged(p)
      BY <2>2 DEF Engaged, Holds
    <2> QED
      BY <2>1, <2>3 DEF All
  <1>2. S = {}
    <2>1. S \in SUBSET Names
      OBVIOUS
    <2> HIDE DEF S
    <2> QED
      BY <1>1, <2>1 DEF ServiceInv, Acyclic
  <1> QED
    BY <1>2

-----------------------------------------------------------------------------
(* Steps that leave the lists alone.                                       *)

SameLists == /\ children' = children
             /\ \A m \in All : pc'[m] = "none" <=> pc[m] = "none"

LEMMA ListsKept ==
  ASSUME ServiceInv, SameLists
  PROVE  /\ OneParent' /\ Rooted' /\ Acyclic'
         /\ \A m \in All : Kids(m)' = Kids(m)
         /\ \A c : Fresh(c) => Fresh(c)'
  <1>1. \A m : Kids(m)' = Kids(m)
    BY DEF SameLists, Kids
  <1>2. OneParent' /\ Acyclic'
    BY <1>1 DEF ServiceInv, OneParent, Acyclic, SameLists
  <1>3. Rooted'
    BY <1>1 DEF ServiceInv, Rooted, SameLists, All
  <1>4. \A c : Fresh(c) => Fresh(c)'
    BY <1>1 DEF Fresh, SameLists, All
  <1> QED
    BY <1>1, <1>2, <1>3, <1>4
-----------------------------------------------------------------------------
(* A pipe with a message holds that message alone.                         *)
LEMMA OneMessage ==
  ASSUME NEW S, NEW s \in Seq(S), Len(s) <= 1, s # <<>>
  PROVE  Head(s) \in S /\ Tail(s) = <<>> /\ s = <<Head(s)>>
  <1>1. /\ \A k \in Nat \ {0} : k <= 1 => k = 1
        /\ 0 \notin Nat \ {0}
    OBVIOUS
  <1>2. Len(s) = 1
    BY <1>1, EmptySeq, Zenon
  <1>3. Head(s) \in S /\ Tail(s) \in Seq(S) /\ Len(Tail(s)) = Len(s) - 1
    BY HeadTailProperties, Zenon
  <1>4. Len(Tail(s)) = 0
    BY <1>2, <1>3
  <1>5. Tail(s) = <<>>
    BY <1>1, <1>3, <1>4, EmptySeq, Zenon
  <1>6. s[1] = Head(s)
    BY <1>2
  <1>7. <<Head(s)>> \in Seq(S) /\ Len(<<Head(s)>>) = 1 /\ <<Head(s)>>[1] = Head(s)
    BY <1>3
  <1>8. \A i \in 1 .. Len(s) : s[i] = <<Head(s)>>[i]
    BY <1>2, <1>6, <1>7
  <1>9. s = <<Head(s)>>
    BY <1>2, <1>7, <1>8, SeqEqual, Zenon
  <1> QED
    BY <1>3, <1>5, <1>9

LEMMA Pipes ==
  ASSUME ServiceInv, NEW n \in All
  PROVE  /\ up[n] # <<>> => Head(up[n]) \in Nat /\ Tail(up[n]) = <<>> /\ up[n] = <<Head(up[n])>>
         /\ down[n] # <<>> => Head(down[n]) \in Commands /\ Tail(down[n]) = <<>> /\ down[n] = <<Head(down[n])>>
         /\ fifo[n] # <<>> => fifo[n][1] \in All
  <1>1. /\ up[n] \in Seq(Nat) /\ Len(up[n]) <= 1
        /\ down[n] \in Seq(Commands) /\ Len(down[n]) <= 1
        /\ fifo[n] \in Seq(All) /\ Len(fifo[n]) <= 1
    BY DEF ServiceInv, TypeOK
  <1>2. fifo[n] # <<>> => fifo[n][1] \in All
    BY <1>1
  <1> QED
    BY <1>1, <1>2, OneMessage

LEMMA NoCommandTyped == NoCommand \in Commands
  BY DEF NoCommand, Command, Commands, All

LEMMA DeadKept ==
  ASSUME ServiceInv, SameLists,
         \A m \in All : (Dying(m)' <=> Dying(m)) /\ (Dying(m) => pos'[m] = pos[m])
  PROVE  DeadKids'
  <1>1. \A p \in All : \A i \in 1 .. Len(children[p]) : children[p][i] \in All
    BY DEF ServiceInv, TypeOK, All
  <1> QED
    BY <1>1 DEF ServiceInv, DeadKids, SameLists
-----------------------------------------------------------------------------
LEMMA InvBoot ==
  ASSUME ServiceInv, NEW n \in All, Boot(n)
  PROVE  ServiceInv'
  <1>1. /\ pc[n] = "boot" /\ n # Manager /\ n \in Names /\ children[n] = <<>> /\ up[n] = <<>>
        /\ \A m \in All : down[m] = <<>> /\ up[m] = <<>> /\ (Holds(m) => m = n)
    BY DEF ServiceInv, Placed, Boot, All, OnePlace, Holds
  <1>2. /\ pc' = [pc EXCEPT ![n] = "idle"] /\ up' = [up EXCEPT ![n] = <<1>>]
        /\ UNCHANGED <<children, secret, down, cmd, pos, acc, tm, fifo, fifos, files, answer, subtree, before>>
    BY <1>1 DEF Boot, Goto, WriteToParent, locals, trade, history, TypeOK, ServiceInv
  <1>3. TypeOK'
    BY <1>2 DEF ServiceInv, TypeOK, Labels
  <1>4. /\ pc'[n] = "idle" /\ up'[n] = <<1>>
        /\ \A m \in All : m # n => pc'[m] = pc[m] /\ up'[m] = up[m]
    BY <1>2 DEF ServiceInv, TypeOK
  <1>5. SameLists
    BY <1>1, <1>2, <1>4 DEF SameLists
  <1>6. /\ OneParent' /\ Rooted' /\ Acyclic'
        /\ \A m \in All : Kids(m)' = Kids(m)
        /\ \A c : Fresh(c) => Fresh(c)'
    BY <1>5, ListsKept
  <1>7. \A m \in All : Placed(m)'
    BY <1>1, <1>2, <1>4, <1>6 DEF ServiceInv, Placed, LoopOver, Enough, Second, Partner
  <1>8. DeadKids'
    BY <1>1, <1>2, <1>4, <1>5 DEF ServiceInv, DeadKids, Dying, SameLists, TypeOK
  <1>9. OnePlace'
    BY <1>1, <1>2, <1>4 DEF OnePlace, Holds
  <1>10. Supervised'
    BY <1>1, <1>2, <1>4, <1>6 DEF ServiceInv, Supervised, Engaged, Holds, Waits, Kid
  <1>11. ChainHeard'
    BY <1>1, <1>2, <1>4, <1>6 DEF ServiceInv, ChainHeard, Heard, Holds, Waits, Kid, SameCommand, Targets, Sent
  <1>12. NameFree'
    BY <1>1, <1>2, <1>4, <1>6 DEF ServiceInv, NameFree
  <1> QED
    BY <1>3, <1>6, <1>7, <1>8, <1>9, <1>10, <1>11, <1>12 DEF ServiceInv
-----------------------------------------------------------------------------
(* The steps of the partners of an exchange.                               *)

(* ReplySecond, Report: the token goes to the parent, the trade goes on.   *)
LEMMA InvReplySecond ==
  ASSUME ServiceInv, NEW n \in All, ReplySecond(n)
  PROVE  ServiceInv'
  <1>1. /\ pc[n] = "second" /\ n # Manager /\ n \in Names /\ up[n] = <<>>
        /\ cmd[n].op = "exchange" /\ Second(n)
        /\ \A m \in All : down[m] = <<>> /\ up[m] = <<>> /\ (Holds(m) => m = n)
    BY DEF ServiceInv, Placed, ReplySecond, All, OnePlace, Holds, Second
  <1>2. /\ pc' = [pc EXCEPT ![n] = "give"] /\ up' = [up EXCEPT ![n] = <<2>>]
        /\ UNCHANGED <<children, secret, down, cmd, pos, acc, tm, fifo, fifos, files, answer, subtree, before>>
    BY <1>1 DEF ReplySecond, Goto, WriteToParent, locals, trade, history, TypeOK, ServiceInv
  <1>3. /\ pc'[n] = "give" /\ up'[n] = <<2>>
        /\ \A m \in All : m # n => pc'[m] = pc[m] /\ up'[m] = up[m]
    BY <1>1, <1>2 DEF ServiceInv, TypeOK
  <1>4. TypeOK'
    BY <1>1, <1>2 DEF ServiceInv, TypeOK, Labels
  <1>5. SameLists
    BY <1>1, <1>2, <1>3 DEF SameLists
  <1>6. /\ OneParent' /\ Rooted' /\ Acyclic'
        /\ \A m \in All : Kids(m)' = Kids(m)
        /\ \A c : Fresh(c) => Fresh(c)'
    BY <1>5, ListsKept
  <1>7. \A m \in All : Placed(m)'
    BY <1>1, <1>2, <1>3, <1>5, <1>6 DEF ServiceInv, Placed, LoopOver, Enough, Second, Partner
  <1>8. DeadKids'
    BY <1>1, <1>2, <1>3, <1>5, DeadKept DEF Dying
  <1>9. OnePlace'
    BY <1>1, <1>2, <1>3 DEF OnePlace, Holds, Second
  <1>10. Supervised'
    BY <1>1, <1>2, <1>3, <1>5, <1>6 DEF ServiceInv, Supervised, Engaged, Holds, Waits, Kid
  <1>11. ChainHeard'
    BY <1>1, <1>2, <1>3, <1>5, <1>6 DEF ServiceInv, ChainHeard, Heard, Holds, Waits, Kid, SameCommand, Targets, Sent
  <1>12. NameFree'
    BY <1>1, <1>2, <1>3, <1>5, <1>6 DEF ServiceInv, NameFree
  <1> QED
    BY <1>4, <1>6, <1>7, <1>8, <1>9, <1>10, <1>11, <1>12 DEF ServiceInv


LEMMA InvReport ==
  ASSUME ServiceInv, NEW n \in All, Report(n)
  PROVE  ServiceInv'
  <1>1. /\ pc[n] = "report" /\ cmd[n].op = "exchange" /\ n # Manager /\ n \in Names /\ up[n] = <<>>
        /\ \A m \in All : down[m] = <<>> /\ up[m] = <<>> /\ (Holds(m) => m = n)
    BY DEF ServiceInv, Placed, Report, All, OnePlace, Holds
  <1>2. /\ pc' = [pc EXCEPT ![n] = "unfile"] /\ up' = [up EXCEPT ![n] = <<2>>]
        /\ UNCHANGED <<children, secret, down, cmd, pos, acc, tm, fifo, fifos, files, answer, subtree, before>>
    BY <1>1 DEF Report, Goto, WriteToParent, locals, trade, history, TypeOK, ServiceInv
  <1>3. /\ pc'[n] = "unfile" /\ up'[n] = <<2>>
        /\ \A m \in All : m # n => pc'[m] = pc[m] /\ up'[m] = up[m]
    BY <1>1, <1>2 DEF ServiceInv, TypeOK
  <1>4. TypeOK'
    BY <1>1, <1>2 DEF ServiceInv, TypeOK, Labels
  <1>5. SameLists
    BY <1>1, <1>2, <1>3 DEF SameLists
  <1>6. /\ OneParent' /\ Rooted' /\ Acyclic'
        /\ \A m \in All : Kids(m)' = Kids(m)
        /\ \A c : Fresh(c) => Fresh(c)'
    BY <1>5, ListsKept
  <1>7. \A m \in All : Placed(m)'
    BY <1>1, <1>2, <1>3, <1>5, <1>6 DEF ServiceInv, Placed, LoopOver, Enough, Second, Partner
  <1>8. DeadKids'
    BY <1>1, <1>2, <1>3, <1>5, DeadKept DEF Dying
  <1>9. OnePlace'
    BY <1>1, <1>2, <1>3, <1>5, <1>6 DEF ServiceInv, OnePlace, Holds
  <1>10. Supervised'
    BY <1>1, <1>2, <1>3, <1>5, <1>6 DEF ServiceInv, Supervised, Engaged, Holds, Waits, Kid
  <1>11. ChainHeard'
    BY <1>1, <1>2, <1>3, <1>5, <1>6 DEF ServiceInv, ChainHeard, Heard, Holds, Waits, Kid, SameCommand, Targets, Sent
  <1>12. NameFree'
    BY <1>1, <1>2, <1>3, <1>5, <1>6 DEF ServiceInv, NameFree
  <1> QED
    BY <1>4, <1>6, <1>7, <1>8, <1>9, <1>10, <1>11, <1>12 DEF ServiceInv

(* A first partner that has answered waits for the files.                  *)
LEMMA InvWatch ==
  ASSUME ServiceInv, NEW n \in All, Watch(n)
  PROVE  ServiceInv'
  <1>1. /\ pc[n] = "watch" /\ n # Manager /\ acc[n] # 2
    BY DEF ServiceInv, Placed, Watch
  <1>2. /\ pc' = [pc EXCEPT ![n] = "take"]
        /\ UNCHANGED <<children, secret, down, up, cmd, pos, acc, tm, fifo, fifos, files, answer, subtree, before>>
    BY <1>1 DEF Watch, Goto, pipes, locals, trade, history
  <1>3. /\ pc'[n] = "take"
        /\ \A m \in All : m # n => pc'[m] = pc[m]
    BY <1>1, <1>2 DEF ServiceInv, TypeOK
  <1>4. TypeOK'
    BY <1>1, <1>2 DEF ServiceInv, TypeOK, Labels
  <1>5. SameLists
    BY <1>1, <1>2, <1>3 DEF SameLists
  <1>6. /\ OneParent' /\ Rooted' /\ Acyclic'
        /\ \A m \in All : Kids(m)' = Kids(m)
        /\ \A c : Fresh(c) => Fresh(c)'
    BY <1>5, ListsKept
  <1>7. \A m \in All : Placed(m)'
    BY <1>1, <1>2, <1>3, <1>5, <1>6 DEF ServiceInv, Placed, LoopOver, Enough, Second, Partner
  <1>8. DeadKids'
    BY <1>1, <1>2, <1>3, <1>5, DeadKept DEF Dying
  <1>9. OnePlace'
    BY <1>1, <1>2, <1>3, <1>5, <1>6 DEF ServiceInv, OnePlace, Holds
  <1>10. Supervised'
    BY <1>1, <1>2, <1>3, <1>5, <1>6 DEF ServiceInv, Supervised, Engaged, Holds, Waits, Kid
  <1>11. ChainHeard'
    BY <1>1, <1>2, <1>3, <1>5, <1>6 DEF ServiceInv, ChainHeard, Heard, Holds, Waits, Kid, SameCommand, Targets, Sent
  <1>12. NameFree'
    BY <1>1, <1>2, <1>3, <1>5, <1>6 DEF ServiceInv, NameFree
  <1> QED
    BY <1>4, <1>6, <1>7, <1>8, <1>9, <1>10, <1>11, <1>12 DEF ServiceInv


LEMMA InvUnfile ==
  ASSUME ServiceInv, NEW n \in All, Unfile(n)
  PROVE  ServiceInv'
  <1>1. /\ pc[n] = "unfile" /\ n # Manager
    BY DEF ServiceInv, Placed, Unfile
  <1>2. /\ pc' = [pc EXCEPT ![n] = "idle"] /\ cmd' = [cmd EXCEPT ![n] = NoCommand]
        /\ pos' = [pos EXCEPT ![n] = 0] /\ acc' = [acc EXCEPT ![n] = 0] /\ files' = files \ {n}
        /\ UNCHANGED <<children, secret, down, up, tm, fifo, fifos, answer, subtree, before>>
    BY <1>1 DEF Unfile, Rest, Serve, Goto, pipes, history
  <1>3. /\ pc'[n] = "idle" /\ cmd'[n] = NoCommand /\ pos'[n] = 0 /\ acc'[n] = 0
        /\ \A m \in All : m # n => pc'[m] = pc[m] /\ cmd'[m] = cmd[m] /\ pos'[m] = pos[m] /\ acc'[m] = acc[m]
    BY <1>1, <1>2 DEF ServiceInv, TypeOK
  <1>4. TypeOK'
    BY <1>1, <1>2, NoCommandTyped DEF ServiceInv, TypeOK, Labels
  <1>5. SameLists
    BY <1>1, <1>2, <1>3 DEF SameLists
  <1>6. /\ OneParent' /\ Rooted' /\ Acyclic'
        /\ \A m \in All : Kids(m)' = Kids(m)
        /\ \A c : Fresh(c) => Fresh(c)'
    BY <1>5, ListsKept
  <1>7. \A m \in All : Placed(m)'
    BY <1>1, <1>2, <1>3, <1>5, <1>6 DEF ServiceInv, Placed, LoopOver, Enough, Second, Partner
  <1>8. DeadKids'
    BY <1>1, <1>2, <1>3, <1>5, DeadKept DEF Dying
  <1>9. OnePlace'
    BY <1>1, <1>2, <1>3, <1>5, <1>6 DEF ServiceInv, OnePlace, Holds
  <1>10. Supervised'
    BY <1>1, <1>2, <1>3, <1>5, <1>6 DEF ServiceInv, Supervised, Engaged, Holds, Waits, Kid
  <1>11. ChainHeard'
    BY <1>1, <1>2, <1>3, <1>5, <1>6 DEF ServiceInv, ChainHeard, Heard, Holds, Waits, Kid, SameCommand, Targets, Sent
  <1>12. NameFree'
    BY <1>1, <1>2, <1>3, <1>5, <1>6 DEF ServiceInv, NameFree
  <1> QED
    BY <1>4, <1>6, <1>7, <1>8, <1>9, <1>10, <1>11, <1>12 DEF ServiceInv


LEMMA InvTake ==
  ASSUME ServiceInv, NEW n \in All, Take(n)
  PROVE  ServiceInv'
  <1>1. /\ pc[n] = "take" /\ fifo[n] # <<>> /\ fifo[n][1] \in All
        /\ cmd[n].op = "exchange" /\ (Second(n) => n # Manager)
    BY Pipes DEF ServiceInv, Placed, Take, Second
  <1>2. /\ pc' = [pc EXCEPT ![n] = IF Second(n) THEN "unfile" ELSE "give"]
        /\ fifo' = [fifo EXCEPT ![n] = <<>>]
        /\ secret' = [secret EXCEPT ![n] = fifo[n][1]] \/ secret' = secret
        /\ tm' = tm \/ tm' = [tm EXCEPT ![n] = fifo[n][1]]
        /\ UNCHANGED <<children, down, up, cmd, pos, acc, fifos, files, answer, subtree, before>>
    BY DEF Take, Goto, pipes, locals, history
  <1>3. /\ pc'[n] = IF Second(n) THEN "unfile" ELSE "give"
        /\ pc'[n] \in {"unfile", "give"}
        /\ \A m \in All : m # n => pc'[m] = pc[m]
    BY <1>1, <1>2 DEF ServiceInv, TypeOK
  <1>4. TypeOK'
    <2>1. pc' \in [All -> Labels]
      BY <1>2 DEF ServiceInv, TypeOK, Labels
    <2>2. fifo' \in [All -> Seq(All)] /\ \A m \in All : Len(fifo'[m]) <= 1
      BY <1>2 DEF ServiceInv, TypeOK
    <2>3. secret' \in [All -> All] /\ tm' \in [All -> All]
      BY <1>1, <1>2 DEF ServiceInv, TypeOK
    <2> QED
      BY <1>2, <2>1, <2>2, <2>3 DEF ServiceInv, TypeOK
  <1>5. SameLists
    BY <1>1, <1>2, <1>3 DEF SameLists
  <1>6. /\ OneParent' /\ Rooted' /\ Acyclic'
        /\ \A m \in All : Kids(m)' = Kids(m)
        /\ \A c : Fresh(c) => Fresh(c)'
    BY <1>5, ListsKept
  <1>7. \A m \in All : Placed(m)'
    BY <1>1, <1>2, <1>3, <1>5, <1>6 DEF ServiceInv, Placed, LoopOver, Enough, Second, Partner
  <1>8. DeadKids'
    BY <1>1, <1>2, <1>3, <1>5, DeadKept DEF Dying
  <1>9. OnePlace'
    BY <1>1, <1>2, <1>3, <1>5, <1>6 DEF ServiceInv, OnePlace, Holds
  <1>10. Supervised'
    BY <1>1, <1>2, <1>3, <1>5, <1>6 DEF ServiceInv, Supervised, Engaged, Holds, Waits, Kid
  <1>11. ChainHeard'
    BY <1>1, <1>2, <1>3, <1>5, <1>6 DEF ServiceInv, ChainHeard, Heard, Holds, Waits, Kid, SameCommand, Targets, Sent
  <1>12. NameFree'
    BY <1>1, <1>2, <1>3, <1>5, <1>6 DEF ServiceInv, NameFree
  <1> QED
    BY <1>4, <1>6, <1>7, <1>8, <1>9, <1>10, <1>11, <1>12 DEF ServiceInv


LEMMA InvGive ==
  ASSUME ServiceInv, NEW n \in All, Give(n)
  PROVE  ServiceInv'
  <1>1. /\ pc[n] = "give" /\ cmd[n].op = "exchange" /\ (Second(n) => n # Manager /\ cmd[n].g = 1)
        /\ n # Manager /\ ~Second(n) => cmd[n].g = 0
        /\ Other(n) \in All /\ fifo[Other(n)] = <<>>
    <2>1. Placed(n) /\ cmd[n] \in Commands /\ pc[n] = "give" /\ fifo[Other(n)] = <<>>
      BY DEF ServiceInv, TypeOK, Give
    <2> QED
      BY <2>1 DEF Placed, Second, Other, Commands
  <1>2. /\ fifo' = [fifo EXCEPT ![Other(n)] = <<secret[n]>>]
        /\ pc' = [pc EXCEPT ![n] = IF Second(n) THEN "take" ELSE IF n = Manager THEN "wait"
                                  ELSE IF acc[n] = 2 THEN "report" ELSE "unfile"]
        /\ secret' = [secret EXCEPT ![n] = tm[n]] \/ secret' = secret
        /\ tm' = tm \/ tm' = [tm EXCEPT ![n] = n]
        /\ UNCHANGED <<children, down, up, cmd, pos, acc, fifos, files, answer, subtree, before>>
    BY DEF Give, Goto, pipes, locals, history
  <1>3. /\ pc'[n] \in {"take", "wait", "report", "unfile"}
        /\ (pc'[n] = "take" => Second(n)) /\ (pc'[n] = "wait" <=> n = Manager)
        /\ pc'[n] = "report" => acc[n] = 2 /\ ~Second(n)
        /\ \A m \in All : m # n => pc'[m] = pc[m]
    <2>1. pc \in [All -> Labels]
      BY DEF ServiceInv, TypeOK
    <2>2. /\ pc'[n] = IF Second(n) THEN "take" ELSE IF n = Manager THEN "wait"
                      ELSE IF acc[n] = 2 THEN "report" ELSE "unfile"
          /\ \A m \in All : m # n => pc'[m] = pc[m]
      BY <1>2, <2>1
    <2> QED
      BY <1>1, <2>2
  <1>4. TypeOK'
    <2>1. pc' \in [All -> Labels]
      BY <1>2 DEF ServiceInv, TypeOK, Labels
    <2>2. fifo' \in [All -> Seq(All)] /\ \A m \in All : Len(fifo'[m]) <= 1
      <3>1. /\ fifo \in [All -> Seq(All)] /\ \A m \in All : Len(fifo[m]) <= 1
            /\ <<secret[n]>> \in Seq(All) /\ Len(<<secret[n]>>) = 1
        BY DEF ServiceInv, TypeOK
      <3> QED
        BY <1>1, <1>2, <3>1
    <2>3. secret' \in [All -> All] /\ tm' \in [All -> All]
      <3>1. secret \in [All -> All] /\ tm \in [All -> All] /\ tm[n] \in All
        BY DEF ServiceInv, TypeOK
      <3> QED
        BY <1>2, <3>1
    <2> QED
      BY <1>2, <2>1, <2>2, <2>3 DEF ServiceInv, TypeOK
  <1>5. SameLists
    BY <1>1, <1>2, <1>3 DEF SameLists
  <1>6. /\ OneParent' /\ Rooted' /\ Acyclic'
        /\ \A m \in All : Kids(m)' = Kids(m)
        /\ \A c : Fresh(c) => Fresh(c)'
    BY <1>5, ListsKept
  <1>7. \A m \in All : Placed(m)'
    BY <1>1, <1>2, <1>3, <1>5, <1>6 DEF ServiceInv, Placed, LoopOver, Enough, Second, Partner
  <1>8. DeadKids'
    BY <1>1, <1>2, <1>3, <1>5, DeadKept DEF Dying
  <1>9. OnePlace'
    BY <1>1, <1>2, <1>3 DEF ServiceInv, OnePlace, Holds
  <1>10. Supervised'
    BY <1>1, <1>2, <1>3, <1>5, <1>6 DEF ServiceInv, Supervised, Engaged, Holds, Waits, Kid
  <1>11. ChainHeard'
    BY <1>1, <1>2, <1>3, <1>5, <1>6 DEF ServiceInv, ChainHeard, Heard, Holds, Waits, Kid, SameCommand, Targets, Sent
  <1>12. NameFree'
    BY <1>1, <1>2, <1>3, <1>5, <1>6 DEF ServiceInv, NameFree
  <1> QED
    BY <1>4, <1>6, <1>7, <1>8, <1>9, <1>10, <1>11, <1>12 DEF ServiceInv
-----------------------------------------------------------------------------
(* The steps that end the work on a command.                               *)

(* The answer of a service that goes on living: after a spawn that has     *)
(* found no parent yet the name is still free.                             *)
LEMMA InvReply ==
  ASSUME ServiceInv, NEW n \in All, Reply(n)
  PROVE  ServiceInv'
  <1>1. /\ pc[n] = "each" /\ n # Manager /\ n \in Names /\ up[n] = <<>> /\ acc[n] \in Nat
        /\ \A m \in All : down[m] = <<>> /\ up[m] = <<>> /\ (Holds(m) => m = n)
        /\ cmd[n].op \in {"spawn", "kill", "exchange"} /\ (cmd[n].op = "kill" => cmd[n].g = 0)
        /\ (cmd[n].op = "spawn" => acc[n] <= 1) /\ (cmd[n].op = "exchange" => acc[n] <= 2)
        /\ cmd[n].op = "spawn" /\ acc[n] = 0 => Fresh(cmd[n].b)
    <2>1. Placed(n) /\ OnePlace /\ pc[n] = "each" /\ n # Manager /\ acc[n] \in Nat
      BY DEF ServiceInv, TypeOK, Reply
    <2> QED
      BY <2>1 DEF ServiceInv, Placed, Reply, All, OnePlace, Holds, NameFree
  <1>2. /\ pc' = [pc EXCEPT ![n] = "idle"] /\ up' = [up EXCEPT ![n] = <<acc[n]>>]
        /\ cmd' = [cmd EXCEPT ![n] = NoCommand] /\ pos' = [pos EXCEPT ![n] = 0] /\ acc' = [acc EXCEPT ![n] = 0]
        /\ UNCHANGED <<children, secret, down, tm, fifo, fifos, files, answer, subtree, before>>
    BY <1>1 DEF Reply, Rest, Serve, Goto, WriteToParent, trade, history, TypeOK, ServiceInv
  <1>3. /\ pc'[n] = "idle" /\ up'[n] = <<acc[n]>> /\ cmd'[n] = NoCommand
        /\ \A m \in All : m # n => /\ pc'[m] = pc[m] /\ up'[m] = up[m]
                                  /\ cmd'[m] = cmd[m] /\ pos'[m] = pos[m] /\ acc'[m] = acc[m]
    BY <1>1, <1>2 DEF ServiceInv, TypeOK
  <1>4. TypeOK'
    BY <1>1, <1>2, NoCommandTyped DEF ServiceInv, TypeOK, Labels
  <1>5. SameLists
    BY <1>1, <1>2, <1>3 DEF SameLists
  <1>6. /\ OneParent' /\ Rooted' /\ Acyclic'
        /\ \A m \in All : Kids(m)' = Kids(m)
        /\ \A c : Fresh(c) => Fresh(c)'
    BY <1>5, ListsKept
  <1>7. \A m \in All : Placed(m)'
    BY <1>1, <1>2, <1>3, <1>5, <1>6 DEF ServiceInv, Placed, LoopOver, Enough, Second, Partner
  <1>8. DeadKids'
    BY <1>1, <1>2, <1>3, <1>5, DeadKept DEF Dying
  <1>9. OnePlace'
    BY <1>1, <1>2, <1>3, <1>5, <1>6 DEF ServiceInv, OnePlace, Holds
  <1>10. Supervised'
    BY <1>1, <1>2, <1>3, <1>5, <1>6 DEF ServiceInv, Supervised, Engaged, Holds, Waits, Kid
  <1>11. ChainHeard'
    BY <1>1, <1>2, <1>3, <1>5, <1>6 DEF ServiceInv, ChainHeard, Heard, Holds, Waits, Kid, SameCommand, Targets, Sent
  <1>12. NameFree'
    BY <1>1, <1>2, <1>3, <1>5, <1>6 DEF ServiceInv, NameFree
  <1> QED
    BY <1>4, <1>6, <1>7, <1>8, <1>9, <1>10, <1>11, <1>12 DEF ServiceInv

(* A first partner that has found the other below it keeps the token.      *)
LEMMA InvReplyPartner ==
  ASSUME ServiceInv, NEW n \in All, ReplyPartner(n)
  PROVE  ServiceInv'
  <1>1. /\ pc[n] = "each" /\ n # Manager /\ n \in Names /\ up[n] = <<>> /\ acc[n] \in Nat
        /\ \A m \in All : down[m] = <<>> /\ up[m] = <<>> /\ (Holds(m) => m = n)
        /\ cmd[n].op = "exchange" /\ Partner(n) /\ cmd[n].g = 0 /\ acc[n] <= 2
    <2>1. Placed(n) /\ OnePlace /\ pc[n] = "each" /\ n # Manager /\ acc[n] \in Nat /\ cmd[n] \in Commands
      BY DEF ServiceInv, TypeOK, ReplyPartner
    <2>2. cmd[n].op = "exchange" /\ Partner(n) /\ cmd[n].g = 0 /\ acc[n] <= 2
      BY <2>1 DEF Placed, ReplyPartner, Second, Commands
    <2> QED
      BY <2>1, <2>2 DEF OnePlace, Holds, All
  <1>2. /\ \/ acc[n] = 2 /\ up' = up /\ pc' = [pc EXCEPT ![n] = "take"]
           \/ acc[n] # 2 /\ up' = [up EXCEPT ![n] = <<acc[n]>>] /\ pc' = [pc EXCEPT ![n] = "watch"]
        /\ UNCHANGED <<children, secret, down, cmd, pos, acc, tm, fifo, fifos, files, answer, subtree, before>>
    BY <1>1 DEF ReplyPartner, Goto, WriteToParent, locals, trade, history, TypeOK, ServiceInv
  <1>3. /\ \/ acc[n] = 2 /\ up'[n] = <<>> /\ pc'[n] = "take"
           \/ acc[n] # 2 /\ up'[n] = <<acc[n]>> /\ pc'[n] = "watch"
        /\ \A m \in All : m # n => pc'[m] = pc[m] /\ up'[m] = up[m]
    BY <1>1, <1>2 DEF ServiceInv, TypeOK
  <1>4. TypeOK'
    <2>1. pc' \in [All -> Labels]
      BY <1>2 DEF ServiceInv, TypeOK, Labels
    <2>2. up' \in [All -> Seq(Nat)] /\ \A m \in All : Len(up'[m]) <= 1
      <3>1. CASE up' = up
        BY <3>1 DEF ServiceInv, TypeOK
      <3>2. CASE up' = [up EXCEPT ![n] = <<acc[n]>>]
        BY <1>1, <3>2 DEF ServiceInv, TypeOK
      <3> QED
        BY <1>2, <3>1, <3>2
    <2> QED
      BY <1>2, <2>1, <2>2 DEF ServiceInv, TypeOK
  <1>5. SameLists
    BY <1>1, <1>2, <1>3 DEF SameLists
  <1>6. /\ OneParent' /\ Rooted' /\ Acyclic'
        /\ \A m \in All : Kids(m)' = Kids(m)
        /\ \A c : Fresh(c) => Fresh(c)'
    BY <1>5, ListsKept
  <1>7. \A m \in All : Placed(m)'
    BY <1>1, <1>2, <1>3, <1>5, <1>6 DEF ServiceInv, Placed, LoopOver, Enough, Second, Partner
  <1>8. DeadKids'
    BY <1>1, <1>2, <1>3, <1>5, DeadKept DEF Dying
  <1>9. OnePlace'
    BY <1>1, <1>2, <1>3, <1>5, <1>6 DEF ServiceInv, OnePlace, Holds
  <1>10. Supervised'
    <2>1. /\ Engaged(n) /\ ~Waits(n, n)
          /\ \A m \in All : m # n => (Engaged(m)' <=> Engaged(m)) /\ \A k \in Names : Waits(m, k)' <=> Waits(m, k)
          /\ \A k \in Names : ~Waits(n, k)
      BY <1>1, <1>2, <1>3 DEF Engaged, Holds, Waits, Kid
    <2> QED
      BY <1>1, <1>6, <2>1 DEF ServiceInv, Supervised, All
  <1>11. ChainHeard'
    <2> SUFFICES ASSUME NEW q \in All, NEW k \in Names, Waits(q, k)' PROVE Heard(q, k)'
      BY DEF ChainHeard
    <2>1. q # n /\ Waits(q, k) /\ Heard(q, k)
      BY <1>1, <1>2, <1>3 DEF ServiceInv, ChainHeard, Waits, Kid
    <2>2. CASE k = n
      BY <1>1, <1>2, <1>3, <2>1, <2>2 DEF Heard, Holds, SameCommand, Targets, Sent
    <2>3. CASE k # n
      BY <1>1, <1>2, <1>3, <1>6, <2>1, <2>3 DEF Heard, Holds, SameCommand, Targets, Sent, All
    <2> QED
      BY <2>2, <2>3
  <1>12. NameFree'
    BY <1>1, <1>2, <1>3, <1>5, <1>6 DEF ServiceInv, NameFree
  <1> QED
    BY <1>4, <1>6, <1>7, <1>8, <1>9, <1>10, <1>11, <1>12 DEF ServiceInv

(* The last message of a service that dies: its parent was told to wait.   *)
LEMMA InvReplyDying ==
  ASSUME ServiceInv, NEW n \in All, ReplyDying(n)
  PROVE  ServiceInv'
  <1>1. /\ pc[n] = "each" /\ n # Manager /\ n \in Names /\ up[n] = <<>> /\ acc[n] \in Nat
        /\ \A m \in All : down[m] = <<>> /\ up[m] = <<>> /\ (Holds(m) => m = n)
        /\ cmd[n].op = "kill" /\ cmd[n].g = 1 /\ pos[n] >= Len(children[n])
    <2>1. Placed(n) /\ OnePlace /\ pc[n] = "each" /\ n # Manager /\ acc[n] \in Nat /\ cmd[n] \in Commands
      BY DEF ServiceInv, TypeOK, ReplyDying
    <2> QED
      BY <2>1 DEF ReplyDying, OnePlace, Holds, All, LoopOver, Enough
  <1>2. /\ up' = [up EXCEPT ![n] = <<acc[n] + 1>>] /\ pc' = [pc EXCEPT ![n] = "exit"]
        /\ UNCHANGED <<children, secret, down, cmd, pos, acc, tm, fifo, fifos, files, answer, subtree, before>>
    BY <1>1 DEF ReplyDying, Goto, WriteToParent, locals, trade, history, TypeOK, ServiceInv
  <1>3. /\ pc'[n] = "exit" /\ up'[n] = <<acc[n] + 1>>
        /\ \A m \in All : m # n => pc'[m] = pc[m] /\ up'[m] = up[m]
    BY <1>1, <1>2 DEF ServiceInv, TypeOK
  <1>4. TypeOK'
    BY <1>1, <1>2 DEF ServiceInv, TypeOK, Labels
  <1>5. SameLists
    BY <1>1, <1>2, <1>3 DEF SameLists
  <1>6. /\ OneParent' /\ Rooted' /\ Acyclic'
        /\ \A m \in All : Kids(m)' = Kids(m)
        /\ \A c : Fresh(c) => Fresh(c)'
    BY <1>5, ListsKept
  <1>7. \A m \in All : Placed(m)'
    BY <1>1, <1>2, <1>3, <1>5, <1>6 DEF ServiceInv, Placed, LoopOver, Enough, Second, Partner
  <1>8. DeadKids'
    BY <1>1, <1>2, <1>3, <1>5, DeadKept DEF Dying
  <1>9. OnePlace'
    BY <1>1, <1>2, <1>3, <1>5, <1>6 DEF ServiceInv, OnePlace, Holds
  <1>10. Supervised'
    BY <1>1, <1>2, <1>3, <1>5, <1>6 DEF ServiceInv, Supervised, Engaged, Holds, Waits, Kid
  <1>11. ChainHeard'
    <2> SUFFICES ASSUME NEW q \in All, NEW k \in Names, Waits(q, k)' PROVE Heard(q, k)'
      BY DEF ChainHeard
    <2>1. q # n /\ Waits(q, k) /\ Heard(q, k)
      BY <1>1, <1>2, <1>3 DEF ServiceInv, ChainHeard, Waits, Kid
    <2>2. CASE k = n
      <3>1. pc[q] = "await" /\ SameCommand(q, n)
        BY <1>1, <2>1, <2>2 DEF Heard, Holds, Waits
      <3>2. cmd[q].op = "kill" /\ Targets(q, n)
        BY <1>1, <3>1 DEF SameCommand
      <3>3. pc'[q] = "await" /\ pc'[n] = "exit" /\ cmd'[q] = cmd[q]
        BY <1>2, <1>3, <2>1, <3>1
      <3>4. up'[n] # <<>>
        <4>1. \A i : <<i>> # <<>>
          OBVIOUS
        <4> QED
          BY <1>3, <4>1
      <3> QED
        BY <1>1, <1>2, <2>2, <3>2, <3>3, <3>4 DEF Heard, Holds, Targets
    <2>3. CASE k # n
      BY <1>1, <1>2, <1>3, <1>6, <2>1, <2>3 DEF Heard, Holds, SameCommand, Targets, Sent, All
    <2> QED
      BY <2>2, <2>3
  <1>12. NameFree'
    BY <1>1, <1>2, <1>3, <1>5, <1>6 DEF ServiceInv, NameFree
  <1> QED
    BY <1>4, <1>6, <1>7, <1>8, <1>9, <1>10, <1>11, <1>12 DEF ServiceInv

(* The Manager is the place of the token at rest.                          *)
LEMMA InvEndExchange ==
  ASSUME ServiceInv, EndExchange
  PROVE  ServiceInv'
  <1>1. pc[Manager] = "wait" /\ Manager \in All
    BY DEF EndExchange, All
  <1>2. /\ pc' = [pc EXCEPT ![Manager] = "idle"]
        /\ fifos' = FALSE /\ answer' = [told |-> "exchanged", count |-> 0]
        /\ UNCHANGED <<children, secret, down, up, cmd, pos, acc, tm, fifo, files, subtree, before>>
    BY DEF EndExchange, Goto, Tell, pipes, locals, history
  <1>3. /\ pc'[Manager] = "idle"
        /\ \A m \in All : m # Manager => pc'[m] = pc[m]
    BY <1>1, <1>2 DEF ServiceInv, TypeOK
  <1>4. TypeOK'
    BY <1>1, <1>2 DEF ServiceInv, TypeOK, Labels
  <1>5. SameLists
    BY <1>1, <1>2, <1>3 DEF SameLists
  <1>6. /\ OneParent' /\ Rooted' /\ Acyclic'
        /\ \A m \in All : Kids(m)' = Kids(m)
        /\ \A c : Fresh(c) => Fresh(c)'
    BY <1>5, ListsKept
  <1>7. \A m \in All : Placed(m)'
    BY <1>1, <1>2, <1>3, <1>5, <1>6 DEF ServiceInv, Placed, LoopOver, Enough, Second, Partner
  <1>8. DeadKids'
    BY <1>1, <1>2, <1>3, <1>5, DeadKept DEF Dying
  <1>9. OnePlace'
    BY <1>1, <1>2, <1>3, <1>5, <1>6 DEF ServiceInv, OnePlace, Holds
  <1>10. Supervised'
    BY <1>1, <1>2, <1>3, <1>5, <1>6 DEF ServiceInv, Supervised, Engaged, Holds, Waits, Kid
  <1>11. ChainHeard'
    BY <1>1, <1>2, <1>3, <1>5, <1>6 DEF ServiceInv, ChainHeard, Heard, Holds, Waits, Kid, SameCommand, Targets, Sent
  <1>12. NameFree'
    BY <1>1, <1>2, <1>3, <1>5, <1>6 DEF ServiceInv, NameFree
  <1> QED
    BY <1>4, <1>6, <1>7, <1>8, <1>9, <1>10, <1>11, <1>12 DEF ServiceInv
-----------------------------------------------------------------------------
(* The list of a process that ends: all of its children are gone.          *)
LEMMA ListsCut ==
  ASSUME ServiceInv, NEW n \in All, children' = [children EXCEPT ![n] = <<>>],
         \A i \in 1 .. Len(children[n]) : pc[children[n][i]] = "none",
         \A m \in All : pc'[m] = "none" <=> pc[m] = "none",
         \A m \in All : m # n => (Dying(m)' <=> Dying(m)) /\ pos'[m] = pos[m]
  PROVE  /\ OneParent' /\ Rooted' /\ Acyclic' /\ DeadKids'
         /\ Kids(n)' = {} /\ \A m \in All : m # n => Kids(m)' = Kids(m)
         /\ \A c : Fresh(c) => Fresh(c)'
  <1>1. children'[n] = <<>> /\ \A m \in All : m # n => children'[m] = children[m]
    BY DEF ServiceInv, TypeOK
  <1>2. Kids(n)' = {} /\ \A m \in All : m # n => Kids(m)' = Kids(m)
    BY <1>1 DEF Kids
  <1>3. OneParent'
    BY <1>1 DEF ServiceInv, OneParent
  <1>4. Rooted'
    BY <1>2 DEF ServiceInv, Rooted, Kids, All
  <1>5. Acyclic'
    <2> SUFFICES ASSUME NEW S \in SUBSET Names, \A k \in S : \E p \in S : k \in Kids(p)'
                 PROVE  S = {}
      BY DEF Acyclic
    <2>1. \A k \in S : \E p \in S : k \in Kids(p)
      BY <1>2 DEF All
    <2> QED
      BY <2>1 DEF ServiceInv, Acyclic
  <1>6. DeadKids'
    <2>1. \A p \in All : \A i \in 1 .. Len(children[p]) : children[p][i] \in All
      BY DEF ServiceInv, TypeOK, All
    <2> QED
      BY <1>1, <2>1 DEF ServiceInv, DeadKids
  <1>7. \A c : Fresh(c) => Fresh(c)'
    BY <1>2 DEF Fresh, All
  <1> QED
    BY <1>2, <1>3, <1>4, <1>5, <1>6, <1>7

(* die: the children of a service that exits are waited for.               *)
LEMMA InvExit ==
  ASSUME ServiceInv, NEW n \in All, Exit(n)
  PROVE  ServiceInv'
  <1>1. /\ pc[n] = "exit" /\ n # Manager /\ n \in Names /\ down[n] = <<>>
        /\ \A i \in 1 .. Len(children[n]) : pc[children[n][i]] = "none"
    <2>1. Placed(n) /\ pc[n] = "exit" /\ pos[n] \in Nat /\ Len(children[n]) \in Nat
      BY DEF ServiceInv, TypeOK, Exit
    <2>2. Dying(n) /\ pos[n] >= Len(children[n]) /\ n # Manager /\ down[n] = <<>>
      BY <2>1 DEF Placed, Dying
    <2>3. \A i \in 1 .. Len(children[n]) : i <= pos[n]
      BY <2>1, <2>2
    <2> QED
      BY <2>1, <2>2, <2>3 DEF ServiceInv, DeadKids, All
  <1>2. /\ children' = [children EXCEPT ![n] = <<>>] /\ pc' = [pc EXCEPT ![n] = "zombie"]
        /\ cmd' = [cmd EXCEPT ![n] = NoCommand] /\ pos' = [pos EXCEPT ![n] = 0]
        /\ acc' = [acc EXCEPT ![n] = 0] /\ secret' = [secret EXCEPT ![n] = n]
        /\ UNCHANGED <<down, up, tm, fifo, fifos, files, answer, subtree, before>>
    BY DEF Exit, Serve, Goto, pipes, trade, history
  <1>3. /\ pc'[n] = "zombie" /\ children'[n] = <<>>
        /\ \A m \in All : m # n => /\ pc'[m] = pc[m] /\ children'[m] = children[m]
                                  /\ cmd'[m] = cmd[m] /\ pos'[m] = pos[m] /\ acc'[m] = acc[m]
    BY <1>2 DEF ServiceInv, TypeOK
  <1>4. TypeOK'
    BY <1>2, NoCommandTyped DEF ServiceInv, TypeOK, Labels
  <1>5. /\ OneParent' /\ Rooted' /\ Acyclic' /\ DeadKids'
        /\ Kids(n)' = {} /\ \A m \in All : m # n => Kids(m)' = Kids(m)
        /\ \A c : Fresh(c) => Fresh(c)'
    <2>1. \A m \in All : pc'[m] = "none" <=> pc[m] = "none"
      BY <1>1, <1>3
    <2>2. \A m \in All : m # n => (Dying(m)' <=> Dying(m)) /\ pos'[m] = pos[m]
      BY <1>3 DEF Dying
    <2> QED
      BY <1>1, <1>2, <2>1, <2>2, ListsCut
  <1>6. \A m \in All : Placed(m)'
    BY <1>1, <1>2, <1>3, <1>5 DEF ServiceInv, Placed, LoopOver, Enough, Second, Partner
  <1>7. OnePlace'
    BY <1>1, <1>2, <1>3 DEF ServiceInv, OnePlace, Holds
  <1>8. Supervised'
    <2> SUFFICES ASSUME NEW m \in Names, Engaged(m)' PROVE \E p \in All : m \in Kids(p)' /\ Waits(p, m)'
      BY DEF Supervised
    <2>1. m \in All
      BY DEF All
    <2>2. Engaged(m)
      BY <1>1, <1>2, <1>3, <2>1 DEF Engaged, Holds
    <2>3. PICK p \in All : m \in Kids(p) /\ Waits(p, m)
      BY <2>2 DEF ServiceInv, Supervised
    <2>4. p # n
      BY <1>1, <2>3 DEF Waits
    <2> QED
      BY <1>3, <1>5, <2>3, <2>4 DEF Waits, Kid
  <1>9. ChainHeard'
    BY <1>1, <1>2, <1>3, <1>5 DEF ServiceInv, ChainHeard, Heard, Holds, Waits, Kid, SameCommand, Targets, Sent
  <1>10. NameFree'
    BY <1>1, <1>2, <1>3, <1>5 DEF ServiceInv, NameFree
  <1> QED
    BY <1>4, <1>5, <1>6, <1>7, <1>8, <1>9, <1>10 DEF ServiceInv

(* The Manager has served all children: it goes on as a partner, waits for *)
(* the partners, rests, or ends together with its list.                    *)
LEMMA InvConclude ==
  ASSUME ServiceInv, Conclude
  PROVE  ServiceInv'
  <1>1. /\ pc[Manager] = "each" /\ Manager \in All /\ Placed(Manager) /\ cmd[Manager] \in Commands
        /\ acc[Manager] \in Nat /\ pos[Manager] \in Nat /\ Len(children[Manager]) \in Nat
        /\ \A m \in All : down[m] = <<>> /\ up[m] = <<>> /\ (Holds(m) => m = Manager)
    <2>1. Manager \in All /\ pc[Manager] = "each"
      BY DEF Conclude, All
    <2>2. Placed(Manager) /\ cmd[Manager] \in Commands /\ OnePlace /\ children[Manager] \in Seq(Names)
          /\ acc[Manager] \in Nat /\ pos[Manager] \in Nat
      BY <2>1 DEF ServiceInv, TypeOK
    <2> QED
      BY <2>1, <2>2 DEF OnePlace, Holds
  <1>2. /\ pc' \in [All -> Labels] /\ \A m \in All : m # Manager => pc'[m] = pc[m]
        /\ pc'[Manager] \in {"idle", "gone", "take", "wait"}
        /\ pc'[Manager] \in {"take", "wait"} => cmd[Manager].op = "exchange"
        /\ pc'[Manager] = "take" => Partner(Manager)
        /\ pc'[Manager] = "gone" <=> cmd[Manager].op = "kill" /\ cmd[Manager].g = 1
        /\ answer' \in [told : {"nothing", "spawned", "missing", "killed", "exchanged"}, count : Nat]
        /\ UNCHANGED <<secret, down, up, cmd, pos, acc, tm, fifo, fifos, files, subtree, before>>
    <2>0. pc \in [All -> Labels] /\ Conclusion
          /\ answer \in [told : {"nothing", "spawned", "missing", "killed", "exchanged"}, count : Nat]
      BY DEF ServiceInv, TypeOK, Conclude
    <2>1. UNCHANGED <<secret, down, up, cmd, pos, acc, tm, fifo, fifos, files, subtree, before>>
      BY DEF Conclude, pipes, locals, trade, history
    <2>2. CASE cmd[Manager].op = "spawn"
      BY <1>1, <2>0, <2>1, <2>2 DEF Conclusion, Goto, Tell, Labels
    <2>3. CASE cmd[Manager].op = "kill" /\ cmd[Manager].g = 0
      BY <1>1, <2>0, <2>1, <2>3 DEF Conclusion, Goto, Tell, Labels
    <2>4. CASE cmd[Manager].op = "kill" /\ cmd[Manager].g = 1
      BY <1>1, <2>0, <2>1, <2>4 DEF Conclusion, Goto, Tell, Labels
    <2>5. CASE cmd[Manager].op = "exchange"
      BY <1>1, <2>0, <2>1, <2>5 DEF Conclusion, Goto, Tell, Labels
    <2> QED
      BY <2>0, <2>2, <2>3, <2>4, <2>5 DEF Conclusion
  <1>3. \A m \in All : m # Manager => pc'[m] = pc[m] /\ m \in Names
    BY <1>2 DEF All
  <1>0. /\ UNCHANGED <<down, up, cmd, pos, acc>>
        /\ \A m \in All : ~Holds(m)' \/ m = Manager
        /\ \A m \in Names : ~Engaged(m)'
        /\ \A q \in All : pc'[q] \notin {"hear", "await", "reap"}
    <2>1. UNCHANGED <<down, up, cmd, pos, acc>>
      BY <1>2
    <2>2. \A m \in All : m # Manager => (Holds(m)' <=> Holds(m))
      BY <1>3, <2>1 DEF Holds
    <2>3. \A m \in Names : ~Engaged(m) /\ m \in All /\ m # Manager
      BY <1>1, NobodyEngaged DEF All
    <2>4. \A q \in Names : pc[q] \notin {"hear", "await", "reap"}
      BY <2>3 DEF Engaged, Holds
    <2>5. \A q \in All : pc'[q] \notin {"hear", "await", "reap"}
      BY <1>2, <1>3, <2>4
    <2> QED
      BY <1>1, <1>3, <2>1, <2>2, <2>3, <2>5 DEF Engaged
  <1>4. CASE pc'[Manager] # "gone"
    <2>1. children' = children
      BY <1>4 DEF Conclude
    <2>2. TypeOK'
      BY <1>2, <2>1 DEF ServiceInv, TypeOK
    <2>3. SameLists
      BY <1>1, <1>2, <1>3, <2>1 DEF SameLists
    <2>4. /\ OneParent' /\ Rooted' /\ Acyclic'
          /\ \A m \in All : Kids(m)' = Kids(m)
          /\ \A c : Fresh(c) => Fresh(c)'
      BY <2>3, ListsKept
    <2>5. DeadKids'
      BY <1>2, <1>3, <1>4, <2>1, <2>3, DeadKept DEF Dying
    <2>6. \A m \in All : Placed(m)'
      BY <1>1, <1>2, <1>3, <1>4, <2>1, <2>4 DEF ServiceInv, Placed, LoopOver, Enough, Second, Partner
    <2>7. OnePlace'
      BY <1>0, <1>1 DEF OnePlace
    <2>8. Supervised'
      BY <1>0 DEF Supervised
    <2>9. ChainHeard'
      BY <1>0 DEF ChainHeard, Waits
    <2>10. NameFree'
      BY <1>1, <1>2, <1>3, <2>4 DEF ServiceInv, NameFree
    <2> QED
      BY <2>2, <2>4, <2>5, <2>6, <2>7, <2>8, <2>9, <2>10 DEF ServiceInv
  <1>5. CASE pc'[Manager] = "gone"
    <2>1. /\ children' = [children EXCEPT ![Manager] = <<>>] /\ children'[Manager] = <<>>
          /\ \A m \in All : m # Manager => children'[m] = children[m]
      BY <1>1, <1>5 DEF Conclude, ServiceInv, TypeOK
    <2>2. TypeOK'
      <3>1. children' \in [All -> Seq(Names)]
        <4>1. children \in [All -> Seq(Names)] /\ <<>> \in Seq(Names)
          BY DEF ServiceInv, TypeOK
        <4> QED
          BY <2>1, <4>1
      <3> QED
        BY <1>2, <3>1 DEF ServiceInv, TypeOK
    <2>3. \A i \in 1 .. Len(children[Manager]) : pc[children[Manager][i]] = "none"
      <3>1. Dying(Manager)
        BY <1>1, <1>2, <1>5 DEF Dying
      <3>2. pos[Manager] >= Len(children[Manager])
        BY <1>1, <1>2, <1>5 DEF Conclude, LoopOver, Enough
      <3>3. \A i \in 1 .. Len(children[Manager]) : i <= pos[Manager]
        BY <1>1, <3>2
      <3> QED
        BY <1>1, <3>1, <3>3 DEF ServiceInv, DeadKids
    <2>4. /\ OneParent' /\ Rooted' /\ Acyclic' /\ DeadKids'
          /\ Kids(Manager)' = {} /\ \A m \in All : m # Manager => Kids(m)' = Kids(m)
          /\ \A c : Fresh(c) => Fresh(c)'
      <3>1. \A m \in All : pc'[m] = "none" <=> pc[m] = "none"
        BY <1>1, <1>3, <1>5
      <3>2. \A m \in All : m # Manager => (Dying(m)' <=> Dying(m)) /\ pos'[m] = pos[m]
        BY <1>2, <1>3 DEF Dying
      <3> QED
        BY <1>1, <2>1, <2>3, <3>1, <3>2, ListsCut
    <2>5. \A m \in All : Placed(m)'
      BY <1>1, <1>2, <1>3, <1>5, <2>1, <2>4 DEF ServiceInv, Placed, LoopOver, Enough, Second, Partner
    <2>6. OnePlace'
      BY <1>0, <1>1 DEF OnePlace
    <2>7. Supervised'
      BY <1>0 DEF Supervised
    <2>8. ChainHeard'
      BY <1>0 DEF ChainHeard, Waits
    <2>9. NameFree'
      BY <1>1, <1>2, <1>3, <1>5, <2>4 DEF ServiceInv, NameFree
    <2> QED
      BY <2>2, <2>4, <2>5, <2>6, <2>7, <2>8, <2>9 DEF ServiceInv
  <1> QED
    BY <1>4, <1>5
-----------------------------------------------------------------------------
(* A parent and one of its children.                                       *)

(* The message says what the parent serves; nobody below works on it yet.  *)
LEMMA InvForward ==
  ASSUME ServiceInv, NEW n \in All, NEW k, k = Kid(n), Forward(n)
  PROVE  ServiceInv'
  <1>1. /\ pc[n] = "each" /\ Placed(n) /\ ~Enough(n) /\ ~LoopOver(n)
        /\ k \in Names /\ k \in All /\ k \in Kids(n) /\ k # n /\ ~Engaged(k) /\ pc[k] # "none"
        /\ \A m \in All : down[m] = <<>> /\ up[m] = <<>> /\ (Holds(m) => m = n)
        /\ Sent(n) \in Commands /\ Sent(n).op # "none"
        /\ Sent(n).op = "spawn" => Fresh(Sent(n).b)
    <2>1. /\ pc[n] = "each" /\ Placed(n) /\ OnePlace /\ cmd[n] \in Commands
          /\ acc[n] \in Nat /\ pos[n] \in Nat /\ Len(children[n]) \in Nat
          /\ ~Enough(n) /\ ~(pos[n] >= Len(children[n]))
      BY DEF ServiceInv, TypeOK, Forward, LoopOver
    <2>2. pos[n] < Len(children[n]) /\ pos[n] + 1 \in 1 .. Len(children[n]) /\ ~(pos[n] + 1 <= pos[n])
      BY <2>1
    <2>3. k \in Names /\ k \in All /\ k \in Kids(n) /\ k # n
      BY <2>2, KidFacts DEF All
    <2>4. ~Engaged(k)
      BY <2>1, <2>3, EngagedParent
    <2>5. pc[k] # "none"
      BY <2>2 DEF ServiceInv, DeadKids, Kid
    <2>6. /\ Sent(n) \in Commands /\ Sent(n).op # "none"
          /\ Sent(n).op = "spawn" => Fresh(Sent(n).b)
      <3>1. CASE cmd[n].op = "exchange"
        <4>1. acc[n] \in 0 .. 1
          BY <2>1, <3>1 DEF Placed, Enough
        <4> QED
          BY <2>1, <3>1, <4>1 DEF Sent, Commands
      <3>2. CASE cmd[n].op # "exchange"
        <4>1. cmd[n].op = "spawn" => acc[n] = 0
          BY <2>1, <3>2 DEF Placed, Enough
        <4> QED
          BY <2>1, <3>2, <4>1 DEF Sent, ServiceInv, NameFree, Placed
      <3> QED
        BY <3>1, <3>2
    <2> QED
      BY <2>1, <2>2, <2>3, <2>4, <2>5, <2>6 DEF OnePlace, Holds, LoopOver
  <1>2. /\ down' = [down EXCEPT ![k] = <<Sent(n)>>] /\ pc' = [pc EXCEPT ![n] = "await"]
        /\ UNCHANGED <<children, secret, up, cmd, pos, acc, tm, fifo, fifos, files, answer, subtree, before>>
    <2>1. down' = [down EXCEPT ![k] = Append(@, Sent(n))]
      BY DEF Forward, Sent
    <2>2. down' = [down EXCEPT ![k] = Append(<<>>, Sent(n))]
      BY <1>1, <2>1
    <2>3. Append(<<>>, Sent(n)) = <<Sent(n)>>
      OBVIOUS
    <2> QED
      BY <2>2, <2>3 DEF Forward, Goto, locals, trade, history
  <1>3. /\ pc'[n] = "await" /\ down'[k] = <<Sent(n)>> /\ Head(down'[k]) = Sent(n)
        /\ \A m \in All : m # n => pc'[m] = pc[m]
        /\ \A m \in All : m # k => down'[m] = <<>>
        /\ Sent(n)' = Sent(n) /\ \A q \in All : \A j : q # n => (Waits(q, j)' <=> Waits(q, j))
        /\ \A j : Waits(n, j)' <=> j = k
    <2>1. \A m \in All : m # n => pc'[m] = pc[m]
      BY <1>2 DEF ServiceInv, TypeOK
    <2>2. pc'[n] = "await" /\ down'[k] = <<Sent(n)>> /\ Head(down'[k]) = Sent(n)
      BY <1>1, <1>2 DEF ServiceInv, TypeOK
    <2>3. \A m \in All : m # k => down'[m] = <<>>
      BY <1>1, <1>2 DEF ServiceInv, TypeOK
    <2> QED
      BY <1>1, <1>2, <2>1, <2>2, <2>3 DEF Sent, Waits, Kid
  <1>4. TypeOK'
    BY <1>1, <1>2 DEF ServiceInv, TypeOK, Labels
  <1>5. SameLists
    BY <1>1, <1>2, <1>3 DEF SameLists
  <1>6. /\ OneParent' /\ Rooted' /\ Acyclic'
        /\ \A m \in All : Kids(m)' = Kids(m)
        /\ \A c : Fresh(c) => Fresh(c)'
    BY <1>5, ListsKept
  <1>7. \A m \in All : Placed(m)'
    <2>1. Placed(n)'
      <3>1. /\ down'[n] = <<>> /\ up'[n] = <<>> /\ pc'[n] = "await"
            /\ cmd'[n] = cmd[n] /\ acc'[n] = acc[n] /\ pos'[n] = pos[n] /\ children'[n] = children[n]
        BY <1>1, <1>2, <1>3
      <3>2. Placed(n) /\ pc[n] = "each" /\ ~LoopOver(n)
        BY <1>1
      <3>3. ~LoopOver(n)' /\ (Second(n)' <=> Second(n))
        BY <1>2, <3>1, <3>2 DEF LoopOver, Enough, Second, Partner
      <3> QED
        BY <3>1, <3>2, <3>3 DEF Placed
    <2>2. ASSUME NEW m \in All, m # n PROVE Placed(m)'
      <3>1. Placed(m) /\ (m = k => m # Manager /\ pc[m] \notin {"exit", "zombie"})
        BY <1>1 DEF ServiceInv, Engaged, All
      <3> QED
        BY <1>1, <1>2, <1>3, <1>6, <2>2, <3>1 DEF Placed, LoopOver, Enough, Second, Partner
    <2> QED
      BY <2>1, <2>2
  <1>8. DeadKids'
    BY <1>1, <1>2, <1>3, <1>5, DeadKept DEF Dying
  <1>9. OnePlace'
    BY <1>1, <1>2, <1>3, <1>5, <1>6 DEF ServiceInv, OnePlace, Holds
  <1>10. Supervised'
    <2>1. /\ Engaged(n)
          /\ \A m \in Names : Engaged(m)' => Engaged(m) \/ m = k \/ m = n
      BY <1>1, <1>2, <1>3 DEF Engaged, Holds, All
    <2> SUFFICES ASSUME NEW m \in Names, Engaged(m)' PROVE \E p \in All : m \in Kids(p)' /\ Waits(p, m)'
      BY DEF Supervised
    <2>2. CASE m = k
      BY <1>1, <1>3, <1>6, <2>2
    <2>3. CASE m # k
      <3>1. PICK p \in All : m \in Kids(p) /\ Waits(p, m)
        BY <2>1, <2>3 DEF ServiceInv, Supervised
      <3>2. p # n
        BY <1>1, <3>1 DEF Waits
      <3> QED
        BY <1>3, <1>6, <3>1, <3>2
    <2> QED
      BY <2>2, <2>3
  <1>11. ChainHeard'
    <2> SUFFICES ASSUME NEW q \in All, NEW j \in Names, Waits(q, j)' PROVE Heard(q, j)'
      BY DEF ChainHeard
    <2>1. CASE q = n
      <3>1. j = k
        BY <1>3, <2>1
      <3> QED
        BY <1>1, <1>2, <1>3, <2>1, <3>1 DEF Heard, Engaged, Holds
    <2>2. CASE q # n
      <3>1. Waits(q, j) /\ Heard(q, j)
        BY <1>3, <2>2 DEF ServiceInv, ChainHeard
      <3>2. j # k
        BY <1>1, <2>2, <3>1, WaitsForKid, KidFacts
      <3>3. CASE j = n
        BY <1>1, <1>2, <1>3, <2>2, <3>1, <3>2, <3>3 DEF Heard, Holds, SameCommand, Targets, Sent
      <3>4. CASE j # n
        BY <1>1, <1>2, <1>3, <1>6, <2>2, <3>1, <3>2, <3>4 DEF Heard, Holds, SameCommand, Targets, Sent, All
      <3> QED
        BY <3>3, <3>4
    <2> QED
      BY <2>1, <2>2
  <1>12. NameFree'
    BY <1>1, <1>2, <1>3, <1>5, <1>6 DEF ServiceInv, NameFree
  <1> QED
    BY <1>4, <1>6, <1>7, <1>8, <1>9, <1>10, <1>11, <1>12 DEF ServiceInv
-----------------------------------------------------------------------------
(* The answer of a child: a child that was killed stays to be waited for,  *)
(* and no other child is left at work.                                     *)
LEMMA InvCollect ==
  ASSUME ServiceInv, NEW n \in All, NEW k, k = Kid(n), Collect(n)
  PROVE  ServiceInv'
  <1> DEFINE reply == Head(up[k])
  <1>1. /\ pc[n] = "await" /\ Placed(n) /\ pos[n] \in Nat /\ acc[n] \in Nat /\ cmd[n] \in Commands
        /\ Len(children[n]) \in Nat /\ pos[n] < Len(children[n]) /\ up[k] # <<>>
        /\ k \in Names /\ k \in All /\ k \in Kids(n) /\ k # n
        /\ Waits(n, k) /\ Heard(n, k)
        /\ reply \in Nat /\ Tail(up[k]) = <<>>
        /\ \A m \in All : down[m] = <<>> /\ ~Holds(m) /\ (m # k => up[m] = <<>>)
    <2>1. /\ pc[n] = "await" /\ Placed(n) /\ pos[n] \in Nat /\ acc[n] \in Nat /\ cmd[n] \in Commands
          /\ Len(children[n]) \in Nat /\ up[k] # <<>> /\ OnePlace
      BY DEF ServiceInv, TypeOK, Collect
    <2>2. pos[n] < Len(children[n])
      BY <2>1 DEF Placed, LoopOver
    <2>3. k \in Names /\ k \in All /\ k \in Kids(n) /\ k # n
      BY <2>2, KidFacts DEF All
    <2>4. Waits(n, k) /\ Heard(n, k)
      BY <2>1, <2>3 DEF Waits, ServiceInv, ChainHeard
    <2>5. reply \in Nat /\ Tail(up[k]) = <<>>
      BY <2>1, <2>3, Pipes
    <2>6. \A m \in All : down[m] = <<>> /\ ~Holds(m) /\ (m # k => up[m] = <<>>)
      BY <2>1, <2>3 DEF OnePlace
    <2> QED
      BY <2>1, <2>2, <2>3, <2>4, <2>5, <2>6
  <1> HIDE DEF reply
  <1>2. /\ up' = [up EXCEPT ![k] = <<>>] /\ acc' = [acc EXCEPT ![n] = NewAcc(n, reply)]
        /\ pc' = [pc EXCEPT ![n] = IF Targets(n, k) THEN "reap" ELSE "each"]
        /\ pos' = IF Targets(n, k) THEN pos ELSE [pos EXCEPT ![n] = pos[n] + 1]
        /\ UNCHANGED <<children, secret, down, cmd, tm, fifo, fifos, files, answer, subtree, before>>
    <2>1. up' = [up EXCEPT ![k] = Tail(up[k])]
      BY <1>1 DEF Collect
    <2> QED
      BY <1>1, <2>1 DEF Collect, Goto, Targets, reply, trade, history
  <1>3. /\ NewAcc(n, reply) \in Nat
        /\ cmd[n].op = "spawn" => NewAcc(n, reply) = reply /\ reply <= 1
        /\ cmd[n].op = "exchange" => NewAcc(n, reply) <= 2
        /\ cmd[n].op = "spawn" /\ reply = 0 => Fresh(cmd[n].b)
    <2>1. /\ cmd[n].op = "spawn" => reply <= 1
          /\ cmd[n].op = "spawn" /\ reply = 0 => Fresh(cmd[n].b)
          /\ cmd[n].op = "exchange" => reply <= 2
      BY <1>1 DEF Heard, reply
    <2>2. cmd[n].op = "exchange" => acc[n] <= 2
      BY <1>1 DEF Placed
    <2> QED
      BY <1>1, <2>1, <2>2 DEF NewAcc
  <1>4. /\ pc'[n] = (IF Targets(n, k) THEN "reap" ELSE "each") /\ pc'[n] \in {"reap", "each"}
        /\ up'[k] = <<>> /\ acc'[n] = NewAcc(n, reply)
        /\ (Targets(n, k) => pos'[n] = pos[n]) /\ (Targets(n, k) <=> pc'[n] = "reap")
        /\ \A m \in All : m # n => pc'[m] = pc[m] /\ acc'[m] = acc[m] /\ pos'[m] = pos[m]
        /\ \A m \in All : up'[m] = <<>> /\ down'[m] = <<>>
    <2>1. /\ pc \in [All -> Labels] /\ acc \in [All -> Nat] /\ pos \in [All -> Nat]
          /\ up \in [All -> Seq(Nat)]
      BY DEF ServiceInv, TypeOK
    <2>2. /\ pc'[n] = (IF Targets(n, k) THEN "reap" ELSE "each") /\ acc'[n] = NewAcc(n, reply)
          /\ \A m \in All : m # n => pc'[m] = pc[m] /\ acc'[m] = acc[m]
      BY <1>1, <1>2, <2>1
    <2>3. /\ Targets(n, k) => pos'[n] = pos[n]
          /\ \A m \in All : m # n => pos'[m] = pos[m]
      BY <1>1, <1>2, <2>1
    <2>4. \A m \in All : up'[m] = <<>> /\ down'[m] = <<>>
      BY <1>1, <1>2, <2>1
    <2> QED
      BY <1>1, <2>2, <2>3, <2>4
  <1>5. TypeOK'
    <2>1. pc' \in [All -> Labels]
      BY <1>2 DEF ServiceInv, TypeOK, Labels
    <2>2. acc' \in [All -> Nat] /\ pos' \in [All -> Nat]
      <3>1. acc \in [All -> Nat] /\ pos \in [All -> Nat] /\ pos[n] + 1 \in Nat
        BY DEF ServiceInv, TypeOK
      <3>2. acc' \in [All -> Nat]
        BY <1>2, <1>3, <3>1
      <3>3. pos' \in [All -> Nat]
        BY <1>2, <3>1
      <3> QED
        BY <3>2, <3>3
    <2>3. up' \in [All -> Seq(Nat)] /\ \A m \in All : Len(up'[m]) <= 1
      <3>1. up \in [All -> Seq(Nat)] /\ <<>> \in Seq(Nat) /\ Len(<<>>) <= 1
        BY DEF ServiceInv, TypeOK
      <3> QED
        BY <1>2, <1>4, <3>1
    <2> QED
      BY <1>2, <2>1, <2>2, <2>3 DEF ServiceInv, TypeOK
  <1>6. SameLists
    BY <1>1, <1>2, <1>4 DEF SameLists
  <1>7. /\ OneParent' /\ Rooted' /\ Acyclic'
        /\ \A m \in All : Kids(m)' = Kids(m)
        /\ \A c : Fresh(c) => Fresh(c)'
    BY <1>6, ListsKept
  <1>8. \A m \in All : Placed(m)'
    <2>1. Placed(n)'
      <3>1. /\ down'[n] = <<>> /\ up'[n] = <<>> /\ cmd'[n] = cmd[n] /\ children'[n] = children[n]
            /\ (Second(n)' <=> Second(n)) /\ (pc'[n] = "reap" => pos'[n] < Len(children[n]))
            /\ pc'[n] = "reap" => cmd[n].op = "kill"
        BY <1>1, <1>2, <1>4 DEF Second, Partner, Targets
      <3> QED
        BY <1>1, <1>3, <1>4, <3>1 DEF Placed
    <2>2. ASSUME NEW m \in All, m # n PROVE Placed(m)'
      <3>1. Placed(m)
        BY DEF ServiceInv
      <3> QED
        BY <1>1, <1>2, <1>4, <1>7, <2>2, <3>1 DEF Placed, LoopOver, Enough, Second, Partner
    <2> QED
      BY <2>1, <2>2
  <1>9. DeadKids'
    <2>1. \A m \in All : (Dying(m)' <=> Dying(m)) /\ (Dying(m) => pos'[m] = pos[m])
      <3>1. cmd'[n] = cmd[n] /\ (Dying(n) => Targets(n, k))
        BY <1>2 DEF Dying, Targets
      <3> QED
        BY <1>1, <1>2, <1>4, <3>1 DEF Dying
    <2> QED
      BY <1>6, <2>1, DeadKept
  <1>10. OnePlace'
    <2>1. \A m \in All : m # n => (Holds(m)' <=> Holds(m))
      BY <1>2, <1>4 DEF Holds
    <2> QED
      BY <1>1, <1>4, <2>1 DEF OnePlace
  <1>11. \A q \in All : \A j : q # n => (Waits(q, j)' <=> Waits(q, j))
    BY <1>2, <1>4 DEF Waits, Kid
  <1>12. Supervised'
    <2> SUFFICES ASSUME NEW m \in Names, Engaged(m)' PROVE \E p \in All : m \in Kids(p)' /\ Waits(p, m)'
      BY DEF Supervised
    <2>1. m \in All
      BY DEF All
    <2>2. Engaged(m)
      <3>1. CASE m = n
        BY <1>1, <3>1 DEF Engaged
      <3>2. CASE m # n
        BY <1>2, <1>4, <2>1, <3>2 DEF Engaged, Holds
      <3> QED
        BY <3>1, <3>2
    <2>3. PICK p \in All : m \in Kids(p) /\ Waits(p, m)
      BY <2>2 DEF ServiceInv, Supervised
    <2>4. CASE p = n
      <3>1. m = k
        BY <1>1, <2>3, <2>4 DEF Waits
      <3>2. pc[k] \in {"exit", "zombie"}
        <4>1. pc[k] \notin {"await", "hear"} /\ pc'[k] = pc[k] /\ ~Holds(k)'
          BY <1>1, <1>2, <1>4 DEF Heard, Holds
        <4> QED
          BY <1>1, <1>4, <3>1, <4>1 DEF Engaged
      <3>3. Targets(n, k)
        BY <1>1, <3>2 DEF Heard
      <3>4. Waits(n, k)'
        BY <1>1, <1>2, <1>4, <3>3 DEF Waits, Kid
      <3> QED
        BY <1>7, <2>3, <2>4, <3>1, <3>4
    <2>5. CASE p # n
      BY <1>7, <1>11, <2>3, <2>5
    <2> QED
      BY <2>4, <2>5
  <1>13. ChainHeard'
    <2> SUFFICES ASSUME NEW q \in All, NEW j \in Names, Waits(q, j)' PROVE Heard(q, j)'
      BY DEF ChainHeard
    <2>1. CASE q = n
      <3>1. pc'[n] = "reap" /\ Targets(n, k) /\ j = k
        BY <1>1, <1>2, <1>4, <2>1 DEF Waits, Kid
      <3>2. pc'[k] \in {"exit", "zombie"}
        BY <1>1, <1>4, <3>1 DEF Heard
      <3> QED
        BY <2>1, <3>1, <3>2 DEF Heard
    <2>2. CASE q # n
      <3>1. Waits(q, j) /\ Heard(q, j)
        BY <1>11, <2>2 DEF ServiceInv, ChainHeard
      <3>2. j # k
        BY <1>1, <2>2, <3>1, WaitsForKid, KidFacts
      <3>3. CASE j = n
        <4>1. pc[q] = "await" /\ SameCommand(q, n)
          BY <1>1, <3>1, <3>3 DEF Heard, Waits
        <4>2. SameCommand(q, n)' /\ pc'[q] = "await"
          BY <1>2, <1>4, <2>2, <4>1 DEF SameCommand, Targets
        <4> QED
          BY <1>1, <1>4, <3>3, <4>2 DEF Heard
      <3>4. CASE j # n
        BY <1>1, <1>2, <1>4, <1>7, <2>2, <3>1, <3>2, <3>4 DEF Heard, Holds, SameCommand, Targets, Sent, All
      <3> QED
        BY <3>3, <3>4
    <2> QED
      BY <2>1, <2>2
  <1>14. NameFree'
    <2>1. \A m \in All : ~(pc[m] = "fork") /\ ~(pc[m] = "each")
      BY <1>1 DEF Holds
    <2>2. pc'[n] = "each" /\ cmd[n].op = "spawn" /\ acc'[n] = 0 => Fresh(cmd[n].b)'
      BY <1>2, <1>3, <1>4, <1>7 DEF Fresh
    <2> QED
      BY <1>2, <1>4, <2>1, <2>2 DEF NameFree
  <1> QED
    BY <1>5, <1>7, <1>8, <1>9, <1>10, <1>12, <1>13, <1>14 DEF ServiceInv
(* The parent of a new service tells its own parent, or the user.          *)
LEMMA InvHear ==
  ASSUME ServiceInv, NEW n \in All, NEW c, c = cmd[n].b, Hear(n)
  PROVE  ServiceInv'
  <1>1. /\ pc[n] = "hear" /\ Placed(n) /\ cmd[n].op = "spawn"
        /\ c \in Names /\ c \in All /\ c \in Kids(n) /\ c # n /\ c # Manager
        /\ pc[c] = "idle" /\ up[c] # <<>> /\ Head(up[c]) = 1 /\ Tail(up[c]) = <<>>
        /\ \A m \in All : down[m] = <<>> /\ ~Holds(m) /\ (m # c => up[m] = <<>>)
    <2>1. pc[n] = "hear" /\ Placed(n) /\ OnePlace /\ up[c] # <<>>
      BY DEF ServiceInv, Hear
    <2>2. c \in Names /\ c \in All /\ c \in Kids(n) /\ c # n /\ c # Manager /\ cmd[n].op = "spawn"
      BY <2>1, KidFacts DEF Placed, All
    <2>3. Heard(n, c)
      BY <2>1, <2>2 DEF Waits, ServiceInv, ChainHeard
    <2>4. Head(up[c]) = 1 /\ Tail(up[c]) = <<>>
      BY <2>1, <2>2, <2>3, Pipes DEF Heard
    <2>5. \A m \in All : down[m] = <<>> /\ ~Holds(m) /\ (m # c => up[m] = <<>>)
      BY <2>1, <2>2 DEF OnePlace
    <2>6. pc[c] = "idle"
      BY <2>1, <2>2, <2>3, <2>5 DEF Heard, Holds
    <2> QED
      BY <2>1, <2>2, <2>4, <2>5, <2>6
  <1>2. /\ pc' = [pc EXCEPT ![n] = "idle"]
        /\ up' = IF n = Manager THEN [up EXCEPT ![c] = <<>>] ELSE [up EXCEPT ![c] = <<>>, ![n] = <<1>>]
        /\ cmd' = IF n = Manager THEN cmd ELSE [cmd EXCEPT ![n] = NoCommand]
        /\ pos' = IF n = Manager THEN pos ELSE [pos EXCEPT ![n] = 0]
        /\ acc' = IF n = Manager THEN acc ELSE [acc EXCEPT ![n] = 0]
        /\ answer' = answer \/ answer' = [told |-> "spawned", count |-> 0]
        /\ UNCHANGED <<children, secret, down, tm, fifo, fifos, files, subtree, before>>
    <2>1. /\ [up EXCEPT ![c] = Tail(@)] = [up EXCEPT ![c] = <<>>]
          /\ up \in [All -> Seq(Nat)]
      BY <1>1 DEF ServiceInv, TypeOK
    <2>2. [[up EXCEPT ![c] = <<>>] EXCEPT ![n] = Append(@, 1)] = [up EXCEPT ![c] = <<>>, ![n] = <<1>>]
      <3>1. [up EXCEPT ![c] = <<>>][n] = <<>> /\ Append(<<>>, 1) = <<1>>
        BY <1>1, <2>1
      <3> QED
        BY <3>1
    <2>3. CASE n = Manager
      BY <1>1, <2>1, <2>3 DEF Hear, Tell, Goto, locals, trade, history
    <2>4. CASE n # Manager
      BY <1>1, <2>1, <2>2, <2>4 DEF Hear, Rest, Serve, Goto, trade, history
    <2> QED
      BY <2>3, <2>4
  <1>3. /\ pc'[n] = "idle" /\ up'[c] = <<>>
        /\ up'[n] = (IF n = Manager THEN <<>> ELSE <<1>>)
        /\ \A m \in All : m # n => /\ pc'[m] = pc[m] /\ up'[m] = <<>> /\ cmd'[m] = cmd[m]
                                  /\ pos'[m] = pos[m] /\ acc'[m] = acc[m]
    BY <1>1, <1>2 DEF ServiceInv, TypeOK
  <1>4. TypeOK'
    <2>1. pc' \in [All -> Labels]
      BY <1>2 DEF ServiceInv, TypeOK, Labels
    <2>2. cmd' \in [All -> Commands] /\ pos' \in [All -> Nat] /\ acc' \in [All -> Nat]
      BY <1>2, NoCommandTyped DEF ServiceInv, TypeOK
    <2>3. up' \in [All -> Seq(Nat)] /\ \A m \in All : Len(up'[m]) <= 1
      <3>1. up \in [All -> Seq(Nat)] /\ <<>> \in Seq(Nat) /\ <<1>> \in Seq(Nat) /\ Len(<<>>) <= 1 /\ Len(<<1>>) <= 1
        BY DEF ServiceInv, TypeOK
      <3> QED
        BY <1>1, <1>2, <1>3, <3>1
    <2>4. answer' \in [told : {"nothing", "spawned", "missing", "killed", "exchanged"}, count : Nat]
      BY <1>2 DEF ServiceInv, TypeOK
    <2>5. UNCHANGED <<children, secret, down, tm, fifo, fifos, files, subtree, before>>
      BY <1>2
    <2> QED
      BY <2>1, <2>2, <2>3, <2>4, <2>5 DEF ServiceInv, TypeOK
  <1>5. SameLists
    BY <1>1, <1>2, <1>3 DEF SameLists
  <1>6. /\ OneParent' /\ Rooted' /\ Acyclic'
        /\ \A m \in All : Kids(m)' = Kids(m)
        /\ \A j : Fresh(j) => Fresh(j)'
    BY <1>5, ListsKept
  <1>7. \A m \in All : Placed(m)'
    <2>1. ASSUME NEW m \in All PROVE Placed(m)'
      <3>1. Placed(m)
        BY DEF ServiceInv
      <3>2. CASE m = n
        <4>1. (n # Manager => up'[n] = <<1>>) /\ (n = Manager => up'[n] = <<>>) /\ down'[n] = <<>>
          BY <1>1, <1>2, <1>3
        <4> QED
          BY <1>1, <1>3, <3>1, <3>2, <4>1 DEF Placed
      <3>3. CASE m # n
        <4>1. /\ children'[m] = children[m] /\ pc'[m] = pc[m] /\ cmd'[m] = cmd[m]
              /\ pos'[m] = pos[m] /\ acc'[m] = acc[m] /\ down'[m] = down[m] /\ up'[m] = <<>>
          BY <1>2, <1>3, <3>3
        <4>2. CASE m = c
          <5>1. m # Manager /\ pc[m] = "idle"
            BY <1>1, <4>2 DEF All
          <5> QED
            BY <3>1, <4>1, <5>1 DEF Placed
        <4>3. CASE m # c
          BY <1>1, <3>1, <4>1, <4>3, PlacedKept
        <4> QED
          BY <4>2, <4>3
      <3> QED
        BY <3>2, <3>3
    <2> QED
      BY <2>1
  <1>8. DeadKids'
    BY <1>1, <1>3, <1>5, DeadKept DEF Dying
  <1>9. OnePlace'
    <2>1. \A m \in All : Holds(m)' <=> m = n /\ n = Manager
      BY <1>1, <1>3 DEF Holds
    <2>2. \A m \in All : down'[m] = <<>> /\ (up'[m] # <<>> => m = n /\ n # Manager)
      BY <1>1, <1>2, <1>3
    <2> QED
      BY <2>1, <2>2 DEF OnePlace
  <1>10. \A q \in All : \A j : Waits(q, j)' => q # n /\ Waits(q, j)
    BY <1>2, <1>3 DEF Waits, Kid
  <1>11. Supervised'
    <2> SUFFICES ASSUME NEW m \in Names, Engaged(m)' PROVE \E p \in All : m \in Kids(p)' /\ Waits(p, m)'
      BY DEF Supervised
    <2>1. m \in All
      BY DEF All
    <2>2. Engaged(m) /\ m # c
      <3>1. down'[m] = <<>> /\ (m # n => pc'[m] = pc[m] /\ cmd'[m] = cmd[m] /\ acc'[m] = acc[m] /\ up'[m] = <<>>)
        BY <1>1, <1>2, <1>3, <2>1
      <3>2. m # c
        <4>1. c # Manager /\ pc'[c] = "idle" /\ up'[c] = <<>> /\ down'[c] = <<>>
          BY <1>1, <1>2, <1>3 DEF All
        <4> QED
          BY <4>1 DEF Engaged, Holds
      <3>3. CASE m = n
        BY <1>1, <3>2, <3>3 DEF Engaged
      <3>4. CASE m # n
        BY <3>1, <3>2, <3>4 DEF Engaged, Holds
      <3> QED
        BY <3>3, <3>4
    <2>3. PICK p \in All : m \in Kids(p) /\ Waits(p, m)
      BY <2>2 DEF ServiceInv, Supervised
    <2>4. p # n
      BY <1>1, <2>2, <2>3 DEF Waits
    <2> QED
      BY <1>2, <1>3, <1>6, <2>3, <2>4 DEF Waits, Kid
  <1>12. ChainHeard'
    <2> SUFFICES ASSUME NEW q \in All, NEW j \in Names, Waits(q, j)' PROVE Heard(q, j)'
      BY DEF ChainHeard
    <2>1. q # n /\ Waits(q, j) /\ Heard(q, j)
      BY <1>10 DEF ServiceInv, ChainHeard
    <2>2. j # c
      BY <1>1, <2>1, WaitsForKid, KidFacts
    <2>3. CASE j = n
      <3>1. pc[q] = "await" /\ cmd[q].op = "spawn"
        BY <1>1, <2>1, <2>3 DEF Heard, Waits, SameCommand
      <3>2. n # Manager /\ up'[n] = <<1>> /\ Head(<<1>>) = 1
        BY <1>3, <2>3
      <3> QED
        <4>1. pc'[q] = "await" /\ cmd'[q].op = "spawn" /\ pc'[n] = "idle" /\ down'[n] = <<>>
          BY <1>1, <1>2, <1>3, <2>1, <3>1
        <4>2. ~Holds(n)' /\ ~Targets(q, n)'
          BY <3>2, <4>1 DEF Holds, Targets
        <4> QED
          BY <2>3, <3>2, <4>1, <4>2 DEF Heard
    <2>4. CASE j # n
      <3>1. j \in All /\ up[j] = <<>> /\ up'[j] = <<>> /\ down'[j] = down[j]
        BY <1>1, <1>2, <1>3, <2>2, <2>4 DEF All
      <3>2. /\ pc'[q] = pc[q] /\ cmd'[q] = cmd[q] /\ acc'[q] = acc[q]
            /\ pc'[j] = pc[j] /\ cmd'[j] = cmd[j] /\ acc'[j] = acc[j]
        BY <1>3, <2>1, <2>4, <3>1
      <3> QED
        BY <2>1, <3>1, <3>2, HeardKept
    <2> QED
      BY <2>3, <2>4
  <1>13. NameFree'
    <2>1. \A m \in All : pc'[m] # "fork" /\ pc'[m] # "each"
      BY <1>1, <1>3 DEF Holds
    <2> QED
      BY <1>1, <1>2, <2>1 DEF NameFree
  <1> QED
    BY <1>4, <1>6, <1>7, <1>8, <1>9, <1>11, <1>12, <1>13 DEF ServiceInv
-----------------------------------------------------------------------------
(* waitpid and deleteNode.                                                 *)
LEMMA DeleteNodeProperties ==
  ASSUME NEW s \in Seq(Names), NEW i \in 1 .. Len(s)
  PROVE  /\ DeleteNode(s, i) \in Seq(Names)
         /\ Len(DeleteNode(s, i)) = Len(s) - 1
         /\ \A j \in 1 .. Len(s) - 1 : DeleteNode(s, i)[j] = IF j < i THEN s[j] ELSE s[j + 1]
  <1> DEFINE u == SubSeq(s, 1, i - 1)
             v == SubSeq(s, i + 1, Len(s))
  <1>1. Len(s) \in Nat /\ i \in Nat /\ i >= 1 /\ i <= Len(s)
    OBVIOUS
  <1>2. /\ u \in Seq(Names) /\ Len(u) = i - 1
        /\ \A j \in 1 .. i - 1 : u[j] = s[j]
    <2>1. \A j \in 1 .. i - 1 : s[j] \in Names
      BY <1>1
    <2>2. 1 \in Int /\ i - 1 \in Int
      BY <1>1
    <2> HIDE DEF u
    <2>3. /\ SubSeq(s, 1, i - 1) \in Seq(Names)
          /\ Len(SubSeq(s, 1, i - 1)) = IF 1 <= i - 1 THEN (i - 1) - 1 + 1 ELSE 0
          /\ \A j \in 1 .. (i - 1) - 1 + 1 : SubSeq(s, 1, i - 1)[j] = s[1 + j - 1]
      BY <2>1, <2>2, SubSeqProperties
    <2>4. /\ (IF 1 <= i - 1 THEN (i - 1) - 1 + 1 ELSE 0) = i - 1 /\ (i - 1) - 1 + 1 = i - 1
          /\ \A j \in 1 .. i - 1 : 1 + j - 1 = j
      BY <1>1
    <2> QED
      BY <2>3, <2>4 DEF u
  <1>3. /\ v \in Seq(Names) /\ Len(v) = Len(s) - i
        /\ \A j \in 1 .. Len(s) - i : v[j] = s[j + i]
    <2>1. \A j \in i + 1 .. Len(s) : s[j] \in Names
      BY <1>1
    <2>2. i + 1 \in Int /\ Len(s) \in Int
      BY <1>1
    <2> HIDE DEF v
    <2>3. /\ SubSeq(s, i + 1, Len(s)) \in Seq(Names)
          /\ Len(SubSeq(s, i + 1, Len(s))) = IF i + 1 <= Len(s) THEN Len(s) - (i + 1) + 1 ELSE 0
          /\ \A j \in 1 .. Len(s) - (i + 1) + 1 : SubSeq(s, i + 1, Len(s))[j] = s[(i + 1) + j - 1]
      BY <2>1, <2>2, SubSeqProperties
    <2>4. /\ (IF i + 1 <= Len(s) THEN Len(s) - (i + 1) + 1 ELSE 0) = Len(s) - i /\ Len(s) - (i + 1) + 1 = Len(s) - i
          /\ \A j \in 1 .. Len(s) - i : (i + 1) + j - 1 = j + i
      BY <1>1
    <2> QED
      BY <2>3, <2>4 DEF v
  <1> HIDE DEF u, v
  <1>4. /\ u \o v \in Seq(Names) /\ Len(u \o v) = Len(u) + Len(v)
        /\ \A j \in 1 .. Len(u) + Len(v) : (u \o v)[j] = IF j <= Len(u) THEN u[j] ELSE v[j - Len(u)]
    BY <1>2, <1>3, ConcatProperties
  <1>5. Len(u) + Len(v) = Len(s) - 1
    BY <1>1, <1>2, <1>3
  <1>6. ASSUME NEW j \in 1 .. Len(s) - 1
        PROVE  (u \o v)[j] = IF j < i THEN s[j] ELSE s[j + 1]
    <2>1. CASE j < i
      <3>1. j <= Len(u) /\ j \in 1 .. i - 1
        BY <1>1, <1>2, <2>1
      <3> QED
        BY <1>2, <1>4, <1>5, <2>1, <3>1
    <2>2. CASE ~(j < i)
      <3>1. ~(j <= Len(u)) /\ j - Len(u) \in 1 .. Len(s) - i /\ (j - Len(u)) + i = j + 1
        BY <1>1, <1>2, <2>2
      <3>2. (u \o v)[j] = v[j - Len(u)]
        BY <1>4, <1>5, <3>1
      <3>3. v[j - Len(u)] = s[(j - Len(u)) + i]
        BY <1>3, <3>1
      <3> QED
        BY <2>2, <3>1, <3>2, <3>3
    <2> QED
      BY <2>1, <2>2
  <1>7. DeleteNode(s, i) = u \o v
    BY DEF DeleteNode, u, v
  <1> QED
    BY <1>4, <1>5, <1>6, <1>7

(* A dead child leaves the list of its parent; in a list that dies as a    *)
(* whole it stays, marked by the position of the loop.                     *)
LEMMA InvReap ==
  ASSUME ServiceInv, NEW n \in All, NEW k, k = Kid(n), Reap(n)
  PROVE  ServiceInv'
  <1> DEFINE i0 == pos[n] + 1
  <1>1. /\ pc[n] = "reap" /\ Placed(n) /\ pos[n] \in Nat /\ acc[n] \in Nat /\ cmd[n] \in Commands
        /\ children[n] \in Seq(Names) /\ Len(children[n]) \in Nat
        /\ i0 \in 1 .. Len(children[n]) /\ children[n][i0] = k
        /\ pc[k] = "zombie" /\ k \in Names /\ k \in All /\ k \in Kids(n) /\ k # n /\ k # Manager
        /\ cmd[n].op = "kill" /\ children[k] = <<>>
        /\ \A m \in All : down[m] = <<>> /\ up[m] = <<>> /\ (Holds(m) => m = n)
    <2>1. /\ pc[n] = "reap" /\ Placed(n) /\ pos[n] \in Nat /\ acc[n] \in Nat /\ cmd[n] \in Commands
          /\ children[n] \in Seq(Names) /\ Len(children[n]) \in Nat /\ pc[k] = "zombie" /\ OnePlace
      BY DEF ServiceInv, TypeOK, Reap
    <2>2. pos[n] < Len(children[n]) /\ cmd[n].op = "kill"
      BY <2>1 DEF Placed
    <2>3. i0 \in 1 .. Len(children[n]) /\ children[n][i0] = k
      BY <2>1, <2>2 DEF Kid
    <2>4. k \in Names /\ k \in All /\ k \in Kids(n) /\ k # n /\ k # Manager
      BY <2>2, KidFacts DEF All
    <2>5. Placed(k)
      BY <2>4 DEF ServiceInv
    <2>6. children[k] = <<>>
      BY <2>1, <2>5 DEF Placed
    <2>7. \A m \in All : down[m] = <<>> /\ up[m] = <<>> /\ (Holds(m) => m = n)
      BY <2>1 DEF OnePlace, Holds
    <2> QED
      BY <2>1, <2>2, <2>3, <2>4, <2>6, <2>7
  <1> HIDE DEF i0
  <1>2. /\ pc' = [pc EXCEPT ![n] = "each", ![k] = "none"] /\ pos' = [pos EXCEPT ![n] = i0]
        /\ children' = IF cmd[n].g = 1 THEN children ELSE [children EXCEPT ![n] = DeleteNode(children[n], i0)]
        /\ UNCHANGED <<secret, down, up, cmd, acc, tm, fifo, fifos, files, answer, subtree, before>>
    BY DEF Reap, i0, pipes, trade, history
  <1>3. /\ pc'[n] = "each" /\ pc'[k] = "none" /\ pos'[n] = i0
        /\ \A m \in All : m # n /\ m # k => pc'[m] = pc[m]
        /\ \A m \in All : m # n => pos'[m] = pos[m] /\ children'[m] = children[m]
        /\ cmd[n].g = 1 => children'[n] = children[n]
        /\ cmd[n].g # 1 => children'[n] = DeleteNode(children[n], i0)
    BY <1>1, <1>2 DEF ServiceInv, TypeOK
  <1>4. TypeOK'
    <2>1. pc' \in [All -> Labels]
      BY <1>2 DEF ServiceInv, TypeOK, Labels
    <2>2. pos' \in [All -> Nat]
      BY <1>1, <1>2 DEF ServiceInv, TypeOK, i0
    <2>3. children' \in [All -> Seq(Names)]
      <3>1. DeleteNode(children[n], i0) \in Seq(Names)
        BY <1>1, DeleteNodeProperties
      <3> QED
        BY <1>2, <3>1 DEF ServiceInv, TypeOK
    <2> QED
      BY <1>2, <2>1, <2>2, <2>3 DEF ServiceInv, TypeOK
  <1>4a. cmd[n].g # 1 =>
            /\ Len(children'[n]) = Len(children[n]) - 1
            /\ \A j \in 1 .. Len(children[n]) - 1 :
                 children'[n][j] = IF j < i0 THEN children[n][j] ELSE children[n][j + 1]
    <2>1. /\ Len(DeleteNode(children[n], i0)) = Len(children[n]) - 1
          /\ \A j \in 1 .. Len(children[n]) - 1 :
               DeleteNode(children[n], i0)[j] = IF j < i0 THEN children[n][j] ELSE children[n][j + 1]
      BY <1>1, DeleteNodeProperties, Zenon
    <2>2. cmd[n].g # 1 => children'[n] = DeleteNode(children[n], i0)
      BY <1>3
    <2> HIDE DEF DeleteNode
    <2> QED
      BY <2>1, <2>2, Zenon
  (* What stands at place i of the new list stood at place at(p, i).       *)
  <1> DEFINE at(p, i) == IF p = n /\ cmd[n].g # 1 /\ ~(i < i0) THEN i + 1 ELSE i
  <1>5. \A p \in All : \A i \in 1 .. Len(children'[p]) :
          /\ at(p, i) \in 1 .. Len(children[p]) /\ children'[p][i] = children[p][at(p, i)]
          /\ p = n /\ cmd[n].g # 1 => at(p, i) # i0
    <2> SUFFICES ASSUME NEW p \in All, NEW i \in 1 .. Len(children'[p])
                 PROVE  /\ at(p, i) \in 1 .. Len(children[p]) /\ children'[p][i] = children[p][at(p, i)]
                        /\ p = n /\ cmd[n].g # 1 => at(p, i) # i0
      OBVIOUS
    <2>1. CASE p = n /\ cmd[n].g # 1
      <3>1. /\ Len(children'[n]) = Len(children[n]) - 1
            /\ \A j \in 1 .. Len(children[n]) - 1 :
                 children'[n][j] = IF j < i0 THEN children[n][j] ELSE children[n][j + 1]
        BY <1>4a, <2>1
      <3> QED
        BY <1>1, <2>1, <3>1
    <2>2. CASE ~(p = n /\ cmd[n].g # 1)
      BY <1>3, <2>2
    <2> QED
      BY <2>1, <2>2
  <1>6. \A p \in All : \A i, j \in 1 .. Len(children'[p]) : at(p, i) = at(p, j) => i = j
    <2>1. \A p \in All : \A i \in 1 .. Len(children'[p]) : i \in Int
      OBVIOUS
    <2> QED
      BY <1>1, <2>1
  <1> HIDE DEF at
  <1>7. OneParent'
    <2> SUFFICES ASSUME NEW p \in All, NEW q \in All,
                        NEW i \in 1 .. Len(children'[p]), NEW j \in 1 .. Len(children'[q]),
                        children'[p][i] = children'[q][j]
                 PROVE  p = q /\ i = j
      BY DEF OneParent
    <2>1. p = q /\ at(p, i) = at(q, j)
      <3>1. /\ at(p, i) \in 1 .. Len(children[p]) /\ children'[p][i] = children[p][at(p, i)]
            /\ at(q, j) \in 1 .. Len(children[q]) /\ children'[q][j] = children[q][at(q, j)]
        BY <1>5
      <3> DEFINE a == at(p, i)
                 b == at(q, j)
      <3>2. a \in 1 .. Len(children[p]) /\ b \in 1 .. Len(children[q]) /\ children[p][a] = children[q][b]
        BY <3>1
      <3> HIDE DEF a, b
      <3>3. p = q /\ a = b
        BY <3>2, Zenon DEF ServiceInv, OneParent
      <3> QED
        BY <3>3 DEF a, b
    <2> QED
      BY <1>6, <2>1
  <1>8. /\ \A p \in All : Kids(p)' \subseteq Kids(p)
        /\ \A p \in All : \A m \in Kids(p) : m # k => m \in Kids(p)'
        /\ cmd[n].g # 1 => k \notin Kids(n)'
    <2>1. \A p \in All : Kids(p)' \subseteq Kids(p)
      BY <1>5 DEF Kids
    <2>2. ASSUME NEW p \in All, NEW m \in Kids(p), m # k PROVE m \in Kids(p)'
      <3>1. PICK j \in 1 .. Len(children[p]) : m = children[p][j]
        BY DEF Kids
      <3>2. CASE p = n /\ cmd[n].g # 1
        <4>1. j # i0
          BY <1>1, <2>2, <3>1, <3>2
        <4>2. /\ Len(children'[n]) = Len(children[n]) - 1
              /\ \A l \in 1 .. Len(children[n]) - 1 :
                   children'[n][l] = IF l < i0 THEN children[n][l] ELSE children[n][l + 1]
          BY <1>4a, <3>2
        <4>3. CASE j < i0
          <5>1. j \in 1 .. Len(children[n]) - 1
            BY <1>1, <3>2, <4>3
          <5> QED
            BY <3>1, <3>2, <4>2, <4>3, <5>1 DEF Kids
        <4>4. CASE ~(j < i0)
          <5>1. j - 1 \in 1 .. Len(children[n]) - 1 /\ ~(j - 1 < i0) /\ (j - 1) + 1 = j
            BY <1>1, <3>2, <4>1, <4>4
          <5>2. children'[n][j - 1] = m
            BY <3>1, <3>2, <4>2, <5>1
          <5> QED
            BY <3>2, <4>2, <5>1, <5>2 DEF Kids
        <4> QED
          BY <4>3, <4>4
      <3>3. CASE ~(p = n /\ cmd[n].g # 1)
        BY <1>3, <3>1, <3>3 DEF Kids
      <3> QED
        BY <3>2, <3>3
    <2>3. ASSUME cmd[n].g # 1, k \in Kids(n)' PROVE FALSE
      <3>1. PICK i \in 1 .. Len(children'[n]) : children'[n][i] = k
        BY <2>3 DEF Kids
      <3>2. children[n][at(n, i)] = children[n][i0] /\ at(n, i) # i0 /\ at(n, i) \in 1 .. Len(children[n])
        BY <1>1, <1>5, <2>3, <3>1
      <3> QED
        BY <1>1, <3>2 DEF ServiceInv, OneParent
    <2> QED
      BY <2>1, <2>2, <2>3
  <1>9. Rooted'
    <2> SUFFICES ASSUME NEW m \in Names, pc'[m] # "none" PROVE \E p \in All : m \in Kids(p)'
      BY DEF Rooted
    <2>1. m # k /\ pc[m] # "none"
      BY <1>1, <1>3 DEF All
    <2> QED
      BY <1>8, <2>1 DEF ServiceInv, Rooted
  <1>10. Acyclic'
    <2> SUFFICES ASSUME NEW S \in SUBSET Names, \A m \in S : \E p \in S : m \in Kids(p)'
                 PROVE  S = {}
      BY DEF Acyclic
    <2>1. \A m \in S : \E p \in S : m \in Kids(p)
      BY <1>8 DEF All
    <2> QED
      BY <2>1 DEF ServiceInv, Acyclic
  <1>11. \A c : Fresh(c) => Fresh(c)'
    <2>1. \A m \in All : pc[m] = "none" => pc'[m] = "none"
      BY <1>1, <1>3
    <2> QED
      BY <1>8, <2>1 DEF Fresh, All
  <1>12. DeadKids'
    <2> SUFFICES ASSUME NEW p \in All, NEW i \in 1 .. Len(children'[p])
                 PROVE  pc'[children'[p][i]] = "none" <=> Dying(p)' /\ i <= pos'[p]
      BY DEF DeadKids
    <2> DEFINE m == children'[p][i]
    <2>1. at(p, i) \in 1 .. Len(children[p]) /\ m = children[p][at(p, i)] /\ m \in All
      <3>1. at(p, i) \in 1 .. Len(children[p]) /\ m = children[p][at(p, i)]
        BY <1>5
      <3>2. children[p] \in Seq(Names)
        BY DEF ServiceInv, TypeOK
      <3>3. \A l \in 1 .. Len(children[p]) : children[p][l] \in All
        BY <3>2 DEF All
      <3> QED
        BY <3>1, <3>3
    <2>2. pc[m] = "none" <=> Dying(p) /\ at(p, i) <= pos[p]
      BY <2>1 DEF ServiceInv, DeadKids
    <2>3. m = k <=> p = n /\ at(p, i) = i0
      BY <1>1, <2>1 DEF ServiceInv, OneParent
    <2> HIDE DEF m
    <2>4. CASE p # n
      <3>1. m # k /\ pos'[p] = pos[p] /\ at(p, i) = i /\ (pc'[p] = pc[p] \/ p = k)
        BY <1>3, <2>3, <2>4 DEF at
      <3>2. p # k
        BY <1>1, <1>3, <2>4
      <3>3. Dying(p)' <=> Dying(p)
        BY <1>2, <3>1, <3>2 DEF Dying
      <3>4. pc'[m] = "none" <=> pc[m] = "none"
        BY <1>1, <1>3, <2>1, <3>1
      <3> QED
        BY <2>2, <3>1, <3>3, <3>4 DEF m
    <2>5. CASE p = n /\ cmd[n].g = 1
      <3>1. Dying(n) /\ Dying(n)' /\ at(p, i) = i /\ pos'[n] = pos[n] + 1
        BY <1>1, <1>2, <1>3, <2>5 DEF Dying, at, i0
      <3>2. CASE m = k
        <4>1. i <= pos'[n]
          BY <1>1, <2>3, <2>5, <3>1, <3>2 DEF i0
        <4> QED
          BY <1>3, <2>5, <3>1, <3>2, <4>1 DEF m
      <3>3. CASE m # k
        <4>1. pc'[m] = "none" <=> pc[m] = "none"
          BY <1>1, <1>3, <2>1, <3>3
        <4>2. i # pos[n] + 1 /\ i \in Int /\ pos[n] \in Int
          BY <1>1, <2>3, <2>5, <3>1, <3>3 DEF i0
        <4>3. i <= pos[n] <=> i <= pos[n] + 1
          BY <4>2
        <4> QED
          BY <2>2, <2>5, <3>1, <4>1, <4>3 DEF m
      <3> QED
        BY <3>2, <3>3
    <2>6. CASE p = n /\ cmd[n].g # 1
      <3>1. ~Dying(n) /\ ~Dying(n)' /\ m # k
        BY <1>2, <1>5, <2>3, <2>6 DEF Dying
      <3>2. pc'[m] # "none"
        BY <1>1, <1>3, <2>1, <2>2, <2>6, <3>1
      <3> QED
        BY <2>6, <3>1, <3>2 DEF m
    <2> QED
      BY <2>4, <2>5, <2>6
  <1>13. \A m \in All : Placed(m)'
    <2> SUFFICES ASSUME NEW m \in All PROVE Placed(m)'
      OBVIOUS
    <2>1. Placed(m)
      BY DEF ServiceInv
    <2>2. CASE m = n
      <3>1. Second(n)' <=> Second(n)
        BY <1>2 DEF Second, Partner
      <3> QED
        BY <1>1, <1>2, <1>3, <2>2, <3>1 DEF Placed
    <2>3. CASE m = k
      BY <1>1, <1>2, <1>3, <2>3 DEF Placed
    <2>4. CASE m # n /\ m # k
      <3>1. /\ pc'[m] = pc[m] /\ children'[m] = children[m] /\ pos'[m] = pos[m]
            /\ UNCHANGED <<down, up, cmd, acc>>
        BY <1>2, <1>3, <2>4
      <3>2. /\ Kids(m)' = Kids(m) /\ (Second(m)' <=> Second(m)) /\ (LoopOver(m)' <=> LoopOver(m))
            /\ (Partner(m)' <=> Partner(m))
        BY <3>1 DEF Kids, Second, LoopOver, Enough, Partner
      <3> QED
        BY <2>1, <3>1, <3>2 DEF Placed
    <2> QED
      BY <2>2, <2>3, <2>4
  <1>14. OnePlace'
    <2>1. \A m \in All : m # n => (Holds(m)' => Holds(m))
      BY <1>1, <1>2, <1>3 DEF Holds
    <2> QED
      BY <1>1, <1>2, <2>1 DEF OnePlace
  <1>15. \A q \in All : \A j : q # n => (Waits(q, j)' <=> Waits(q, j))
    BY <1>1, <1>2, <1>3 DEF Waits, Kid
  <1>16. Supervised'
    <2> SUFFICES ASSUME NEW m \in Names, Engaged(m)' PROVE \E p \in All : m \in Kids(p)' /\ Waits(p, m)'
      BY DEF Supervised
    <2>1. m \in All /\ m # k /\ Engaged(m)
      <3>1. m # k /\ m \in All
        BY <1>1, <1>2, <1>3 DEF Engaged, Holds, All
      <3> QED
        BY <1>1, <1>2, <1>3, <3>1 DEF Engaged, Holds
    <2>2. PICK p \in All : m \in Kids(p) /\ Waits(p, m)
      BY <2>1 DEF ServiceInv, Supervised
    <2>3. p # n
      BY <1>1, <2>1, <2>2 DEF Waits
    <2> QED
      BY <1>8, <1>15, <2>1, <2>2, <2>3
  <1>17. ChainHeard'
    <2> SUFFICES ASSUME NEW q \in All, NEW j \in Names, Waits(q, j)' PROVE Heard(q, j)'
      BY DEF ChainHeard
    <2>1. q # n /\ q # k /\ Waits(q, j) /\ Heard(q, j)
      <3>1. q # n /\ q # k
        BY <1>3 DEF Waits
      <3> QED
        BY <1>15, <3>1 DEF ServiceInv, ChainHeard
    <2>2. j # k
      BY <1>1, <2>1, WaitsForKid, KidFacts
    <2>3. CASE j = n
      <3>1. pc[q] = "await" /\ SameCommand(q, n)
        BY <1>1, <2>1, <2>3 DEF Heard, Holds, Waits
      <3>2. pc'[q] = "await" /\ SameCommand(q, n)' /\ pc'[n] = "each" /\ up'[n] = <<>> /\ down'[n] = <<>>
        BY <1>1, <1>2, <1>3, <2>1, <3>1 DEF SameCommand, Targets
      <3> QED
        BY <2>3, <3>2 DEF Heard
    <2>4. CASE j # n
      <3>1. j \in All /\ up[j] = <<>> /\ up'[j] = up[j] /\ down'[j] = down[j]
        BY <1>1, <1>2, <1>3, <2>2 DEF All
      <3>2. /\ pc'[q] = pc[q] /\ cmd'[q] = cmd[q] /\ acc'[q] = acc[q]
            /\ pc'[j] = pc[j] /\ cmd'[j] = cmd[j] /\ acc'[j] = acc[j]
        BY <1>2, <1>3, <2>1, <2>2, <2>4, <3>1
      <3> QED
        BY <2>1, <3>1, <3>2, HeardKept
    <2> QED
      BY <2>3, <2>4
  <1>18. NameFree'
    <2>1. \A m \in All : pc'[m] \in {"fork", "each"} => m = n
      BY <1>1, <1>3 DEF Holds
    <2> QED
      BY <1>1, <1>2, <1>3, <2>1 DEF NameFree
  <1> QED
    BY <1>4, <1>7, <1>9, <1>10, <1>12, <1>13, <1>14, <1>16, <1>17, <1>18 DEF ServiceInv
-----------------------------------------------------------------------------
(* A new service is a leaf at the end of its parent's list.                *)
LEMMA InvFork ==
  ASSUME ServiceInv, NEW n \in All, NEW c, c = cmd[n].b, Fork(n)
  PROVE  ServiceInv'
  <1>1. /\ pc[n] = "fork" /\ Placed(n) /\ cmd[n].op = "spawn" /\ Fresh(c)
        /\ c \in Names /\ c \in All /\ pc[c] = "none" /\ c # n /\ c # Manager /\ children[c] = <<>>
        /\ \A p \in All : c \notin Kids(p)
        /\ children[n] \in Seq(Names) /\ Len(children[n]) \in Nat
        /\ \A m \in All : down[m] = <<>> /\ up[m] = <<>> /\ (Holds(m) => m = n)
    <2>1. pc[n] = "fork" /\ Placed(n) /\ OnePlace /\ children[n] \in Seq(Names) /\ Len(children[n]) \in Nat
      BY DEF ServiceInv, TypeOK, Fork
    <2>2. Fresh(c) /\ cmd[n].op = "spawn"
      BY <2>1 DEF ServiceInv, NameFree, Placed
    <2>3. /\ c \in Names /\ c \in All /\ pc[c] = "none" /\ c # Manager /\ c # n
          /\ \A p \in All : c \notin Kids(p)
      BY <2>1, <2>2 DEF Fresh, All
    <2>4. children[c] = <<>>
      <3>1. Placed(c)
        BY <2>3 DEF ServiceInv
      <3> QED
        BY <2>3, <3>1 DEF Placed
    <2>5. \A m \in All : down[m] = <<>> /\ up[m] = <<>> /\ (Holds(m) => m = n)
      BY <2>1 DEF OnePlace, Holds
    <2> QED
      BY <2>1, <2>2, <2>3, <2>4, <2>5
  <1>2. /\ children' = [children EXCEPT ![n] = Append(children[n], c), ![c] = <<>>]
        /\ secret' = [secret EXCEPT ![c] = c] /\ cmd' = [cmd EXCEPT ![c] = NoCommand]
        /\ pc' = [pc EXCEPT ![n] = "hear", ![c] = "boot"]
        /\ UNCHANGED <<down, up, pos, acc, tm, fifo, fifos, files, answer, subtree, before>>
    <2>1. down' = [down EXCEPT ![c] = <<>>] /\ up' = [up EXCEPT ![c] = <<>>]
      BY DEF Fork
    <2>2. down' = down /\ up' = up
      BY <1>1, <2>1 DEF ServiceInv, TypeOK
    <2> QED
      BY <2>2 DEF Fork, locals, trade, history
  <1>3. /\ pc'[n] = "hear" /\ pc'[c] = "boot" /\ children'[n] = Append(children[n], c) /\ children'[c] = <<>>
        /\ cmd'[n] = cmd[n]
        /\ \A m \in All : m # n /\ m # c => pc'[m] = pc[m]
        /\ \A m \in All : m # n => children'[m] = children[m]
        /\ \A m \in All : m # c => cmd'[m] = cmd[m]
    BY <1>1, <1>2 DEF ServiceInv, TypeOK
  <1>4. /\ children'[n] \in Seq(Names) /\ Len(children'[n]) = Len(children[n]) + 1
        /\ \A i \in 1 .. Len(children[n]) : children'[n][i] = children[n][i]
        /\ children'[n][Len(children[n]) + 1] = c
    BY <1>1, <1>3, AppendProperties
  <1>5. TypeOK'
    <2>1. pc' \in [All -> Labels]
      BY <1>2 DEF ServiceInv, TypeOK, Labels
    <2>2. children' \in [All -> Seq(Names)]
      <3>1. Append(children[n], c) \in Seq(Names) /\ <<>> \in Seq(Names)
        BY <1>1
      <3> QED
        BY <1>2, <3>1 DEF ServiceInv, TypeOK
    <2>3. cmd' \in [All -> Commands] /\ secret' \in [All -> All]
      BY <1>1, <1>2, NoCommandTyped DEF ServiceInv, TypeOK
    <2> QED
      BY <1>2, <2>1, <2>2, <2>3 DEF ServiceInv, TypeOK
  <1>6. \A p \in All : \A i \in 1 .. Len(children'[p]) :
          \/ p = n /\ i = Len(children[n]) + 1 /\ children'[p][i] = c
          \/ i \in 1 .. Len(children[p]) /\ children'[p][i] = children[p][i] /\ children[p][i] \in Names
             /\ children[p][i] # c
    <2> SUFFICES ASSUME NEW p \in All, NEW i \in 1 .. Len(children'[p])
                 PROVE  \/ p = n /\ i = Len(children[n]) + 1 /\ children'[p][i] = c
                        \/ i \in 1 .. Len(children[p]) /\ children'[p][i] = children[p][i]
                           /\ children[p][i] \in Names /\ children[p][i] # c
      OBVIOUS
    <2>1. \A j \in 1 .. Len(children[p]) : children[p][j] \in Kids(p) /\ children[p][j] # c
      BY <1>1 DEF Kids
    <2>2. Kids(p) \subseteq Names
      BY KidFacts
    <2>3. CASE p = n
      <3>1. i = Len(children[n]) + 1 \/ i \in 1 .. Len(children[n])
        BY <1>1, <1>4, <2>3
      <3> QED
        BY <1>4, <2>1, <2>2, <2>3, <3>1
    <2>4. CASE p # n
      BY <1>3, <2>1, <2>2, <2>4
    <2> QED
      BY <2>3, <2>4
  <1>7. OneParent'
    <2> SUFFICES ASSUME NEW p \in All, NEW q \in All,
                        NEW i \in 1 .. Len(children'[p]), NEW j \in 1 .. Len(children'[q]),
                        children'[p][i] = children'[q][j]
                 PROVE  p = q /\ i = j
      BY DEF OneParent
    <2>1. \/ p = n /\ i = Len(children[n]) + 1 /\ children'[p][i] = c
          \/ i \in 1 .. Len(children[p]) /\ children'[p][i] = children[p][i] /\ children[p][i] # c
      BY <1>6
    <2>2. \/ q = n /\ j = Len(children[n]) + 1 /\ children'[q][j] = c
          \/ j \in 1 .. Len(children[q]) /\ children'[q][j] = children[q][j] /\ children[q][j] # c
      BY <1>6
    <2>3. CASE children'[p][i] = c
      BY <2>1, <2>2, <2>3
    <2>4. CASE children'[p][i] # c
      <3>1. i \in 1 .. Len(children[p]) /\ j \in 1 .. Len(children[q]) /\ children[p][i] = children[q][j]
        BY <2>1, <2>2, <2>4
      <3> QED
        BY <3>1, Zenon DEF ServiceInv, OneParent
    <2> QED
      BY <2>3, <2>4
  <1>8. /\ Kids(n)' = Kids(n) \cup {c} /\ Kids(c)' = {} /\ Kids(c) = {}
        /\ \A p \in All : p # n => Kids(p)' = Kids(p)
    <2>1. Kids(n)' \subseteq Kids(n) \cup {c}
      BY <1>6 DEF Kids
    <2>2. \A i \in 1 .. Len(children[n]) : i \in 1 .. Len(children'[n]) /\ children'[n][i] = children[n][i]
      BY <1>1, <1>4
    <2>3. Len(children[n]) + 1 \in 1 .. Len(children'[n])
      BY <1>1, <1>4
    <2>4. Kids(n) \cup {c} \subseteq Kids(n)'
      BY <1>4, <2>2, <2>3 DEF Kids
    <2>5. Kids(c)' = {} /\ Kids(c) = {}
      BY <1>1, <1>3 DEF Kids
    <2>6. \A p \in All : p # n => Kids(p)' = Kids(p)
      BY <1>3 DEF Kids
    <2> QED
      BY <2>1, <2>4, <2>5, <2>6
  <1>9. Rooted'
    <2> SUFFICES ASSUME NEW m \in Names, pc'[m] # "none" PROVE \E p \in All : m \in Kids(p)'
      BY DEF Rooted
    <2>1. CASE m = c
      BY <1>8, <2>1
    <2>2. CASE m # c
      <3>1. pc[m] # "none" /\ m \in All
        BY <1>1, <1>3, <2>2 DEF All
      <3>2. PICK p \in All : m \in Kids(p)
        BY <3>1 DEF ServiceInv, Rooted
      <3> QED
        BY <1>8, <3>2
    <2> QED
      BY <2>1, <2>2
  <1>10. Acyclic'
    <2> SUFFICES ASSUME NEW S \in SUBSET Names, \A m \in S : \E p \in S : m \in Kids(p)'
                 PROVE  S = {}
      BY DEF Acyclic
    <2> DEFINE T == S \ {c}
    <2>1. \A m \in T : \E p \in T : m \in Kids(p)
      BY <1>8 DEF All
    <2>2. T \in SUBSET Names
      OBVIOUS
    <2> HIDE DEF T
    <2>3. T = {}
      BY <2>1, <2>2 DEF ServiceInv, Acyclic
    <2>4. S \subseteq {c}
      BY <2>3 DEF T
    <2> QED
      BY <1>8, <2>4
  <1>11. DeadKids'
    <2> SUFFICES ASSUME NEW p \in All, NEW i \in 1 .. Len(children'[p])
                 PROVE  pc'[children'[p][i]] = "none" <=> Dying(p)' /\ i <= pos'[p]
      BY DEF DeadKids
    <2>1. p # c
      BY <1>3
    <2>2. Dying(p)' <=> Dying(p)
      BY <1>1, <1>3, <2>1 DEF Dying
    <2>3. CASE p = n /\ children'[p][i] = c
      BY <1>1, <1>3, <2>2, <2>3 DEF Dying
    <2>4. CASE ~(p = n /\ children'[p][i] = c)
      <3>1. /\ i \in 1 .. Len(children[p]) /\ children'[p][i] = children[p][i] /\ children[p][i] \in All
            /\ children[p][i] # c
        BY <1>6, <2>4 DEF All
      <3>2. pc[children[p][i]] = "none" <=> Dying(p) /\ i <= pos[p]
        BY <3>1 DEF ServiceInv, DeadKids
      <3>3. pc'[children[p][i]] = "none" <=> pc[children[p][i]] = "none"
        BY <1>1, <1>3, <3>1
      <3> QED
        BY <1>2, <2>2, <3>1, <3>2, <3>3
    <2> QED
      BY <2>3, <2>4
  <1>12. \A m \in All : Placed(m)'
    <2> SUFFICES ASSUME NEW m \in All PROVE Placed(m)'
      OBVIOUS
    <2>1. Placed(m) /\ down'[m] = <<>> /\ up'[m] = <<>>
      BY <1>1, <1>2 DEF ServiceInv
    <2>2. CASE m = n
      <3>1. pc'[m] = "hear" /\ cmd'[m].op = "spawn" /\ cmd'[m].b \in Kids(m)'
        BY <1>1, <1>3, <1>8, <2>2
      <3> QED
        BY <2>1, <3>1 DEF Placed
    <2>3. CASE m = c
      BY <1>1, <1>3, <2>1, <2>3 DEF Placed
    <2>4. CASE m # n /\ m # c
      <3>1. /\ pc'[m] = pc[m] /\ children'[m] = children[m] /\ cmd'[m] = cmd[m] /\ Kids(m)' = Kids(m)
            /\ UNCHANGED <<down, up, pos, acc>>
        BY <1>2, <1>3, <1>8, <2>4
      <3>2. /\ (Second(m)' <=> Second(m)) /\ (LoopOver(m)' <=> LoopOver(m)) /\ (Partner(m)' <=> Partner(m))
        BY <3>1 DEF Second, LoopOver, Enough, Partner
      <3> QED
        BY <2>1, <3>1, <3>2 DEF Placed
    <2> QED
      BY <2>2, <2>3, <2>4
  <1>13. OnePlace'
    <2>1. \A m \in All : Holds(m)' => m = c
      BY <1>1, <1>2, <1>3 DEF Holds
    <2> QED
      BY <1>1, <1>2, <2>1 DEF OnePlace
  <1>14. \A q \in All : \A j : q # n /\ q # c => (Waits(q, j)' <=> Waits(q, j))
    BY <1>2, <1>3 DEF Waits, Kid
  <1>15. Supervised'
    <2> SUFFICES ASSUME NEW m \in Names, Engaged(m)' PROVE \E p \in All : m \in Kids(p)' /\ Waits(p, m)'
      BY DEF Supervised
    <2>1. CASE m = c
      BY <1>1, <1>3, <1>8, <2>1 DEF Waits
    <2>2. CASE m # c
      <3>1. m \in All /\ Engaged(m)
        <4>1. m \in All
          BY DEF All
        <4>2. CASE m = n
          BY <1>1, <4>2 DEF Engaged, Holds
        <4>3. CASE m # n
          BY <1>1, <1>2, <1>3, <2>2, <4>1, <4>3 DEF Engaged, Holds
        <4> QED
          BY <4>1, <4>2, <4>3
      <3>2. PICK p \in All : m \in Kids(p) /\ Waits(p, m)
        BY <3>1 DEF ServiceInv, Supervised
      <3>3. p # n /\ p # c
        BY <1>1, <3>2 DEF Waits
      <3> QED
        BY <1>8, <1>14, <3>2, <3>3
    <2> QED
      BY <2>1, <2>2
  <1>16. ChainHeard'
    <2> SUFFICES ASSUME NEW q \in All, NEW j \in Names, Waits(q, j)' PROVE Heard(q, j)'
      BY DEF ChainHeard
    <2>1. j \in All /\ q # c
      BY <1>3 DEF All, Waits
    <2>2. CASE q = n
      <3>1. j = c
        BY <1>1, <1>3, <2>2 DEF Waits
      <3> QED
        BY <1>1, <1>2, <1>3, <2>2, <3>1 DEF Heard
    <2>3. CASE q # n
      <3>1. Waits(q, j) /\ Heard(q, j)
        BY <1>14, <2>1, <2>3 DEF ServiceInv, ChainHeard
      <3>2. j # c
        BY <1>1, <3>1, WaitsForKid
      <3>3. CASE j = n
        <4>1. pc[q] = "await" /\ SameCommand(q, n)
          BY <1>1, <3>1, <3>3 DEF Heard, Holds, Waits
        <4>2. pc'[q] = "await" /\ SameCommand(q, n)' /\ pc'[n] = "hear" /\ up'[n] = <<>> /\ down'[n] = <<>>
          BY <1>1, <1>2, <1>3, <2>1, <2>3, <4>1 DEF SameCommand, Targets
        <4> QED
          BY <3>3, <4>2 DEF Heard
      <3>4. CASE j # n
        <4>1. up[j] = <<>> /\ up'[j] = <<>> /\ down'[j] = down[j]
          BY <1>1, <1>2, <2>1, <3>2
        <4>2. /\ pc'[q] = pc[q] /\ cmd'[q] = cmd[q] /\ acc'[q] = acc[q]
              /\ pc'[j] = pc[j] /\ cmd'[j] = cmd[j] /\ acc'[j] = acc[j]
          BY <1>2, <1>3, <2>1, <2>3, <3>2, <3>4
        <4> QED
          BY <2>1, <3>1, <4>1, <4>2, HeardKept
      <3> QED
        BY <3>3, <3>4
    <2> QED
      BY <2>2, <2>3
  <1>17. NameFree'
    <2>1. \A m \in All : pc'[m] \notin {"fork", "each"}
      BY <1>1, <1>3 DEF Holds
    <2> QED
      BY <1>1, <1>2, <2>1 DEF NameFree
  <1> QED
    BY <1>5, <1>7, <1>9, <1>10, <1>11, <1>12, <1>13, <1>15, <1>16, <1>17 DEF ServiceInv
-----------------------------------------------------------------------------
(* A service reads the command its parent has sent and waits for.          *)
LEMMA InvReceive ==
  ASSUME ServiceInv, NEW n \in All, Receive(n)
  PROVE  ServiceInv'
  <1> DEFINE msg == Head(down[n])
  <1>1. /\ n # Manager /\ n \in Names /\ pc[n] = "idle" /\ Placed(n) /\ down[n] # <<>>
        /\ msg \in Commands /\ Tail(down[n]) = <<>> /\ msg.op # "none"
        /\ msg.op = "spawn" => Fresh(msg.b)
        /\ children[n] \in Seq(Names) /\ Len(children[n]) \in Nat
        /\ \A m \in All : up[m] = <<>> /\ ~Holds(m) /\ (m # n => down[m] = <<>>)
    <2>1. n # Manager /\ pc[n] = "idle" /\ Placed(n) /\ down[n] # <<>> /\ OnePlace
          /\ children[n] \in Seq(Names) /\ Len(children[n]) \in Nat
      BY DEF ServiceInv, TypeOK, Receive
    <2>2. msg \in Commands /\ Tail(down[n]) = <<>>
      BY <2>1, Pipes
    <2>3. msg.op # "none" /\ (msg.op = "spawn" => Fresh(msg.b))
      BY <2>1 DEF ServiceInv, NameFree
    <2>4. \A m \in All : up[m] = <<>> /\ ~Holds(m) /\ (m # n => down[m] = <<>>)
      BY <2>1 DEF OnePlace
    <2> QED
      BY <2>1, <2>2, <2>3, <2>4 DEF All
  <1>2. PICK p \in All : n \in Kids(p) /\ Waits(p, n) /\ pc[p] = "await" /\ msg = Sent(p) /\ p # n
    <2>1. Engaged(n)
      BY <1>1 DEF Engaged
    <2>2. PICK p \in All : n \in Kids(p) /\ Waits(p, n)
      BY <1>1, <2>1 DEF ServiceInv, Supervised
    <2>3. Heard(p, n)
      BY <1>1, <2>2 DEF ServiceInv, ChainHeard
    <2>4. pc[p] \in {"hear", "await", "reap"}
      BY <2>2 DEF Waits
    <2>5. pc[p] = "await"
      BY <1>1, <2>3, <2>4 DEF Heard
    <2> QED
      BY <1>1, <2>2, <2>3, <2>5 DEF Heard
  <1> HIDE DEF msg
  <1>3. /\ cmd[p] \in Commands /\ msg.op = cmd[p].op /\ msg.a = cmd[p].a /\ msg.b = cmd[p].b
        /\ msg.op = "kill" => msg.g = cmd[p].g
    <2>1. cmd[p] \in Commands
      BY DEF ServiceInv, TypeOK
    <2> QED
      BY <1>2, <2>1 DEF Sent, Commands
  (* What the command makes of the service: its own copy c, its count a so *)
  (* far and where it goes, l.                                             *)
  <1> DEFINE Becomes(c, a, l) ==
        /\ cmd' = [cmd EXCEPT ![n] = c] /\ pos' = [pos EXCEPT ![n] = 0] /\ acc' = [acc EXCEPT ![n] = a]
        /\ pc' = [pc EXCEPT ![n] = l] /\ files' \subseteq files \cup {n}
        /\ c.op = msg.op /\ c.a = msg.a /\ c.b = msg.b
        /\ l = "fork" => c.op = "spawn" /\ c.a = n
        /\ c.op = "spawn" => a = 0
        /\ c.op = "kill" => c.g = IF msg.a = n THEN 1 ELSE msg.g
        /\ l = "second" => c.op = "exchange" /\ n \in {c.a, c.b} /\ c.g = 1
        /\ l = "each" /\ c.op = "exchange" => n \notin {c.a, c.b} \/ c.g # 1
  <1>4. PICK c \in Commands, a \in 0 .. 2, l \in {"fork", "each", "second"} : Becomes(c, a, l)
    <2>1. CASE ReceiveSpawn(n, msg)
      <3> DEFINE l1 == IF msg.a = n THEN "fork" ELSE "each"
      <3>1. Becomes(msg, 0, l1) /\ l1 \in {"fork", "each", "second"}
        BY <2>1 DEF ReceiveSpawn, Serve, Goto
      <3> HIDE DEF Becomes, l1
      <3> QED
        BY <1>1, <3>1
    <2>2. CASE ReceiveKill(n, msg)
      <3> DEFINE c1 == IF msg.a = n THEN [msg EXCEPT !.g = 1] ELSE msg
      <3>1. /\ c1 \in Commands /\ c1.op = msg.op /\ c1.a = msg.a /\ c1.b = msg.b
            /\ c1.g = IF msg.a = n THEN 1 ELSE msg.g
        BY <1>1 DEF Commands
      <3>2. /\ cmd' = [cmd EXCEPT ![n] = c1] /\ pos' = [pos EXCEPT ![n] = 0] /\ acc' = [acc EXCEPT ![n] = 0]
            /\ pc' = [pc EXCEPT ![n] = "each"] /\ files' = files /\ msg.op = "kill"
        BY <2>2 DEF ReceiveKill, Serve, Goto
      <3> HIDE DEF c1
      <3>3. Becomes(c1, 0, "each")
        BY <3>1, <3>2
      <3> HIDE DEF Becomes
      <3> QED
        BY <3>1, <3>3
    <2>3. CASE ReceiveExchange(n, msg)
      <3>1. msg.g \in 0 .. 1 /\ msg.op = "exchange"
        BY <1>1, <2>3 DEF Commands, ReceiveExchange
      <3>2. CASE n \in {msg.a, msg.b}
        <4> DEFINE l1 == IF msg.g + 1 = 2 THEN "second" ELSE "each"
        <4>1. Becomes(msg, msg.g + 1, l1) /\ l1 \in {"fork", "each", "second"}
          BY <2>3, <3>1, <3>2 DEF ReceiveExchange, Serve, Goto
        <4>2. msg.g + 1 \in 0 .. 2
          BY <3>1
        <4> HIDE DEF Becomes, l1
        <4> QED
          BY <1>1, <4>1, <4>2
      <3>3. CASE n \notin {msg.a, msg.b}
        <4>1. Becomes(msg, msg.g, "each")
          BY <2>3, <3>1, <3>3 DEF ReceiveExchange, Serve, Goto
        <4>2. msg.g \in 0 .. 2
          BY <3>1
        <4> HIDE DEF Becomes
        <4> QED
          BY <1>1, <4>1, <4>2
      <3> QED
        BY <3>2, <3>3
    <2> QED
      BY <2>1, <2>2, <2>3 DEF Receive, msg
  <1>5. /\ down' = [down EXCEPT ![n] = <<>>]
        /\ UNCHANGED <<children, secret, up, tm, fifo, fifos, answer, subtree, before>>
    <2>1. down' = [down EXCEPT ![n] = Tail(down[n])]
      BY DEF Receive
    <2> QED
      BY <1>1, <2>1 DEF Receive, history, msg
  <1>6. /\ pc'[n] = l /\ cmd'[n] = c /\ pos'[n] = 0 /\ acc'[n] = a
        /\ \A m \in All : m # n => pc'[m] = pc[m] /\ cmd'[m] = cmd[m] /\ pos'[m] = pos[m] /\ acc'[m] = acc[m]
        /\ \A m \in All : down'[m] = <<>> /\ up'[m] = <<>>
    BY <1>1, <1>4, <1>5 DEF ServiceInv, TypeOK
  <1>7. TypeOK'
    <2>1. pc' \in [All -> Labels]
      BY <1>4 DEF ServiceInv, TypeOK, Labels
    <2>2. cmd' \in [All -> Commands] /\ pos' \in [All -> Nat] /\ acc' \in [All -> Nat]
      <3>1. a \in Nat /\ 0 \in Nat
        BY <1>4
      <3> QED
        BY <1>4, <3>1 DEF ServiceInv, TypeOK
    <2>3. down' \in [All -> Seq(Commands)] /\ \A m \in All : Len(down'[m]) <= 1
      <3>1. down \in [All -> Seq(Commands)] /\ <<>> \in Seq(Commands) /\ Len(<<>>) <= 1
        BY DEF ServiceInv, TypeOK
      <3> QED
        BY <1>5, <1>6, <3>1
    <2>4. files' \subseteq Names
      BY <1>1, <1>4 DEF ServiceInv, TypeOK
    <2> QED
      BY <1>5, <2>1, <2>2, <2>3, <2>4 DEF ServiceInv, TypeOK
  <1>8. l # "none" /\ l \notin {"hear", "await", "reap", "exit", "zombie", "boot"}
    BY <1>4
  <1>9. SameLists
    BY <1>1, <1>5, <1>6, <1>8 DEF SameLists
  <1>10. /\ OneParent' /\ Rooted' /\ Acyclic'
         /\ \A m \in All : Kids(m)' = Kids(m)
         /\ \A d : Fresh(d) => Fresh(d)'
    BY <1>9, ListsKept
  <1>11. DeadKids'
    <2> SUFFICES ASSUME NEW q \in All, NEW i \in 1 .. Len(children'[q])
                 PROVE  pc'[children'[q][i]] = "none" <=> Dying(q)' /\ i <= pos'[q]
      BY DEF DeadKids
    <2>1. i \in 1 .. Len(children[q]) /\ children[q] \in Seq(Names)
      BY <1>5 DEF ServiceInv, TypeOK
    <2>2. children[q][i] \in All
      BY <2>1 DEF All
    <2>3. pc[children[q][i]] = "none" <=> Dying(q) /\ i <= pos[q]
      BY <2>1 DEF ServiceInv, DeadKids
    <2>4. pc'[children'[q][i]] = "none" <=> pc[children[q][i]] = "none"
      BY <1>5, <1>9, <2>2 DEF SameLists
    <2>5. CASE q = n
      BY <1>1, <1>6, <2>1, <2>3, <2>4, <2>5 DEF Dying
    <2>6. CASE q # n
      BY <1>6, <2>3, <2>4, <2>6 DEF Dying
    <2> QED
      BY <2>5, <2>6
  <1>12. \A m \in All : Placed(m)'
    <2> SUFFICES ASSUME NEW m \in All PROVE Placed(m)'
      OBVIOUS
    <2>1. Placed(m) /\ down'[m] = <<>> /\ up'[m] = <<>> /\ children'[m] = children[m] /\ Kids(m)' = Kids(m)
      BY <1>5, <1>6, <1>10 DEF ServiceInv
    <2>2. CASE m = n
      <3>1. l = "fork" => c.op = "spawn" /\ c.a = n
        BY <1>4
      <3>2. l = "each" => /\ c.op # "none" /\ (c.op = "spawn" => a <= 1) /\ a <= 2
                          /\ ~(c.op = "exchange" /\ c.g = 1 /\ n \in {c.a, c.b})
        BY <1>1, <1>4
      <3>3. l = "second" => c.op = "exchange" /\ n \in {c.a, c.b} /\ c.g = 1
        BY <1>4
      <3>4. /\ Second(n)' <=> (c.op = "exchange" /\ c.g = 1 /\ n \in {c.a, c.b})
            /\ Partner(n)' <=> n \in {c.a, c.b}
        BY <1>1, <1>6 DEF Second, Partner
      <3>5. l \in {"fork", "each", "second"}
        BY <1>4
      <3> HIDE DEF Becomes
      <3> QED
        BY <1>1, <1>6, <2>1, <2>2, <3>1, <3>2, <3>3, <3>4, <3>5 DEF Placed
    <2>3. CASE m # n
      <3>1. /\ pc'[m] = pc[m] /\ cmd'[m] = cmd[m] /\ pos'[m] = pos[m] /\ acc'[m] = acc[m]
        BY <1>6, <2>3
      <3>2. /\ (Second(m)' <=> Second(m)) /\ (LoopOver(m)' <=> LoopOver(m)) /\ (Partner(m)' <=> Partner(m))
        BY <2>1, <3>1 DEF Second, LoopOver, Enough, Partner
      <3> QED
        BY <2>1, <3>1, <3>2 DEF Placed
    <2> QED
      BY <2>2, <2>3
  <1>13. OnePlace'
    <2>1. \A m \in All : Holds(m)' => m = n
      BY <1>1, <1>6 DEF Holds
    <2> QED
      BY <1>6, <2>1 DEF OnePlace
  <1>14. \A q \in All : \A j : q # n => (Waits(q, j)' <=> Waits(q, j))
    BY <1>5, <1>6 DEF Waits, Kid
  <1>15. Supervised'
    <2> SUFFICES ASSUME NEW m \in Names, Engaged(m)' PROVE \E q \in All : m \in Kids(q)' /\ Waits(q, m)'
      BY DEF Supervised
    <2>1. CASE m = n
      BY <1>2, <1>10, <1>14, <2>1
    <2>2. CASE m # n
      <3>1. m \in All
        BY DEF All
      <3>2. Engaged(m)
        BY <1>6, <2>2, <3>1 DEF Engaged, Holds
      <3>3. PICK q \in All : m \in Kids(q) /\ Waits(q, m)
        BY <3>2 DEF ServiceInv, Supervised
      <3>4. q # n
        BY <1>1, <3>3 DEF Waits
      <3> QED
        BY <1>10, <1>14, <3>3, <3>4
    <2> QED
      BY <2>1, <2>2
  <1>16. ChainHeard'
    <2> SUFFICES ASSUME NEW q \in All, NEW j \in Names, Waits(q, j)' PROVE Heard(q, j)'
      BY DEF ChainHeard
    <2>1. j \in All /\ q # n
      BY <1>6, <1>8 DEF All, Waits
    <2>2. Waits(q, j) /\ Heard(q, j)
      BY <1>14, <2>1 DEF ServiceInv, ChainHeard
    <2>3. CASE j = n
      <3>1. q = p
        BY <1>2, <2>2, <2>3, WaitsForKid, KidFacts
      <3>2. pc'[q] = "await" /\ cmd'[q] = cmd[q] /\ Kid(q)' = Kid(q)
        BY <1>2, <1>5, <1>6, <2>1, <3>1 DEF Kid
      <3>3. /\ c.op = cmd[p].op /\ c.a = cmd[p].a /\ c.b = cmd[p].b
            /\ c.op = "kill" => c.g = IF cmd[p].a = n THEN 1 ELSE cmd[p].g
        BY <1>3, <1>4
      <3>4. SameCommand(q, n)'
        BY <1>6, <3>1, <3>2, <3>3 DEF SameCommand, Targets
      <3> QED
        BY <1>6, <1>8, <2>3, <3>2, <3>4 DEF Heard
    <2>4. CASE j # n
      BY <1>1, <1>6, <1>10, <2>1, <2>2, <2>4 DEF Heard, Holds, SameCommand, Targets, Sent
    <2> QED
      BY <2>3, <2>4
  <1>17. NameFree'
    <2>1. \A m \in All : pc'[m] \in {"fork", "each"} => m = n
      BY <1>1, <1>6 DEF Holds
    <2>2. l = "fork" \/ (l = "each" /\ c.op = "spawn" /\ a = 0) => Fresh(c.b)
      BY <1>1, <1>4
    <2> QED
      BY <1>6, <1>10, <2>1, <2>2 DEF NameFree
  <1> QED
    BY <1>7, <1>10, <1>11, <1>12, <1>13, <1>15, <1>16, <1>17 DEF ServiceInv
-----------------------------------------------------------------------------
(* What is below a set is the least set that has it and is closed.         *)
LEMMA BelowLeast ==
  ASSUME ServiceInv, NEW S \in SUBSET All
  PROVE  /\ S \subseteq Below(S) /\ Below(S) \subseteq All /\ Closed(Below(S))
         /\ \A T \in SUBSET All : S \subseteq T /\ Closed(T) => Below(S) \subseteq T
  <1>1. \A n \in All : Kids(n) \subseteq All
    BY KidFacts DEF All
  <1>2. S \subseteq Below(S) /\ Below(S) \subseteq All
    BY DEF Below
  <1>3. \A T \in SUBSET All : S \subseteq T /\ Closed(T) => Below(S) \subseteq T
    BY DEF Below
  <1>4. ASSUME NEW n \in Below(S), NEW k \in Kids(n) PROVE k \in Below(S)
    <2>1. k \in All
      BY <1>1, <1>2
    <2>2. ASSUME NEW T \in SUBSET All, S \subseteq T, Closed(T) PROVE k \in T
      BY <1>3, <2>2 DEF Closed
    <2> QED
      BY <2>1, <2>2 DEF Below
  <1> QED
    BY <1>2, <1>3, <1>4 DEF Closed

LEMMA BelowGrows ==
  ASSUME ServiceInv, NEW S \in SUBSET All, NEW T \in SUBSET All, S \subseteq Below(T)
  PROVE  Below(S) \subseteq Below(T)
  BY BelowLeast

(* Who is below a set and not in it is the child of somebody below it.     *)
LEMMA BelowParent ==
  ASSUME ServiceInv, NEW S \in SUBSET All, NEW y \in Below(S), y \notin S
  PROVE  y \in Names /\ \E p \in Below(S) : y \in Kids(p)
  <1>1. S \subseteq Below(S) /\ Below(S) \subseteq All /\ Closed(Below(S))
    BY BelowLeast
  <1>2. ASSUME \A p \in Below(S) : y \notin Kids(p) PROVE FALSE
    <2> DEFINE T == Below(S) \ {y}
    <2>1. T \in SUBSET All /\ S \subseteq T /\ Closed(T)
      BY <1>1, <1>2 DEF Closed
    <2> QED
      BY <2>1, BelowLeast
  <1> QED
    BY <1>1, <1>2, KidFacts

(* Nobody is below itself.                                                 *)
LEMMA NotBelowItself ==
  ASSUME ServiceInv, NEW n \in Names
  PROVE  n \notin Below(Kids(n))
  <1> DEFINE K == Kids(n)
             W == {y \in Names : y \in Below(K) /\ n \in Below({y})}
  <1>1. n \in All /\ K \in SUBSET All /\ K \subseteq Names
    BY KidFacts DEF All
  <1>2. n \in Below({n}) /\ \A y \in Names : {y} \in SUBSET All
    BY <1>1, BelowLeast DEF All
  <1>3. Below(K) \subseteq Names
    BY <1>1, BelowParent
  <1>4. ASSUME n \in Below(K), NEW y \in W PROVE \E p \in W : y \in Kids(p)
    <2>1. CASE y \in K
      BY <1>2, <1>4, <2>1
    <2>2. CASE y \notin K
      <3>1. PICK p \in Below(K) : y \in Kids(p)
        BY <1>1, <2>2, BelowParent
      <3>2. p \in Names /\ {p} \in SUBSET All /\ {y} \in SUBSET All
        BY <1>2, <1>3, <3>1
      <3>3. {y} \subseteq Below({p})
        BY <3>1, <3>2, BelowLeast DEF Closed
      <3>4. Below({y}) \subseteq Below({p})
        BY <3>2, <3>3, BelowGrows
      <3> QED
        BY <3>1, <3>2, <3>4
    <2> QED
      BY <2>1, <2>2
  <1>5. W \in SUBSET Names
    OBVIOUS
  <1>6. n \in Below(K) => n \in W
    BY <1>2
  <1> HIDE DEF W
  <1>7. n \in Below(K) => W = {}
    BY <1>4, <1>5 DEF ServiceInv, Acyclic
  <1> QED
    BY <1>6, <1>7
-----------------------------------------------------------------------------
(* The Manager takes a command when nothing of the one before is under way.*)
LEMMA InvIssue ==
  ASSUME ServiceInv, Issue
  PROVE  ServiceInv'
  <1>1. /\ Manager \in All /\ pc[Manager] = "idle" /\ Placed(Manager)
        /\ \A m \in All : down[m] = <<>> /\ up[m] = <<>> /\ (Holds(m) => m = Manager)
        /\ \A m \in Names : ~Engaged(m)
    <2>1. Manager \in All /\ pc[Manager] = "idle" /\ Placed(Manager) /\ OnePlace
      BY DEF ServiceInv, Issue, All
    <2>2. \A m \in All : down[m] = <<>> /\ up[m] = <<>> /\ (Holds(m) => m = Manager)
      BY <2>1 DEF OnePlace, Holds
    <2>3. \A m \in Names : ~Engaged(m)
      BY <2>1, NobodyEngaged
    <2> QED
      BY <2>1, <2>2, <2>3
  <1> DEFINE Gives(op, a, b, g, l) ==
        /\ g = (IF Manager \in {a, b} /\ op # "spawn" THEN 1 ELSE 0)
        /\ l = (IF op = "spawn" /\ a = Manager THEN "fork" ELSE "each")
        /\ op = "spawn" => b \in Names /\ pc[b] = "none"
        /\ cmd' = [cmd EXCEPT ![Manager] = Command(op, a, b, g)]
        /\ pos' = [pos EXCEPT ![Manager] = 0]
        /\ acc' = [acc EXCEPT ![Manager] = IF op = "exchange" THEN g ELSE 0]
        /\ pc' = [pc EXCEPT ![Manager] = l]
        /\ fifos' = (op = "exchange" \/ fifos)
        /\ subtree' = [n \in All |-> IF op = "kill" /\ Alive(n) THEN Below({n}) ELSE {}]
        /\ before' = IF op = "exchange" THEN [n \in All |-> SecretOf(n)] ELSE [n \in All |-> n]
  <1>2. PICK op \in {"spawn", "kill", "exchange"}, a \in All, b \in All :
          \E g \in {0, 1}, l \in {"fork", "each"} : Gives(op, a, b, g, l)
    <2>1. PICK op \in Ops, a \in All, b \in All :
            LET g == IF Manager \in {a, b} /\ op # "spawn" THEN 1 ELSE 0
            IN  /\ MayIssue(Command(op, a, b, g))
                /\ Serve(Manager, Command(op, a, b, g), IF op = "exchange" THEN g ELSE 0)
                /\ Goto(Manager, IF op = "spawn" /\ a = Manager THEN "fork" ELSE "each")
                /\ fifos' = (op = "exchange" \/ fifos)
                /\ subtree' = [n \in All |-> IF op = "kill" /\ Alive(n) THEN Below({n}) ELSE {}]
                /\ before' = IF op = "exchange" THEN [n \in All |-> SecretOf(n)] ELSE [n \in All |-> n]
      BY DEF Issue
    <2> DEFINE g == IF Manager \in {a, b} /\ op # "spawn" THEN 1 ELSE 0
               l == IF op = "spawn" /\ a = Manager THEN "fork" ELSE "each"
    <2>2. op = "spawn" => b \in Names /\ pc[b] = "none"
      <3>1. MayIssue(Command(op, a, b, g))
        BY <2>1
      <3> HIDE DEF g
      <3> QED
        BY <3>1 DEF MayIssue, Command
    <2>3. Gives(op, a, b, g, l) /\ g \in {0, 1} /\ l \in {"fork", "each"}
      BY <2>1, <2>2 DEF Serve, Goto
    <2> HIDE DEF g, l, Gives
    <2> QED
      BY <2>3
  <1>3. PICK g \in {0, 1}, l \in {"fork", "each"} : Gives(op, a, b, g, l)
    BY <1>2
  <1> DEFINE c == Command(op, a, b, g)
             k == IF op = "exchange" THEN g ELSE 0
  <1>4. c \in Commands /\ c.op = op /\ c.a = a /\ c.b = b /\ c.g = g /\ k \in Nat /\ k <= 1
    BY DEF Command, Commands
  <1> HIDE DEF c
  <1>5. /\ cmd' = [cmd EXCEPT ![Manager] = c] /\ pos' = [pos EXCEPT ![Manager] = 0]
        /\ acc' = [acc EXCEPT ![Manager] = k] /\ pc' = [pc EXCEPT ![Manager] = l]
        /\ fifos' = (op = "exchange" \/ fifos)
        /\ subtree' = [n \in All |-> IF op = "kill" /\ Alive(n) THEN Below({n}) ELSE {}]
        /\ before' = (IF op = "exchange" THEN [n \in All |-> SecretOf(n)] ELSE [n \in All |-> n])
        /\ l = "fork" => op = "spawn" /\ a = Manager
        /\ op = "spawn" => b \in Names /\ pc[b] = "none"
    BY <1>3 DEF c
  <1> HIDE DEF Gives, k
  <1>6. UNCHANGED <<children, secret, down, up, tm, fifo, files>>
    BY DEF Issue, pipes
  <1>7. /\ pc'[Manager] = l /\ cmd'[Manager] = c /\ pos'[Manager] = 0 /\ acc'[Manager] = k
        /\ \A m \in All : m # Manager =>
             pc'[m] = pc[m] /\ cmd'[m] = cmd[m] /\ pos'[m] = pos[m] /\ acc'[m] = acc[m]
    BY <1>1, <1>5 DEF ServiceInv, TypeOK
  <1>8. TypeOK'
    <2>1. pc' \in [All -> Labels]
      BY <1>5 DEF ServiceInv, TypeOK, Labels
    <2>2. cmd' \in [All -> Commands] /\ pos' \in [All -> Nat] /\ acc' \in [All -> Nat]
      BY <1>4, <1>5 DEF ServiceInv, TypeOK
    <2>3. subtree' \in [All -> SUBSET All]
      <3>1. \A n \in All : Below({n}) \subseteq All
        BY DEF Below
      <3> QED
        BY <1>5, <3>1
    <2>4. before' \in [All -> All]
      <3>1. \A n \in All : SecretOf(n) \in All
        BY Pipes DEF SecretOf, ServiceInv, TypeOK
      <3> QED
        BY <1>5, <3>1
    <2>5. answer' \in [told : {"nothing", "spawned", "missing", "killed", "exchanged"}, count : Nat]
      BY DEF Issue, Nothing
    <2> QED
      BY <1>5, <1>6, <2>1, <2>2, <2>3, <2>4, <2>5 DEF ServiceInv, TypeOK
  <1>9. SameLists
    BY <1>1, <1>6, <1>7 DEF SameLists
  <1>10. /\ OneParent' /\ Rooted' /\ Acyclic'
         /\ \A m \in All : Kids(m)' = Kids(m)
         /\ \A d : Fresh(d) => Fresh(d)'
    BY <1>9, ListsKept
  <1>11. DeadKids'
    <2> SUFFICES ASSUME NEW q \in All, NEW i \in 1 .. Len(children'[q])
                 PROVE  pc'[children'[q][i]] = "none" <=> Dying(q)' /\ i <= pos'[q]
      BY DEF DeadKids
    <2>1. i \in 1 .. Len(children[q]) /\ children[q] \in Seq(Names)
      BY <1>6 DEF ServiceInv, TypeOK
    <2>2. children[q][i] \in All
      BY <2>1 DEF All
    <2>3. pc[children[q][i]] = "none" <=> Dying(q) /\ i <= pos[q]
      BY <2>1 DEF ServiceInv, DeadKids
    <2>4. pc'[children'[q][i]] = "none" <=> pc[children[q][i]] = "none"
      BY <1>6, <1>9, <2>2 DEF SameLists
    <2>5. CASE q = Manager
      BY <1>1, <1>7, <2>1, <2>3, <2>4, <2>5 DEF Dying
    <2>6. CASE q # Manager
      BY <1>7, <2>3, <2>4, <2>6 DEF Dying
    <2> QED
      BY <2>5, <2>6
  <1>12. \A m \in All : Placed(m)'
    <2> SUFFICES ASSUME NEW m \in All PROVE Placed(m)'
      OBVIOUS
    <2>1. Placed(m) /\ down'[m] = <<>> /\ up'[m] = <<>> /\ children'[m] = children[m] /\ Kids(m)' = Kids(m)
      BY <1>1, <1>6, <1>10 DEF ServiceInv
    <2>2. CASE m = Manager
      BY <1>1, <1>4, <1>5, <1>7, <2>1, <2>2 DEF Placed, Second
    <2>3. CASE m # Manager
      <3>1. /\ pc'[m] = pc[m] /\ cmd'[m] = cmd[m] /\ pos'[m] = pos[m] /\ acc'[m] = acc[m]
        BY <1>7, <2>3
      <3>2. /\ (Second(m)' <=> Second(m)) /\ (LoopOver(m)' <=> LoopOver(m)) /\ (Partner(m)' <=> Partner(m))
        BY <2>1, <3>1 DEF Second, LoopOver, Enough, Partner
      <3> QED
        BY <2>1, <3>1, <3>2 DEF Placed
    <2> QED
      BY <2>2, <2>3
  <1>13. OnePlace'
    <2>1. \A m \in All : Holds(m)' => m = Manager
      BY <1>1, <1>7 DEF Holds
    <2> QED
      BY <1>1, <1>6, <2>1 DEF OnePlace
  <1>14. \A m \in Names : ~Engaged(m)'
    <2>1. \A m \in Names : m \in All /\ m # Manager
      BY DEF All
    <2> QED
      BY <1>1, <1>6, <1>7, <2>1 DEF Engaged, Holds
  <1>15. Supervised'
    BY <1>14 DEF Supervised
  <1>16. ChainHeard'
    <2> SUFFICES ASSUME NEW q \in All, NEW j \in Names, Waits(q, j)' PROVE FALSE
      BY DEF ChainHeard
    <2>1. pc'[q] \in {"hear", "await", "reap"}
      BY DEF Waits
    <2>2. q # Manager /\ pc'[q] = pc[q]
      BY <1>7, <2>1
    <2>3. q \in Names /\ Engaged(q)
      BY <2>1, <2>2 DEF Engaged, Holds, All
    <2> QED
      BY <1>1, <2>3
  (* No list has a name that no process has: the processes of a list that  *)
  (* dies as a whole are waited for one by one, but then one is at work.   *)
  <1>17. op = "spawn" => Fresh(b)
    <2> SUFFICES ASSUME op = "spawn", NEW p \in All, b \in Kids(p) PROVE FALSE
      BY <1>5 DEF Fresh
    <2>1. PICK i \in 1 .. Len(children[p]) : b = children[p][i]
      BY DEF Kids
    <2>2. Dying(p)
      BY <1>5, <2>1 DEF ServiceInv, DeadKids
    <2>3. p \in Names /\ Engaged(p)
      BY <1>1, <2>2 DEF Dying, Engaged, Holds, All
    <2> QED
      BY <1>1, <2>3
  <1>18. NameFree'
    <2>1. \A m \in All : pc'[m] \in {"fork", "each"} => m = Manager
      BY <1>1, <1>7 DEF Holds
    <2> QED
      BY <1>1, <1>4, <1>5, <1>6, <1>7, <1>10, <1>17, <2>1 DEF NameFree
  <1> QED
    BY <1>8, <1>10, <1>11, <1>12, <1>13, <1>15, <1>16, <1>18 DEF ServiceInv
-----------------------------------------------------------------------------
LEMMA InvInit == Init => ServiceInv
  <1> SUFFICES ASSUME Init PROVE ServiceInv
    OBVIOUS
  <1>1. /\ Manager \in All
        /\ \A n \in All :
             /\ children[n] = <<>> /\ down[n] = <<>> /\ up[n] = <<>> /\ fifo[n] = <<>>
             /\ pc[n] = IF n = Manager THEN "idle" ELSE "none"
             /\ cmd[n] = NoCommand /\ pos[n] = 0 /\ acc[n] = 0
             /\ Kids(n) = {}
    BY DEF Init, All, Kids
  <1>2. TypeOK
    <2>1. \A S : <<>> \in Seq(S)
      OBVIOUS
    <2>2. /\ children \in [All -> Seq(Names)] /\ down \in [All -> Seq(Commands)]
          /\ up \in [All -> Seq(Nat)] /\ fifo \in [All -> Seq(All)]
      BY <2>1 DEF Init
    <2>3. /\ secret \in [All -> All] /\ tm \in [All -> All] /\ before \in [All -> All]
          /\ pos \in [All -> Nat] /\ acc \in [All -> Nat] /\ pc \in [All -> Labels]
      BY DEF Init, Labels
    <2>4. cmd \in [All -> Commands]
      BY NoCommandTyped DEF Init
    <2>5. fifos \in BOOLEAN /\ files \subseteq Names /\ subtree \in [All -> SUBSET All]
      BY DEF Init
    <2>6. answer \in [told : {"nothing", "spawned", "missing", "killed", "exchanged"}, count : Nat]
      BY DEF Init, Nothing
    <2> QED
      BY <1>1, <2>2, <2>3, <2>4, <2>5, <2>6 DEF TypeOK
  <1>3. \A n \in All : Placed(n)
    BY <1>1 DEF Placed
  <1>4. OneParent /\ DeadKids /\ Acyclic
    BY <1>1 DEF OneParent, DeadKids, Acyclic, All
  <1>5. Rooted /\ OnePlace /\ NameFree
    BY <1>1 DEF Rooted, OnePlace, Holds, NameFree, All
  <1>6. Supervised /\ ChainHeard
    <2>1. \A m \in Names : m \in All /\ m # Manager
      BY DEF All
    <2>2. \A m \in Names : ~Engaged(m)
      BY <1>1, <2>1 DEF Engaged, Holds
    <2>3. \A p \in All : \A k : ~Waits(p, k)
      BY <1>1 DEF Waits
    <2> QED
      BY <2>2, <2>3 DEF Supervised, ChainHeard
  <1> QED
    BY <1>2, <1>3, <1>4, <1>5, <1>6 DEF ServiceInv

(* One step of a process keeps the invariant.                              *)
LEMMA InvStep ==
  ASSUME ServiceInv, NEW n \in All, Step(n)
  PROVE  ServiceInv'
  <1>1. CASE Receive(n)
    BY <1>1, InvReceive
  <1>2. CASE Fork(n)
    BY <1>2, InvFork
  <1>3. CASE Boot(n)
    BY <1>3, InvBoot
  <1>4. CASE Hear(n)
    BY <1>4, InvHear
  <1>5. CASE Forward(n)
    BY <1>5, InvForward
  <1>6. CASE Collect(n)
    BY <1>6, InvCollect
  <1>7. CASE Reap(n)
    BY <1>7, InvReap
  <1>8. CASE Reply(n)
    BY <1>8, InvReply
  <1>9. CASE ReplyPartner(n)
    BY <1>9, InvReplyPartner
  <1>10. CASE ReplyDying(n)
    BY <1>10, InvReplyDying
  <1>11. CASE Exit(n)
    BY <1>11, InvExit
  <1>12. CASE ReplySecond(n)
    BY <1>12, InvReplySecond
  <1>13. CASE Watch(n)
    BY <1>13, InvWatch
  <1>14. CASE Give(n)
    BY <1>14, InvGive
  <1>15. CASE Take(n)
    BY <1>15, InvTake
  <1>16. CASE Report(n)
    BY <1>16, InvReport
  <1>17. CASE Unfile(n)
    BY <1>17, InvUnfile
  <1>18. CASE n = Manager /\ Conclude
    BY <1>18, InvConclude
  <1>19. CASE n = Manager /\ EndExchange
    BY <1>19, InvEndExchange
  <1> QED
    BY <1>1, <1>2, <1>3, <1>4, <1>5, <1>6, <1>7, <1>8, <1>9, <1>10, <1>11, <1>12, <1>13,
       <1>14, <1>15, <1>16, <1>17, <1>18, <1>19 DEF Step

LEMMA InvStutter ==
  ASSUME ServiceInv, UNCHANGED vars
  PROVE  ServiceInv'
  <1>1. SameLists
    BY DEF SameLists, vars
  <1>2. /\ OneParent' /\ Rooted' /\ Acyclic'
        /\ \A m \in All : Kids(m)' = Kids(m)
        /\ \A d : Fresh(d) => Fresh(d)'
    BY <1>1, ListsKept
  <1>3. UNCHANGED <<children, secret, down, up, pc, cmd, pos, acc, tm, fifo, fifos, files, answer, subtree, before>>
    BY DEF vars, pipes, locals, trade, history
  <1>4. TypeOK'
    BY <1>3 DEF ServiceInv, TypeOK
  <1>5. \A m \in All : Placed(m)'
    BY <1>2, <1>3 DEF ServiceInv, Placed, LoopOver, Enough, Second, Partner
  <1>6. DeadKids' /\ OnePlace'
    BY <1>3 DEF ServiceInv, DeadKids, Dying, OnePlace, Holds
  <1>7. Supervised'
    BY <1>2, <1>3 DEF ServiceInv, Supervised, Engaged, Holds, Waits, Kid
  <1>8. ChainHeard'
    BY <1>2, <1>3 DEF ServiceInv, ChainHeard, Heard, Holds, Waits, Kid, SameCommand, Targets, Sent
  <1>9. NameFree'
    BY <1>2, <1>3 DEF ServiceInv, NameFree
  <1> QED
    BY <1>2, <1>4, <1>5, <1>6, <1>7, <1>8, <1>9 DEF ServiceInv

-----------------------------------------------------------------------------
(* The invariant: a command is under way in one place, everybody on its way *)
(* is waited for by its parent with the same command, and the lists hold    *)
(* every process once and never a process below itself.                     *)
THEOREM ServiceInvariance == Spec => []ServiceInv
  <1>1. ASSUME ServiceInv, [Next]_vars PROVE ServiceInv'
    BY <1>1, InvIssue, InvStep, InvStutter DEF Next
  <1> QED
    BY <1>1, InvInit, PTL DEF Spec

(* Every variable has its type, and a pipe never holds two messages: nobody *)
(* writes the next command or answer before the one before was read.        *)
THEOREM ServiceTyped == Spec => []TypeOK
  <1>1. ServiceInv => TypeOK
    BY DEF ServiceInv
  <1> QED
    BY <1>1, ServiceInvariance, PTL

(* In every state of every tree, with any names and commands: a process not *)
(* yet waited for is in the list of one living parent, in no other list and *)
(* not below itself, and no list has a name twice.                          *)
THEOREM TreeAlwaysSound == Spec => []TreeSound
  <1>1. ASSUME ServiceInv, NEW n \in Names, pc[n] # "none"
        PROVE  \E p \in All : /\ Alive(p) /\ n \in Kids(p) /\ n \notin Below(Kids(n))
                              /\ \A q \in All \ {p} : n \notin Kids(q)
    <2>1. PICK p \in All : n \in Kids(p)
      BY <1>1 DEF ServiceInv, Rooted
    <2>2. Alive(p)
      <3>1. Placed(p)
        BY <1>1 DEF ServiceInv
      <3>2. children[p] # <<>>
        BY <2>1 DEF Kids
      <3> QED
        BY <3>1, <3>2 DEF Placed, Alive
    <2>3. \A q \in All \ {p} : n \notin Kids(q)
      BY <1>1, <2>1, KidFacts
    <2> QED
      BY <1>1, <2>1, <2>2, <2>3, NotBelowItself
  <1>2. ASSUME ServiceInv, NEW n \in All
        PROVE  Cardinality(Kids(n)) = Len(children[n])
    <2> DEFINE L == Len(children[n])
               f == [i \in 1 .. L |-> children[n][i]]
    <2>1. L \in Nat
      BY <1>2 DEF ServiceInv, TypeOK
    <2>2. \A i, j \in 1 .. L : children[n][i] = children[n][j] => i = j
      BY <1>2 DEF ServiceInv, OneParent
    <2>3. f \in Bijection(1 .. L, Kids(n))
      <3>1. f \in [1 .. L -> Kids(n)]
        BY DEF Kids
      <3>2. \A i, j \in 1 .. L : f[i] = f[j] => i = j
        BY <2>2
      <3>3. \A k \in Kids(n) : \E i \in 1 .. L : f[i] = k
        BY DEF Kids
      <3> HIDE DEF f, L
      <3> QED
        BY <3>1, <3>2, <3>3, Fun_IsInj, Fun_IsSurj DEF Bijection
    <2> HIDE DEF f
    <2>4. ExistsBijection(1 .. L, Kids(n))
      BY <2>3 DEF ExistsBijection
    <2>5. IsFiniteSet(1 .. L) /\ Cardinality(1 .. L) = L
      BY <2>1, FS_Interval
    <2> QED
      BY <2>4, <2>5, FS_Bijection
  <1>3. ServiceInv => TreeSound
    BY <1>1, <1>2 DEF TreeSound
  <1> QED
    BY <1>3, ServiceInvariance, PTL
=============================================================================
