------------------------------ MODULE FifoLock ------------------------------
(***************************************************************************)
(* What lock() and unlock() of threadtools.h promise, without queues of    *)
(* threads, signals or a scheduler: one holder at a time; a thread that    *)
(* finds the lock taken waits in line; a lock that is released while       *)
(* threads wait goes to the first of them, and a newcomer never passes it. *)
(***************************************************************************)
EXTENDS Naturals, Sequences

CONSTANTS
  Clients,
  Free      \* nobody, not a client

VARIABLES
  holder,   \* the client that holds the lock, or Free
  waiters   \* the clients in line, the first one first

flvars == <<holder, waiters>>

FLInit == holder = Free /\ waiters = <<>>

InLine(t) == \E i \in 1..Len(waiters) : waiters[i] = t

Take(t) ==
  /\ holder = Free /\ waiters = <<>>
  /\ holder' = t
  /\ UNCHANGED waiters

LineUp(t) ==
  /\ holder \notin {Free, t} /\ ~InLine(t)
  /\ waiters' = Append(waiters, t)
  /\ UNCHANGED holder

Leave ==
  /\ holder # Free
  /\ holder' = Free
  /\ UNCHANGED waiters

PassOn ==
  /\ holder = Free /\ waiters # <<>>
  /\ holder' = Head(waiters)
  /\ waiters' = Tail(waiters)

(* The lock is passed on while t asks for it: t lines up behind.           *)
PassOnBefore(t) ==
  /\ holder = Free /\ waiters # <<>> /\ ~InLine(t)
  /\ holder' = Head(waiters)
  /\ waiters' = Append(Tail(waiters), t)

FLNext ==
  \/ \E t \in Clients : Take(t) \/ LineUp(t) \/ PassOnBefore(t)
  \/ Leave \/ PassOn

FLSpec == FLInit /\ [][FLNext]_flvars
=============================================================================
