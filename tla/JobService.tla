----------------------------- MODULE JobService -----------------------------
(***************************************************************************)
(* What the thread pool of my_pool.c promises to the program that uses it, *)
(* without threads, locks or condition variables: jobs are performed one   *)
(* at a time, each exactly once and in the order of submission; tpool_wait *)
(* comes back only when nothing is outstanding; tpool_destroy closes a     *)
(* service that owes nothing.                                              *)
(*                                                                         *)
(* A job is identified by its rank in the order of the tpool_add calls.    *)
(***************************************************************************)
EXTENDS Naturals, Sequences

VARIABLES
  submitted,  \* how many jobs were handed to tpool_add
  performed,  \* the jobs performed so far, oldest first
  caller      \* "free", "waiting" (inside tpool_wait) or "closed"

jsvars == <<submitted, performed, caller>>

Outstanding == Len(performed) < submitted

JSInit ==
  /\ submitted = 0
  /\ performed = <<>>
  /\ caller = "free"

Submit ==
  /\ caller = "free"
  /\ submitted' = submitted + 1
  /\ UNCHANGED <<performed, caller>>

Perform ==
  /\ Outstanding
  /\ performed' = Append(performed, Len(performed) + 1)
  /\ UNCHANGED <<submitted, caller>>

BeginWait ==
  /\ caller = "free"
  /\ caller' = "waiting"
  /\ UNCHANGED <<submitted, performed>>

EndWait ==
  /\ caller = "waiting"
  /\ ~Outstanding
  /\ caller' = "free"
  /\ UNCHANGED <<submitted, performed>>

Close ==
  /\ caller = "free"
  /\ ~Outstanding
  /\ caller' = "closed"
  /\ UNCHANGED <<submitted, performed>>

JSNext == Submit \/ Perform \/ BeginWait \/ EndWait \/ Close

JSSafety == JSInit /\ [][JSNext]_jsvars

JSSpec == JSSafety /\ WF_jsvars(Perform) /\ WF_jsvars(EndWait)
=============================================================================
