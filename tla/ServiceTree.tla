---------------------------- MODULE ServiceTree ----------------------------
(***************************************************************************)
(* What the user at the Manager's prompt is promised: a tree of services   *)
(* in which each command is one step.  spawn adds a leaf below a service,  *)
(* kill takes a service away with everything below it, exchange swaps the  *)
(* secrets of two services.                                                *)
(***************************************************************************)
EXTENDS Naturals

CONSTANTS Names,     \* names of services
          Root,      \* the Manager, not one of them
          Secrets    \* what a service may draw as its secret

VARIABLES parent,    \* of each service of the tree but the Root: its parent
          up,        \* FALSE once the Manager is killed
          secret     \* of each service of the tree: its secret

stVars == <<parent, up, secret>>

Services == IF up THEN DOMAIN parent \cup {Root} ELSE {}

STInit == /\ parent = [n \in {} |-> Root]
          /\ up = TRUE
          /\ secret \in [{Root} -> Secrets]

Spawn(p, c) ==
  /\ p \in Services /\ c \in Names \ Services
  /\ parent' = [n \in DOMAIN parent \cup {c} |-> IF n = c THEN p ELSE parent[n]]
  /\ \E s \in Secrets :
       secret' = [n \in DOMAIN secret \cup {c} |-> IF n = c THEN s ELSE secret[n]]
  /\ UNCHANGED up

(* A set that holds t and, of the others, exactly those whose parent is in  *)
(* the set: all that is below t.                                            *)
IsSubtree(S, t) ==
  /\ t \in S /\ S \subseteq Services
  /\ \A n \in DOMAIN parent \ {t} : n \in S <=> parent[n] \in S

Kill(t) ==
  /\ t \in DOMAIN parent
  /\ \E S \in SUBSET DOMAIN parent :
       /\ IsSubtree(S, t)
       /\ parent' = [n \in DOMAIN parent \ S |-> parent[n]]
       /\ secret' = [n \in DOMAIN secret \ S |-> secret[n]]
  /\ UNCHANGED up

KillAll ==
  /\ up
  /\ up' = FALSE
  /\ parent' = [n \in {} |-> Root]
  /\ secret' = [n \in {} |-> Root]

Exchange(a, b) ==
  /\ a \in Services /\ b \in Services
  /\ secret' = [secret EXCEPT ![a] = secret[b], ![b] = secret[a]]
  /\ UNCHANGED <<parent, up>>

STNext ==
  \/ \E p \in Names \cup {Root}, c \in Names : Spawn(p, c)
  \/ \E t \in Names : Kill(t)
  \/ KillAll
  \/ \E a, b \in Names \cup {Root} : Exchange(a, b)

STSpec == STInit /\ [][STNext]_stVars
=============================================================================
