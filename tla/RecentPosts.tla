---------------------------- MODULE RecentPosts ----------------------------
(***************************************************************************)
(* What the bulletin board promises to the users of one server: it keeps   *)
(* the last Size posts, and a new post replaces the oldest one.  A post is *)
(* made in two steps: the author is given the place of the oldest post     *)
(* (Begin) and later sends the text that replaces it (Submit).  When the   *)
(* server ends the posts stay, in a circle of which it no longer knows     *)
(* where it begins, and an author who has a place loses it.                *)
(***************************************************************************)
EXTENDS Naturals, Sequences

CONSTANTS Size,        \* number of posts the board holds
          Posts        \* what a place of the board may hold

VARIABLES recent,      \* the posts, the oldest first
          writing,     \* TRUE while an author writes the next post
          up           \* TRUE while the server runs

rpVars == <<recent, writing, up>>

RPInit == /\ recent \in [1 .. Size -> Posts]
          /\ writing = FALSE
          /\ up = TRUE

Begin == /\ up /\ ~writing
         /\ writing' = TRUE
         /\ UNCHANGED <<recent, up>>

Submit == /\ up /\ writing
          /\ \E p \in Posts : recent' = Append(Tail(recent), p)
          /\ writing' = FALSE
          /\ UNCHANGED up

Stop == /\ up
        /\ up' = FALSE
        /\ writing' = FALSE
        /\ \E k \in 0 .. Size - 1 :
             recent' = [i \in 1 .. Size |-> recent[((i - 1 + k) % Size) + 1]]

Start == /\ ~up
         /\ up' = TRUE
         /\ UNCHANGED <<recent, writing>>

RPNext == Begin \/ Submit \/ Stop \/ Start

RPSpec == RPInit /\ [][RPNext]_rpVars
=============================================================================
