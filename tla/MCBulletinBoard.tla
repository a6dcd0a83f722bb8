-------------------------- MODULE MCBulletinBoard --------------------------
EXTENDS BulletinBoard, TLC
CONSTANTS s1, s2, c1, c2, c3
OneServer  == [c \in Clients |-> s1]
TwoServers == [c \in Clients |-> IF c = c2 THEN s2 ELSE s1]
Sym == Permutations({c1, c3})
=============================================================================
