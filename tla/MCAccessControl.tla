---------------------------- MODULE MCAccessControl ----------------------------
(* Three users, one of them a platform administrator, and two workers: a      *)
(* second member to make and unmake administrator, three membership rows so   *)
(* that a user could get two, and four tokens so that a rotated token can be  *)
(* presented again and a second session opened.                               *)
EXTENDS AccessControl, TLC

CONSTANTS u1, u2, u3, m1, m2, m3, t1, t2, t3, t4, w1, w2

Alike == Permutations({m1, m2, m3}) \cup Permutations({t1, t2, t3, t4}) \cup Permutations({w1, w2})
===============================================================================
