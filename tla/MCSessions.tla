---------------------------- MODULE MCSessions -----------------------------
(* Small instances of Sessions for TLC. *)
EXTENDS Sessions, TLC

CONSTANTS u1, u2, s1, s2, s3, h1, h2, h3

\* Short sessions of one unit of inactivity in two, long ones of two in three.
MCIdle == [persistent \in BOOLEAN |-> IF persistent THEN 2 ELSE 1]
MCAbsolute == [persistent \in BOOLEAN |-> IF persistent THEN 3 ELSE 2]

Symmetry == Permutations(Users) \union Permutations(SessionIds) \union Permutations(Handlers)
=============================================================================
