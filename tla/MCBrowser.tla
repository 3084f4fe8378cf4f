----------------------------- MODULE MCBrowser -----------------------------
(* Small instances of Browser for TLC. *)
EXTENDS Browser, TLC

CONSTANTS t1, t2, alice, bob, s1, s2, s3

\* s3 is a session of Bob, the others are sessions of Alice.
MCOwner == [s \in Sessions |-> IF s = s3 THEN bob ELSE alice]

\* Two calls of one tab, or one call of two tabs.
MCMaxCalls == IF Cardinality(Tabs) = 1 THEN <<2>> ELSE <<2, 1>>

\* The tabs are alike, and no property is about one of them.
TabSymmetry == Permutations(Tabs)
=============================================================================
