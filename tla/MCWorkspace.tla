---------------------------- MODULE MCWorkspace ----------------------------
(* Two accounts of one tab, their notebooks and the two Bars they may be   *)
(* members of. The accounts, with their notebooks, may be exchanged, and so*)
(* may the Bars.                                                           *)
EXTENDS Workspace, TLC

CONSTANTS alice, bob, aliceHome, bobHome, bar, pub

MCUsers    == {alice, bob}
MCHome     == (alice :> aliceHome) @@ (bob :> bobHome)
MCPersonal == {At(u, MCHome[u]) : u \in MCUsers}
MCOwners   == MCPersonal \cup {At(u, b) : u \in MCUsers, b \in {bar, pub}}

Same       == [x \in {alice, bob, aliceHome, bobHome} |-> x]
Exchanged  == (alice :> bob) @@ (bob :> alice) @@ (aliceHome :> bobHome) @@ (bobHome :> aliceHome)
MCSymmetry == {u @@ b : u \in {Same, Exchanged}, b \in Permutations({bar, pub})}
=============================================================================
