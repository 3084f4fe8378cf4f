--------------------------- MODULE MCInventoryTx ----------------------------
(* Small instances of InventoryTx for TLC. *)
EXTENDS InventoryTx, TLC

CONSTANTS alice, bob, w1, w2, p1, p2, r1, r2, r3, b1, b2, h1, h2, low, high

Symmetry == Permutations(Users) \union Permutations(Workspaces)
    \union Permutations(Products) \union Permutations(RequestIds)
    \union Permutations(BarRequestIds) \union Permutations(Handlers)
=============================================================================
