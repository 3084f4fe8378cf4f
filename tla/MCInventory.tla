---------------------------- MODULE MCInventory -----------------------------
(* A small instance of Inventory for TLC. *)
EXTENDS Inventory, TLC

CONSTANTS alice, bob, w1, w2, p1, p2, b1, r1, r2, low, high

MCUsers == {alice, bob}
MCWorkspaces == {w1, w2}
MCProducts == {p1, p2}
MCRequestIds == {r1, r2}
MCBarRequestIds == {b1}
MCSettings == {low, high}
MCBarPayloads == {low}

Symmetry ==
    Permutations(MCUsers) \union Permutations(MCWorkspaces)
        \union Permutations(MCProducts) \union Permutations(MCRequestIds)
=============================================================================
