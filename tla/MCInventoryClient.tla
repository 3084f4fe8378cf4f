------------------------- MODULE MCInventoryClient --------------------------
(* Small instances of InventoryClient for TLC: one Bar, one product. *)
EXTENDS InventoryClient

CONSTANTS alice, bob, w1, p1, b1, low, init, f1, f2, other
=============================================================================
