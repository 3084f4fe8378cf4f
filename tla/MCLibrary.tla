----------------------------- MODULE MCLibrary ------------------------------
(* Small instances of Library for TLC. *)
EXTENDS Library, TLC

CONSTANTS alice, bob, c1, c2, f1, f2, neat, long, tag, cellar, shelf

Symmetry == Permutations(Recipes) \union Permutations(Slugs)
=============================================================================
