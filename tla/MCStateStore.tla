---------------------------- MODULE MCStateStore ----------------------------
(* Small instances of StateStore for TLC. *)
EXTENDS StateStore, TLC

StoreSymmetry == Permutations(Threads) \union Permutations(Updates)
=============================================================================
