---------------------------- MODULE MCLiveOrders ----------------------------
(* LiveOrders on small instances, with symmetry over interchangeable threads. *)
EXTENDS LiveOrdersInv, TLC

ThreadSymmetry == Permutations(Threads)
=============================================================================
