------------------------ MODULE MCTransactionIngest ------------------------
(* One order of the app and one entered by hand: a call bought back in two *)
(* equal parts.                                                            *)
EXTENDS TransactionIngest, TLC

CONSTANTS b1, o1, o2, f1, f2, f3

HomeIsFirst == [o \in AppOrders |-> b1]
RollOrders == (f1 :> o1) @@ (f2 :> o2) @@ (f3 :> o2)
HalvesAlike == (f1 :> f1) @@ (f2 :> f2) @@ (f3 :> f2)
=============================================================================
