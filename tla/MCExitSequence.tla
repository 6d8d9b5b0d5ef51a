---------------------------- MODULE MCExitSequence -------------------------
(* Two calls of different strikes.                                          *)
EXTENDS ExitSequence, TLC
CONSTANTS c1, c2
TwoCalls == {c1, c2}
Strikes == c1 :> 1 @@ c2 :> 2
ExitSymmetry == Permutations(Exits)
=============================================================================
