--------------------------- MODULE MCPositionMirror -------------------------
(* One or two strikes and expiries, a handful of trades.                    *)
EXTENDS PositionMirror
=============================================================================
