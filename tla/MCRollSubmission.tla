-------------------------- MODULE MCRollSubmission --------------------------
(* RollSubmission on small instances. *)
EXTENDS RollSubmission

\* Every ticket rolls a pair of options of its own.
OwnLegs == [r \in Refs |-> r]
=============================================================================
