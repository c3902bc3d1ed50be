--------------------------- MODULE MCCdcConsumer ---------------------------
(* Instances of CdcConsumer for TLC. *)
EXTENDS CdcConsumer, TLC

\* Rows and their contents are interchangeable.
Symmetry == Permutations(Keys) \cup Permutations(Values)
=============================================================================
