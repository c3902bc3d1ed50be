----------------------------- MODULE MCSessions -----------------------------
(* Instances of Sessions for TLC. *)
EXTENDS Sessions, TLC

CONSTANTS s1, s2, s3

\* s1 and s2 belong to one user, s3 to another.
MCOwner == [s \in Sessions |-> IF s = s3 THEN "u2" ELSE "u1"]

\* Tokens and requests are interchangeable.
Symmetry == Permutations(Tokens) \cup Permutations(Procs)
=============================================================================
