------------------------------ MODULE MCRoles -------------------------------
(* Instances of Roles for TLC. *)
EXTENDS Roles, TLC

\* Requests are interchangeable, and so are the roles that are not seeded and
\* their codes.
Symmetry ==
  Permutations(Procs) \cup Permutations(RoleIds \ SystemRoles)
    \cup Permutations(Codes \ {AdminCode, UserCode})
=============================================================================
