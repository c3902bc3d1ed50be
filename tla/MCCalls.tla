------------------------------ MODULE MCCalls -------------------------------
(* Instances of Calls for TLC. *)
EXTENDS Calls, TLC

CONSTANTS t1, t2, u1, custom, system, plain, shouted

MCUserOf == t1 :> u1 @@ t2 :> u1
MCRoleOf == t1 :> custom @@ t2 :> system
MCNormal == plain :> plain @@ shouted :> plain

\* Every method called once, with whatever can be wrong, and queries that fail or
\* that do not; some without a limiter or without Redis.
Single(m) == [methods |-> {m}, calls |-> 1, errors |-> 1, refills |-> 0, wrong |-> TRUE,
              faulty |-> TRUE, redis |-> TRUE, enabled |-> TRUE, failOpen |-> FALSE]

\* Well-formed calls that overlap: of a method limited by address and by account,
\* with buckets that are refilled or with a limiter that fails open; and of two
\* methods that share a bucket, only one of which asks for a permission.
Overlap(ms, n, e, r) ==
  [methods |-> ms, calls |-> n, errors |-> e, refills |-> r, wrong |-> FALSE,
   faulty |-> FALSE, redis |-> TRUE, enabled |-> TRUE, failOpen |-> e > 0]

MCWorkloads ==
  {Single(m) : m \in Methods}
    \cup {[Single(m) EXCEPT !.faulty = FALSE] : m \in Methods}
    \cup {[Single(m) EXCEPT !.enabled = FALSE] : m \in {"Login", "ListUsers"}}
    \cup {[Single(m) EXCEPT !.enabled = FALSE, !.redis = FALSE] :
             m \in {"RefreshToken", "GetMyProfile"}}
    \cup {Overlap({"Login"}, 3, 0, 1), Overlap({"Login"}, 3, 1, 0),
          Overlap({"ListRoles", "Logout"}, 2, 0, 0)}
=============================================================================
