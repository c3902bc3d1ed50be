------------------------------ MODULE MCOutbox ------------------------------
(* Instances of Outbox for TLC. *)
EXTENDS Outbox

\* Event 1 has a positive limit of its own, event 2 a negative one (so that
\* the workers' limit counts) and event 3 none (so that the column's default
\* counts).
MCEnvMaxRetry == [e \in Events |-> CASE e = 1 -> 2 [] e = 2 -> -1 [] OTHER -> 0]
=============================================================================
