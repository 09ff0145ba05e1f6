------------------------- MODULE MCErrorAbuseShared -------------------------
(* A small instance of ErrorAbuseShared: every worker on a host of its own. *)
EXTENDS ErrorAbuseShared

\* Hosts are named like their only worker.
MCHostOf == [w \in Worker |-> w]

\* Requests are interchangeable, and so are hosts with their workers.
RequestHostSymmetry == Permutations(Request) \cup Permutations(Worker)

=============================================================================
