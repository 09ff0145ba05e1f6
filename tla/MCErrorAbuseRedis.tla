------------------------- MODULE MCErrorAbuseRedis -------------------------
(* Small instances of ErrorAbuseRedis. *)
EXTENDS ErrorAbuseRedis

\* Requests and workers are interchangeable.
RequestWorkerSymmetry == Permutations(Request) \cup Permutations(Worker)

=============================================================================
