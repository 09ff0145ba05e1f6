-------------------------- MODULE MCErrorAbuseZone --------------------------
(* Small instances of ErrorAbuseZone. *)
EXTENDS ErrorAbuseZone

\* Identities are interchangeable, and so are workers: no action and no
\* property names one.
KeyWorkerSymmetry == Permutations(Key) \cup Permutations(Worker)

=============================================================================
