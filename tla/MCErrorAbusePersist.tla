------------------------ MODULE MCErrorAbusePersist ------------------------
(* Small instances of ErrorAbusePersist. *)
EXTENDS ErrorAbusePersist

\* Identities are interchangeable: no action and no property names one.
KeySymmetry == Permutations(Key)

=============================================================================
