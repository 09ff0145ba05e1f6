-------------------------- MODULE MCErrorAbuseScan --------------------------
(* Small instances of ErrorAbuseScan.  Identities are numbers, as cells are, *)
(* and a number larger than the threshold is no length.                      *)
EXTENDS ErrorAbuseScan

=============================================================================
