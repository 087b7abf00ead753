------------------------- MODULE MCMaterialIngestion -------------------------
(* Small instances of MaterialIngestion for TLC. *)
EXTENDS MaterialIngestion, TLC

ClientSymmetry == Permutations(Clients)
=============================================================================
