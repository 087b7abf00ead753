--------------------------- MODULE MCPackageBuild ---------------------------
(* Small instances of PackageBuild for TLC. *)
EXTENDS PackageBuild, TLC

ClientSymmetry == Permutations(Clients)
=============================================================================
