-------------------------- MODULE MCPracticeProgress --------------------------
(* A small instance of PracticeProgress for TLC. *)
EXTENDS PracticeProgress, TLC

CONSTANTS q, x

\* One quiz of one question: a remediation on its concept has up to two.
MCAsks == q :> <<x>>

ClientSymmetry == Permutations(Clients)
=============================================================================
