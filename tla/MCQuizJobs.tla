----------------------------- MODULE MCQuizJobs -----------------------------
(* Small instances of QuizJobs for TLC. *)
EXTENDS QuizJobs, TLC

ClientSymmetry == Permutations(Clients)
=============================================================================
