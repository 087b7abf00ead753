----------------------------- MODULE MCMockExams -----------------------------
(* Small instances of MockExams for TLC. *)
EXTENDS MockExams, TLC

CONSTANTS p1, p2, p3, p4, right, wrong, file1

\* The first two prompts are worded differently and mean the same.
MCAlike == {<<p, p>> : p \in Prompts} \cup {<<p1, p2>>}
MCCompleted == file1 :> [exam |-> 1, answers |-> right]
=============================================================================
