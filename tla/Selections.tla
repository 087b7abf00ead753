------------------------------ MODULE Selections ------------------------------
(***************************************************************************)
(* What Python's [x for x in s if test(x)] gives.  An element is placed by *)
(* its rank, not by a recursion like that of SelectSeq: what is selected   *)
(* can then be reasoned about for sequences of any length.                 *)
(***************************************************************************)
EXTENDS Naturals, Sequences, FiniteSets

\* A sequence, whatever its elements are.
List(s) == s \in Seq({s[i] : i \in DOMAIN s})

\* The place in I that k places of I do not exceed.
Ranked(I, k) == CHOOSE i \in I : Cardinality({j \in I : j <= i}) = k

\* The elements of s at the places in I, in their order.
At(s, I) == [k \in 1..Cardinality(I) |-> s[Ranked(I, k)]]

Selected(s, Test(_)) == At(s, {i \in DOMAIN s : Test(s[i])})

\* The places at which a value comes first.
FirstPlaces(s) == {i \in DOMAIN s : \A j \in 1..(i - 1) : s[j] # s[i]}
=============================================================================
