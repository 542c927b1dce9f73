----------------------------- MODULE Selection -----------------------------
(***************************************************************************)
(* Array.prototype.filter: the elements of a sequence at some of its       *)
(* positions, in their order.  By enumerating the positions, and not by    *)
(* recursion over the sequence as SelectSeq, so that what a filter keeps   *)
(* can be proved (Selection_proofs).                                       *)
(***************************************************************************)
EXTENDS Naturals, Sequences, FiniteSets

(* The elements of a finite set of numbers, in increasing order.           *)
Positions(S) ==
  CHOOSE at \in [1 .. Cardinality(S) -> S] : \A i, j \in DOMAIN at : i < j => at[i] < at[j]

Among(s, S) == LET at == Positions(S) IN [i \in 1 .. Cardinality(S) |-> s[at[i]]]
=============================================================================
