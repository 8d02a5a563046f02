------------------------------ MODULE MCUseLists ------------------------------
(* Instances of UseLists for TLC: a handful of instructions of each kind. *)
EXTENDS UseLists, TLC

CONSTANTS a, l1, l2, s, p, b1, b2, r, c, bb

\* Instructions of one kind play the same role in every action.
Interchangeable == Permutations(Load) \cup Permutations(Pure)
===============================================================================
