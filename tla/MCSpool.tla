------------------------------ MODULE MCSpool ------------------------------
(* Model-checking instance of Spool: actors of one role are interchangeable. *)
EXTENDS Spool, TLC

Symmetry == Permutations(Ids) \cup Permutations(Workers)
              \cup Permutations(Operators)
=============================================================================
