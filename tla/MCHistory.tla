----------------------------- MODULE MCHistory -----------------------------
(* Model values of the configuration MCHistory.                            *)
EXTENDS History, TLC

Symmetry == Permutations(Workers) \cup Permutations(Operators)

=============================================================================
