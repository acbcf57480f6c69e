------------------------------ MODULE MCQuota ------------------------------
(* Model-checking instance of Quota: message slots are interchangeable.    *)
EXTENDS Quota, TLC

Symmetry == Permutations(Messages)
=============================================================================
