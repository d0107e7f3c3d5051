------------------------------ MODULE MCQpufBoot ------------------------------
(* QpufBoot for TLC; the model values of each set are interchangeable.        *)
EXTENDS QpufBoot, TLC

Symmetry ==
    Permutations(Proc) \cup Permutations(Secret) \cup Permutations(Challenge)
================================================================================
