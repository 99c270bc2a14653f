------------------------------ MODULE MCDriver ------------------------------
(* Two compilations in one directory, alike but for their programs.        *)
EXTENDS Driver, TLC

MCSymmetry == Permutations(Compilations)
=============================================================================
