-------------------------- MODULE MCOxylabsVerify --------------------------
(* OxylabsVerify for TLC: jobs are interchangeable.                        *)
EXTENDS OxylabsVerify, TLC

Symmetry == Permutations(Jobs)
=============================================================================
