--------------------------- MODULE MCOxylabsApply ---------------------------
(* OxylabsApply for TLC: jobs, listings and handlers are interchangeable.  *)
EXTENDS OxylabsApply, TLC

Symmetry == Permutations(Jobs) \cup Permutations(Listings)
              \cup Permutations(Handlers)
=============================================================================
