--------------------------- MODULE MCProjectStores ---------------------------
EXTENDS ProjectStores, TLC
\* Processes and keys are told apart by nothing but their names.
Symmetry == Permutations(Procs) \cup Permutations(Keys)
=============================================================================
