--------------------------- MODULE MCTaskRegistry ---------------------------
EXTENDS TaskRegistry, TLC

Interchangeable == Permutations(Tasks) \cup Permutations(Execs)
=============================================================================
