------------------------------ MODULE MCCVRStore ------------------------------
EXTENDS CVRStore, TLC

\* Neither the tasks nor the rows are told apart.
Symmetry == Permutations(Tasks) \cup Permutations(Rows)
=============================================================================
