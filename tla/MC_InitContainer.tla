-------------------------- MODULE MC_InitContainer --------------------------
(* Instance of InitContainer for TLC. *)
EXTENDS InitContainer, TLC

CONSTANTS d1, d2, d3

\* The names of prelog directories are interchangeable.
DirSymmetry == Permutations(DirNames)
=============================================================================
