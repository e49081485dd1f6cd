-------------------------- MODULE MC_RuntimeEntry --------------------------
(* Instances of RuntimeEntry for TLC. *)
EXTENDS RuntimeEntry

\* The lines written to each stream.
TwoOut == [s \in Streams |-> IF s = "out" THEN 2 ELSE 0]
FourAndOne == [s \in Streams |-> IF s = "out" THEN 4 ELSE 1]
=============================================================================
