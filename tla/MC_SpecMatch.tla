----------------------------- MODULE MC_SpecMatch -----------------------------
(***************************************************************************)
(* Instance of SpecMatch for TLC: all files with up to two specs and three *)
(* patterns, each one of twelve.  A pattern whose exit code or GPU state   *)
(* does not hold is tried with both of its expressions found, and without. *)
(***************************************************************************)
EXTENDS SpecMatch

Tried == {pat \in Patterns :
            \/ pat.exit /\ pat.gpu
            \/ pat.exit # pat.gpu /\ pat.plat = "hit" /\ pat.user = "hit"
            \/ pat.exit /\ pat.plat = "none" /\ pat.user = "none"}
MCSpecFiles ==
    LET Lists == {<<>>} \cup {<<a>> : a \in Tried} \cup {<<a, b>> : a, b \in Tried}
    IN  {<<>>} \cup {<<l>> : l \in Lists}
        \cup {<<l, m>> : l, m \in {k \in Lists : Len(k) <= 1}}
        \cup {<<l, <<a>>>> : l \in Lists, a \in Tried}
=============================================================================
