----------------------------- MODULE MC_MatchLog -----------------------------
(* Instance of MatchLog for TLC: all logs up to a length. *)
EXTENDS MatchLog

CONSTANT MaxLen

MCContents == UNION {[1..n -> Char] : n \in 0..5}
              \cup UNION {[1..n -> {"x", "n"}] : n \in 6..MaxLen}
=============================================================================
