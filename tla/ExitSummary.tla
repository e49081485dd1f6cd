----------------------------- MODULE ExitSummary -----------------------------
(***************************************************************************)
(* How exithandler makes its report fit into the termination message of    *)
(* the pod: truncateExitSummary, truncateLog, getMinimalExitSummary and    *)
(* recalculateRemainTruncateSize of                                        *)
(* src/go/pkg/aggregator/error_aggregator.go.                              *)
(*                                                                         *)
(* The report has four pieces of text next to the exit codes: what was     *)
(* extracted of the platform's log and of the user's log, and what the     *)
(* pattern matched in each.  A piece is an interval of offsets of the text *)
(* it was at first.  The report is written as YAML, where a piece takes at *)
(* least its length, and more for its key, for indentation and for the     *)
(* style that its characters call for: plain, a block, quotes with         *)
(* escapes.  A cut can change the style of the whole piece: cut within a   *)
(* rune it is no UTF-8 any more, and yaml.v2 writes it in base64.          *)
(***************************************************************************)
EXTENDS Integers

CONSTANTS
    Limit,    \* what Kubernetes takes as a termination message
    Tags,     \* what the tags before and after the report take
    Base,     \* what the report takes without the pieces
    Key,      \* what the key, quotes and marks of a piece take at most
    Factor,   \* what a byte of a piece takes at most
    MaxLen    \* bound of the length of a piece

ASSUME SizeAssumption ==
    /\ Limit \in Nat /\ Tags \in Nat /\ Base \in Nat /\ Key \in Nat
    /\ Factor \in Nat \ {0} /\ MaxLen \in Nat
    /\ Base + Tags <= Limit

Logs == {"platLog", "userLog"}              \* ErrorLogs.Platform and .User
Matches == {"platMatch", "userMatch"}       \* MatchedPlatformLogString, ...
Pieces == Logs \cup Matches
MatchOf(log) == IF log = "platLog" THEN "platMatch" ELSE "userMatch"

VARIABLES
    here,     \* the pieces that are not nil
    lo, hi,   \* what is left of each piece
    cost,     \* what each piece takes in YAML
    grown,    \* the pieces whose cut freed less YAML than it took of the text
    whole,    \* the length of each piece at first
    at,       \* strings.Index: where the match is in each log, -1 if nowhere
    remain,   \* remainTruncateSize
    pc        \* the next piece to cut, or how the function ended

vars == <<here, lo, hi, cost, grown, whole, at, remain, pc>>

Target == Limit - Tags      \* maxAggregateLogSize
LineFeeds == 2              \* DumpExitSummary joins the tags and the report
Costs(n) == n..(Factor * n + Key)

Length(f) == IF f \in here THEN hi[f] - lo[f] ELSE 0
Size == Base + cost["platLog"] + cost["userLog"] + cost["platMatch"] + cost["userMatch"]
FileSize == Tags + LineFeeds + Size

TypeOK ==
    /\ here \in SUBSET Pieces
    /\ lo \in [Pieces -> Nat] /\ hi \in [Pieces -> Nat] /\ cost \in [Pieces -> Nat]
    /\ whole \in [Pieces -> Nat] /\ grown \in SUBSET Pieces
    /\ at \in [Logs -> Nat \cup {-1}]
    /\ remain \in Int
    /\ pc \in {"platLog", "userLog", "platMatch"} => remain > 0
    /\ pc \in {"marshal", "written", "minimal", "panic"} \cup Pieces

\* What GenerateExitInfo leaves (lines 163-184): both logs, and the matches of
\* the patterns that have an expression.  A match can be missing in the log,
\* and a log that was not matched may have any content.
Init ==
    /\ here \in {Logs \cup m : m \in SUBSET Matches}
    /\ whole \in [Pieces -> 0..MaxLen]
    /\ \A f \in Pieces \ here : whole[f] = 0
    /\ lo = [f \in Pieces |-> 0] /\ hi = whole
    /\ cost \in [Pieces -> 0..(Factor * MaxLen + Key)] /\ grown = {}
    /\ \A f \in Pieces : cost[f] \in IF f \in here THEN Costs(whole[f]) ELSE {0}
    /\ at \in [Logs -> -1..MaxLen]
    /\ \A f \in Logs : at[f] # -1 => /\ MatchOf(f) \in here
                                     /\ at[f] + whole[MatchOf(f)] <= whole[f]
    /\ remain = 0 /\ pc = "marshal"

\* Piece f is cut to the offsets from..to.
Keep(f, from, to) ==
    /\ lo' = [lo EXCEPT ![f] = from] /\ hi' = [hi EXCEPT ![f] = to]
    /\ \E c \in IF to - from = Length(f) THEN {cost[f]} ELSE Costs(to - from) :
         /\ cost' = [cost EXCEPT ![f] = c]
         /\ grown' = IF cost[f] - c < Length(f) - (to - from) THEN grown \cup {f} ELSE grown
    /\ UNCHANGED here

Drop(f) ==
    /\ here' = here \ {f} /\ cost' = [cost EXCEPT ![f] = 0]
    /\ UNCHANGED <<lo, hi, grown>>

\* A mutant of Truncate: always from the front.
TruncateFront(f, k) ==
    IF hi[f] <= k THEN Drop(f) ELSE Keep(f, k, hi[f])

\* truncateLog, lines 409-432: from the front up to the match, and then from
\* the end.
Truncate(f, k) ==
    IF hi[f] <= k THEN Drop(f)
    ELSE LET from == IF at[f] = -1 \/ at[f] > k THEN k ELSE at[f]
         IN  Keep(f, from, from + hi[f] - k)

\* A mutant of Marshal: a report that fits is cut all the same.
MarshalAlways ==
    /\ pc = "marshal"
    /\ remain' = Size - Target /\ pc' = "platLog"
    /\ UNCHANGED <<here, lo, hi, cost, grown, whole, at>>

\* Lines 452-462.
Marshal ==
    /\ pc = "marshal"
    /\ remain' = Size - Target
    /\ pc' = IF Size <= Target THEN "written" ELSE "platLog"
    /\ UNCHANGED <<here, lo, hi, cost, grown, whole, at>>

\* A mutant of CutLog: the report is measured before the cut.
CutLogMeasuredBefore(f, next) ==
    /\ pc = f
    /\ Truncate(f, remain)
    /\ remain' = Size - Target
    /\ pc' = IF remain' <= 0 THEN "written" ELSE next
    /\ UNCHANGED <<whole, at>>

\* Lines 466-474 and 477-484, with recalculateRemainTruncateSize (442-448).
CutLog(f, next) ==
    /\ pc = f
    /\ Truncate(f, remain)
    /\ remain' = Size' - Target
    /\ pc' = IF remain' <= 0 THEN "written" ELSE next
    /\ UNCHANGED <<whole, at>>

CutPlatLog == CutLog("platLog", "userLog")
CutUserLog == CutLog("userLog", "platMatch")

\* A mutant of CutPlatMatch: the report is written after the match is dropped.
CutPlatMatchAndWrite ==
    /\ pc = "platMatch"
    /\ IF "platMatch" \notin here
         THEN pc' = "userMatch" /\ UNCHANGED <<here, lo, hi, cost, grown>>
         ELSE /\ pc' = "written"
              /\ IF hi["platMatch"] >= remain
                   THEN Keep("platMatch", 0, hi["platMatch"] - remain)
                   ELSE Drop("platMatch")
    /\ UNCHANGED <<whole, at, remain>>

\* Lines 487-498.
CutPlatMatch ==
    /\ pc = "platMatch"
    /\ \/ /\ "platMatch" \notin here
          /\ pc' = "userMatch" /\ UNCHANGED <<here, lo, hi, cost, grown, remain>>
       \/ /\ "platMatch" \in here /\ hi["platMatch"] >= remain
          /\ Keep("platMatch", 0, hi["platMatch"] - remain)
          /\ pc' = "written" /\ UNCHANGED remain
       \/ /\ "platMatch" \in here /\ hi["platMatch"] < remain
          /\ Drop("platMatch")
          /\ remain' = Size' - Target /\ pc' = "userMatch"
    /\ UNCHANGED <<whole, at>>

\* Lines 500-509: remain may be negative here, and the slice out of range.
CutUserMatch ==
    /\ pc = "userMatch"
    /\ \/ /\ "userMatch" \in here /\ remain < 0
          /\ pc' = "panic" /\ UNCHANGED <<here, lo, hi, cost, grown>>
       \/ /\ "userMatch" \in here /\ remain \in 0..hi["userMatch"]
          /\ Keep("userMatch", 0, hi["userMatch"] - remain)
          /\ pc' = "written"
       \/ /\ "userMatch" \notin here \/ remain > hi["userMatch"]
          /\ here' = {} /\ cost' = [f \in Pieces |-> 0]
          /\ pc' = "minimal" /\ UNCHANGED <<lo, hi, grown>>
    /\ UNCHANGED <<whole, at, remain>>

Next == Marshal \/ CutPlatLog \/ CutUserLog \/ CutPlatMatch \/ CutUserMatch

Spec == Init /\ [][Next]_vars

-----------------------------------------------------------------------------
\* The termination message fits, up to the line feeds that the limit does not
\* count (lines 200 and 557), unless a cut of a match, after which nothing is
\* measured any more (lines 492 and 504), freed less than it took.  A log that
\* does so is made up for by the later pieces.
SummaryFits ==
    pc \in {"written", "minimal"} =>
        FileSize <= Limit + LineFeeds \/ Matches \cap here \cap grown # {}

Lost(f) == whole[f] - Length(f)

\* The platform's log goes first, then the user's, then the platform's match
\* and the user's match last (lines 464-506): as long as something is left of a
\* piece, the later ones are whole.  Only a log whose cut freed less than it
\* took can be there still when a later piece is cut.
LossOrder ==
    /\ "platLog" \in here \ grown => \A f \in {"userLog"} \cup Matches : Lost(f) = 0
    /\ "userLog" \in here \ grown => \A f \in Matches : Lost(f) = 0
    /\ "platMatch" \in here => Lost("userMatch") = 0

\* A log that was cut shows all of the match that it has room for
\* (truncateLog, lines 421-429).
MatchIsKept ==
    \A f \in Logs \cap here :
        at[f] # -1 =>
            LET end == at[f] + whole[MatchOf(f)] IN
            /\ lo[f] <= at[f]
            /\ end <= hi[f] \/ lo[f] = at[f]

-----------------------------------------------------------------------------
\* "This function will extract error summary to the specific file and print
\* the exit code" (src/go/cmd/exithandler/main.go:42).
SummaryIsWritten == pc # "panic"
=============================================================================
