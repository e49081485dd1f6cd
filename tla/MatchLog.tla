------------------------------- MODULE MatchLog -------------------------------
(***************************************************************************)
(* The part of a log that exithandler puts into its report: the lines      *)
(* around what the pattern matched, or the last lines of the log           *)
(* (extractMatchLog, mergeLogs and extractNlinesTailLog of                 *)
(* src/go/pkg/aggregator/error_aggregator.go).                             *)
(*                                                                         *)
(* A log is a sequence of characters; all that matters of one is whether   *)
(* it is a line feed "n", a carriage return "r", or another, "x" or "y".   *)
(* The location of a match is a pair of offsets as in Go: it covers the    *)
(* characters lo + 1 .. hi.  An index out of range is a panic.             *)
(***************************************************************************)
EXTENDS Integers, Sequences, SequencesExt

CONSTANTS
    Char,       \* the characters
    Contents,   \* the logs considered
    MaxSize,    \* maxAggregateLogSize: characters kept on each side
    MaxLines    \* maxUserLogLines or maxRuntimeLogLines

ASSUME SizesAssumption == MaxLines \in Nat \ {0} /\ MaxSize \in Nat
ASSUME ContentsAssumption == {"n", "r"} \subseteq Char /\ Contents \subseteq Seq(Char)

VARIABLES
    content,  \* the log, one of Contents
    lo, hi,   \* what the pattern matched, offsets; lo = -1: loc is nil
    result    \* what is extracted: the lines, or a panic

vars == <<content, lo, hi, result>>

Pending == [panic |-> FALSE, lines |-> <<>>]
Panic   == [panic |-> TRUE, lines |-> <<>>]
Extracted(lines) == [panic |-> FALSE, lines |-> lines]

Least(a, b) == IF a <= b THEN a ELSE b
Most(a, b) == IF a >= b THEN a ELSE b

\* strings.ReplaceAll(s, "\r\n", "\n").
UnixStep(t, c) ==
    IF c = "n" /\ t # <<>> /\ Last(t) = "r" THEN Append(Front(t), c) ELSE Append(t, c)
Unix(s) == FoldLeft(UnixStep, <<>>, s)

\* strings.Index: the first offset at which sub is in s, -1 if it is not.
Index(s, sub) ==
    LET at == {i \in 0..(Len(s) - Len(sub)) : SubSeq(s, i + 1, i + Len(sub)) = sub}
    IN  IF at = {} THEN -1 ELSE CHOOSE i \in at : \A j \in at : i <= j

\* strings.Split(s, "\n").
LineStep(t, c) ==
    IF c = "n" THEN Append(t, <<>>) ELSE Append(Front(t), Append(Last(t), c))
Lines(s) == FoldLeft(LineStep, << <<>> >>, s)

LastN(lines, n) == SubSeq(lines, Most(Len(lines) - n, 0) + 1, Len(lines))

\* extractNlinesTailLog, lines 238-250.
TailLog(s) ==
    LastN(Lines(Unix(SubSeq(s, Most(Len(s) - MaxSize, 0) + 1, Len(s)))), MaxLines)

\* A mutant of MergeLogs: what follows the match on its line is a line.
MergeLogsApart(lhs, rhs, match, s, at, len) ==
    Extracted(IF at > 0 /\ s[at] # "n"
                THEN Front(lhs) \o <<Last(lhs) \o Head(match)>> \o Tail(match) \o rhs
                ELSE lhs \o match \o rhs)

\* mergeLogs, lines 217-236: the lines before, of and after the match.  What
\* is on one line in the log is joined.
MergeLogs(lhs, rhs, match, s, at, len) ==
    LET joinLeft  == at > 0 /\ s[at] # "n"
        joinRight == at + len < Len(s) /\ s[at + len + 1] # "n"
        left == IF joinLeft
                  THEN Front(lhs) \o <<Last(lhs) \o Head(match)>> \o Tail(match)
                  ELSE lhs \o match
    IN  CASE joinRight /\ rhs = <<>> -> Panic
          [] joinRight /\ rhs # <<>> ->
               Extracted(Front(left) \o <<Last(left) \o Head(rhs)>> \o Tail(rhs))
          [] OTHER -> Extracted(left \o rhs)

\* A mutant of MatchLog: the last lines dropped instead of the first ones, and
\* all the lines after the match kept.
MatchLogCutEnd(s, from, to) ==
    LET cur   == Unix(SubSeq(s, Most(from - MaxSize, 0) + 1, Least(to + MaxSize, Len(s))))
        match == SubSeq(s, from + 1, to)
        at    == Index(cur, match)
    IN  IF at = -1 THEN Panic
        ELSE LET left  == Lines(SubSeq(cur, 1, at))
                 right == Lines(SubSeq(cur, at + Len(match) + 1, Len(cur)))
                 r == MergeLogs(LastN(left, 3), right, Lines(match), cur, at, Len(match))
             IN  [r EXCEPT !.lines = SubSeq(@, 1, Least(Len(@), MaxLines))]

\* A mutant of MatchLog: a line less of room is left, also after a short match.
MatchLogNoRoom(s, from, to) ==
    LET cur   == Unix(SubSeq(s, Most(from - MaxSize, 0) + 1, Least(to + MaxSize, Len(s))))
        match == SubSeq(s, from + 1, to)
        at    == Index(cur, match)
        mine  == Lines(match)
        right == Lines(SubSeq(cur, at + Len(match) + 1, Len(cur)))
        lhs   == LastN(Lines(SubSeq(cur, 1, at)), 3)
        room  == Most(MaxLines - Len(lhs) - Len(mine) - 1, 0)
    IN  IF at = -1 THEN Panic
        ELSE MergeLogs(lhs, SubSeq(right, 1, Least(room, Len(right))), mine,
                       cur, at, Len(match))

\* extractMatchLog, lines 259-311: two lines before the match and as many after
\* it as there is room for, more before it if there are few after it.
MatchLog(s, from, to) ==
    LET cur   == Unix(SubSeq(s, Most(from - MaxSize, 0) + 1, Least(to + MaxSize, Len(s))))
        match == SubSeq(s, from + 1, to)
        at    == Index(cur, match)
        mine  == Lines(match)
        left  == Lines(SubSeq(cur, 1, at))
        right == Lines(SubSeq(cur, at + Len(match) + 1, Len(cur)))
        after == Len(right) + Len(mine)
        before == IF after < MaxLines - 3 THEN MaxLines - after ELSE 3
        lhs   == LastN(left, before)
        room  == Most(MaxLines - Len(lhs) - Len(mine), 0)
        r     == MergeLogs(lhs, SubSeq(right, 1, Least(room, Len(right))), mine,
                           cur, at, Len(match))
    IN  CASE at = -1 -> Panic
          [] at # -1 /\ Len(mine) >= MaxLines -> Extracted(LastN(mine, MaxLines))
          [] OTHER -> [r EXCEPT !.lines = LastN(@, MaxLines)]

Init ==
    /\ content \in Contents
    /\ \/ lo = -1 /\ hi = -1
       \/ lo \in 0..Len(content) /\ hi \in lo..Len(content)
    /\ result = Pending

\* Lines 252-257, 365-373.
Extract ==
    /\ result = Pending
    /\ result' = IF lo = -1 THEN Extracted(TailLog(content))
                            ELSE MatchLog(content, lo, hi)
    /\ UNCHANGED <<content, lo, hi>>

Next == Extract
Spec == Init /\ [][Next]_vars

-----------------------------------------------------------------------------
Shown == result # Pending /\ ~ result.panic

\* The text of these lines.
JoinStep(t, line) == t \o <<"n">> \o line
Join(lines) == Tail(FoldLeft(JoinStep, <<>>, lines))

\* The lines that are not empty.
TextStep(t, line) == IF line = <<>> THEN t ELSE Append(t, line)
Text(lines) == FoldLeft(TextStep, <<>>, lines)

\* The report is bounded, and yet the match is in it: the whole of it, or its
\* last lines when it has too many itself (extractMatchLog, lines 283-310).
MatchIsShown ==
    Shown /\ lo # -1 =>
        LET match == SubSeq(content, lo + 1, hi)
            mine  == Lines(match)
        IN  /\ Len(result.lines) <= MaxLines
            /\ IF Len(mine) < MaxLines
                 THEN Index(Join(result.lines), match) # -1
                 ELSE result.lines = LastN(mine, MaxLines)

\* What is reported is a piece of the log: whole lines, none left out between
\* them, up to empty lines, which mergeLogs may add (lines 217-236).
ReportIsContiguous ==
    LET all == Text(Lines(Unix(SubSeq(content, Most(lo - MaxSize, 0) + 1,
                                      Least(hi + MaxSize, Len(content))))))
    IN  Shown =>
          /\ \A i \in DOMAIN result.lines : "n" \notin ToSet(result.lines[i])
          /\ lo # -1 /\ Len(Lines(SubSeq(content, lo + 1, hi))) < MaxLines
               => Text(result.lines) \in SubSeqs(all)

\* Nothing is extracted after an index out of range, and no report is written
\* (main.go:43-49).  That takes a match with a carriage return, which is looked
\* for where it was removed (line 278), or one of so many lines that there is
\* no room for the rest of its last one (line 230).
PanicNeedsLongOrCR ==
    result.panic =>
        LET match == SubSeq(content, lo + 1, hi)
        IN  "r" \in ToSet(match) \/ Len(Lines(match)) >= MaxLines - 3
=============================================================================
