----------------------- MODULE ErrorAggregator_proofs -----------------------
(***************************************************************************)
(* Proofs about the exit handler's error aggregator, for any spec file and *)
(* any sizes of the report.  The search for the reason of a failure        *)
(* (SpecMatch): the first match decides, and the report shows what it      *)
(* matched.  The invariant is what the loops have established: all that    *)
(* precedes the pattern looked at was tried in vain, and the locations stem *)
(* from this spec.  The cutting of the report (ExitSummary): it fits, the  *)
(* pieces are given up in order, and the matches stay in the logs.  The    *)
(* invariant says of every step what is still uncut, and that what is still *)
(* too much is no more than the quotes unless the pieces before are gone.  *)
(***************************************************************************)
EXTENDS SpecMatch, ExitSummary, TLAPS

\* No spec before this one and no pattern of it before this one matches; where
\* the search ends.
Tried ==
    /\ \A i \in 1..(s - 1) : ~ SpecMatches(i)
    /\ s <= Len(specs) => \A j \in 1..(p - 1) : ~ Holds(specs[s][j])
    /\ found = "match" => s <= Len(specs) /\ p <= Len(specs[s]) /\ Holds(specs[s][p])
    /\ found = "none" => s > Len(specs)

\* A location is of a pattern of this spec whose expression was found; while
\* the search goes on, of one before the pattern looked at.
Located ==
    /\ plat # 0 => /\ s <= Len(specs) /\ plat \in 1..Len(specs[s])
                   /\ specs[s][plat].plat = "hit"
                   /\ found = "searching" => plat < p
    /\ user # 0 => /\ s <= Len(specs) /\ user \in 1..Len(specs[s])
                   /\ specs[s][user].user = "hit"
                   /\ found = "searching" => user < p

\* The matching pattern's own expressions were the last ones found.
Own ==
    found = "match" => /\ specs[s][p].plat = "hit" => plat = p
                       /\ specs[s][p].user = "hit" => user = p

SInv == SearchTypeOK /\ Tried /\ Located /\ Own

LEMMA InitSInv == SearchInit => SInv
  BY SpecFilesAssumption
  DEF SearchInit, SInv, SearchTypeOK, Tried, Located, Own

\* Looking at an expression leaves a location of a pattern tried so far.
LEMMA LookFacts ==
  ASSUME NEW hit \in Hits, NEW loc \in Nat
  PROVE  /\ hit = "hit" => Look(hit, loc) = p
         /\ hit = "none" => Look(hit, loc) = loc
         /\ hit = "miss" => Look(hit, loc) = 0
  BY DEF Look, Hits

LEMMA PatternTyped ==
  ASSUME SearchTypeOK, s <= Len(specs), p <= Len(specs[s])
  PROVE  /\ specs[s] \in Seq(Patterns) /\ specs[s][p] \in Patterns
         /\ specs[s][p].plat \in Hits /\ specs[s][p].user \in Hits
  <1>1. specs[s] \in Seq(Patterns)
    BY DEF SearchTypeOK
  <1>2. specs[s][p] \in Patterns
    BY <1>1 DEF SearchTypeOK
  <1> QED
    BY <1>1, <1>2 DEF Patterns

\* One pattern tried.
LEMMA TryPatternInv ==
  ASSUME SInv, TryPattern
  PROVE  SInv'
  <1> DEFINE pat == specs[s][p]
  <1>1. /\ found = "searching" /\ s <= Len(specs) /\ p <= Len(specs[s])
        /\ SearchTypeOK /\ specs' = specs /\ s' = s
    BY DEF SInv, TryPattern
  <1>2. /\ pat \in Patterns /\ pat.plat \in Hits /\ pat.user \in Hits
        /\ specs[s] \in Seq(Patterns) /\ Len(specs[s]) \in Nat /\ Len(specs) \in Nat
        /\ p \in Nat \ {0} /\ plat \in Nat /\ user \in Nat /\ s \in Nat
    BY <1>1, PatternTyped DEF SearchTypeOK
  <1>3. plat' = plat \/ plat' = 0 \/ (plat' = p /\ pat.plat = "hit")
    BY <1>2, LookFacts DEF TryPattern, Hits
  <1>4. user' = user \/ user' = 0 \/ (user' = p /\ pat.user = "hit")
    BY <1>2, LookFacts DEF TryPattern, Hits
  <1>5. \/ Holds(pat) /\ found' = "match" /\ p' = p
        \/ ~ Holds(pat) /\ found' = "searching" /\ p' = p + 1
    BY <1>1 DEF TryPattern
  <1>6. SearchTypeOK'
    BY <1>1, <1>2, <1>3, <1>4, <1>5, SMTT(40) DEF SearchTypeOK
  <1>7. Tried'
    <2>1. \A j \in 1..(p - 1) : ~ Holds(specs[s][j])
      BY <1>1 DEF SInv, Tried
    <2>2. \A i \in 1..(s - 1) : ~ SpecMatches(i)'
      BY <1>1 DEF SInv, Tried, SpecMatches
    <2>3. \A j \in 1..(p' - 1) : ~ Holds(specs[s][j])
      BY <2>1, <1>2, <1>5
    <2> QED
      BY <2>2, <2>3, <1>1, <1>2, <1>5 DEF Tried, Holds
  <1>8. Located'
    BY <1>1, <1>2, <1>3, <1>4, <1>5 DEF SInv, Located
  <1>9. Own'
    <2> SUFFICES ASSUME found' = "match"
                 PROVE  /\ pat.plat = "hit" => plat' = p
                        /\ pat.user = "hit" => user' = p
      BY <1>1, <1>5 DEF Own
    <2>1. Holds(pat)
      BY <1>5
    <2> QED
      BY <2>1, <1>2, LookFacts DEF TryPattern, Holds
  <1> QED
    BY <1>6, <1>7, <1>8, <1>9 DEF SInv

\* The next spec: none of this one's patterns matches.
LEMMA NextSpecInv ==
  ASSUME SInv, NextSpec
  PROVE  SInv'
  <1>1. /\ found = "searching" /\ s <= Len(specs) /\ p > Len(specs[s])
        /\ SearchTypeOK /\ specs' = specs /\ s' = s + 1 /\ p' = 1
        /\ plat' = 0 /\ user' = 0 /\ found' = found
    BY DEF SInv, NextSpec
  <1>2. Len(specs) \in Nat /\ s \in Nat \ {0} /\ p \in Nat \ {0} /\ specs \in Seq(Seq(Patterns))
    BY <1>1 DEF SearchTypeOK
  <1>3. specs[s] \in Seq(Patterns) /\ DOMAIN specs[s] = 1..Len(specs[s]) /\ Len(specs[s]) \in Nat
    BY <1>1, <1>2
  <1>4. ~ SpecMatches(s)
    BY <1>1, <1>2, <1>3, SMTT(40) DEF SInv, Tried, SpecMatches
  <1>5. \A i \in 1..(s' - 1) : ~ SpecMatches(i)'
    <2>1. \A i \in 1..(s' - 1) : i \in 1..(s - 1) \/ i = s
      BY <1>1, <1>2
    <2>2. \A i : SpecMatches(i)' <=> SpecMatches(i)
      BY <1>1 DEF SpecMatches
    <2> QED
      BY <2>1, <2>2, <1>4 DEF SInv, Tried
  <1>6. SearchTypeOK'
    <2>1. s + 1 <= Len(specs) => Len(specs[s + 1]) \in Nat
      BY <1>2
    <2> QED
      BY <2>1, <1>1, <1>2 DEF SearchTypeOK
  <1> QED
    BY <1>1, <1>2, <1>5, <1>6 DEF SInv, Tried, Located, Own

LEMMA GiveUpInv ==
  ASSUME SInv, GiveUp
  PROVE  SInv'
  <1>1. \A i : SpecMatches(i)' <=> SpecMatches(i)
    BY DEF GiveUp, SpecMatches
  <1> QED
    BY <1>1 DEF SInv, GiveUp, SearchTypeOK, Tried, Located, Own

LEMMA SInvariant == SearchSpec => []SInv
  <1>1. SInv /\ [SearchNext]_searchVars => SInv'
    <2> SUFFICES ASSUME SInv, [SearchNext]_searchVars PROVE SInv'
      OBVIOUS
    <2>1. CASE TryPattern
      BY <2>1, TryPatternInv
    <2>2. CASE NextSpec
      BY <2>2, NextSpecInv
    <2>3. CASE GiveUp
      BY <2>3, GiveUpInv
    <2>4. CASE UNCHANGED searchVars
      <3>1. \A i : SpecMatches(i)' <=> SpecMatches(i)
        BY <2>4 DEF searchVars, SpecMatches
      <3> QED
        BY <2>4, <3>1 DEF searchVars, SInv, SearchTypeOK, Tried, Located, Own
    <2> QED
      BY <2>1, <2>2, <2>3, <2>4 DEF SearchNext
  <1> QED
    BY InitSInv, <1>1, PTL DEF SearchSpec

\* The loops stay within the spec file (GenerateExitInfo, matchSpecPatten).
THEOREM SearchTypes == SearchSpec => []SearchTypeOK
  BY SInvariant, PTL DEF SInv

\* For every spec file, the exit code reported is that of the first spec with
\* a matching pattern, and the default only if there is none.
THEOREM FirstMatch == SearchSpec => []FirstMatchDecides
  <1>1. SInv => FirstMatchDecides
    <2> SUFFICES ASSUME SInv PROVE FirstMatchDecides
      OBVIOUS
    <2>1. specs \in Seq(Seq(Patterns)) /\ Len(specs) \in Nat /\ s \in Nat \ {0} /\ p \in Nat \ {0}
      BY DEF SInv, SearchTypeOK
    <2>2. found = "match" => SpecMatches(s)
      BY <2>1 DEF SInv, Tried, SpecMatches
    <2>3. found = "none" => \A i \in DOMAIN specs : i \in 1..(s - 1)
      BY <2>1 DEF SInv, Tried
    <2> QED
      BY <2>1, <2>2, <2>3 DEF SInv, Tried, FirstMatchDecides
  <1> QED
    BY SInvariant, <1>1, PTL

\* For every spec file, what is reported as matched was found by the matching
\* pattern, or else by one of the same spec tried before it.
THEOREM OwnMatch == SearchSpec => []ReportsOwnMatch
  <1>1. SInv => ReportsOwnMatch
    BY DEF SInv, SearchTypeOK, Tried, Located, Own, ReportsOwnMatch
  <1> QED
    BY SInvariant, <1>1, PTL

-----------------------------------------------------------------------------
\* The cutting of the report.

\* A piece that was not cut yet; one that is nil was so from the beginning.
Intact(f) == lo[f] = 0 /\ hi[f] = whole[f] /\ (f \notin here => whole[f] = 0)

\* A piece takes at least its length, and is a part of what it was.
Sizes ==
    \A f \in Pieces :
        /\ f \notin here => cost[f] = 0
        /\ lo[f] <= hi[f] /\ hi[f] <= whole[f]
        /\ f \in here => cost[f] >= hi[f] - lo[f]

MatchesInside ==
    \A f \in Logs : at[f] # -1 => at[f] + whole[MatchOf(f)] <= whole[f]

\* What is not cut yet at each step.
Ahead ==
    /\ pc \in {"marshal", "platLog"} => Intact("platLog")
    /\ pc \in {"marshal", "platLog", "userLog"} => Intact("userLog")
    /\ pc \in {"marshal", "platLog", "userLog", "platMatch"} => Intact("platMatch")
    /\ pc \in {"marshal", "platLog", "userLog", "platMatch", "userMatch"} => Intact("userMatch")

\* What is too much; and a log that is still there at a later step has freed
\* less than was taken of it.
Excess ==
    /\ pc \in Pieces => remain = Size - Target
    /\ pc \in {"userLog", "platMatch", "userMatch"} => "platLog" \notin here \ grown
    /\ pc \in {"platMatch", "userMatch"} => "userLog" \notin here \ grown
    /\ pc = "userMatch" => "platMatch" \notin here

EInv ==
    /\ TypeOK /\ Sizes /\ MatchesInside /\ Ahead /\ Excess
    /\ SummaryFits /\ LossOrder /\ MatchIsKept

\* A piece takes at least its length.
LEMMA CostFacts ==
  ASSUME NEW n \in Nat, NEW c \in Costs(n)
  PROVE  c \in Nat /\ c >= n
  <1>1. Factor * n + Key \in Nat
    BY SizeAssumption
  <1> QED
    BY <1>1 DEF Costs

LEMMA InitEInv == Init => EInv
  <1> SUFFICES ASSUME Init PROVE EInv
    OBVIOUS
  <1>1. TypeOK
    <2>1. 0..MaxLen \subseteq Nat /\ -1..MaxLen \subseteq Nat \cup {-1}
      BY SizeAssumption
    <2>a. 0..(Factor * MaxLen + Key) \subseteq Nat
      OBVIOUS
    <2>2. /\ whole \in [Pieces -> Nat] /\ cost \in [Pieces -> Nat]
          /\ at \in [Logs -> Nat \cup {-1}] /\ grown \in SUBSET Pieces
      BY <2>1, <2>a DEF Init
    <2>3. lo \in [Pieces -> Nat] /\ hi \in [Pieces -> Nat]
      BY <2>2 DEF Init
    <2>4. here \in SUBSET Pieces
      BY DEF Init, Pieces
    <2> QED
      BY <2>2, <2>3, <2>4 DEF Init, TypeOK
  <1>2. Sizes
    <2> SUFFICES ASSUME NEW f \in Pieces
                 PROVE  /\ f \notin here => cost[f] = 0
                        /\ lo[f] <= hi[f] /\ hi[f] <= whole[f]
                        /\ f \in here => cost[f] >= hi[f] - lo[f]
      BY DEF Sizes
    <2>1. /\ lo[f] = 0 /\ hi[f] = whole[f] /\ whole[f] \in Nat
          /\ cost[f] \in IF f \in here THEN Costs(whole[f]) ELSE {0}
      BY SizeAssumption DEF Init
    <2> QED
      BY <2>1, CostFacts
  <1>3. MatchesInside
    BY DEF Init, MatchesInside
  <1>4. Ahead /\ Excess /\ SummaryFits
    BY DEF Init, Ahead, Excess, SummaryFits, Intact, Pieces, Logs, Matches
  <1>5. LossOrder
    <2>1. \A f \in Pieces : Lost(f) = 0
      BY SizeAssumption DEF Init, Lost, Length
    <2> QED
      BY <2>1, SizeAssumption DEF LossOrder, Pieces, Logs, Matches
  <1>6. MatchIsKept
    BY SizeAssumption DEF Init, MatchIsKept, Logs, Matches, Pieces, MatchOf
  <1> QED
    BY <1>1, <1>2, <1>3, <1>4, <1>5, <1>6 DEF EInv

\* What Keep and Drop do to the pieces.
LEMMA KeepFacts ==
  ASSUME TypeOK, Sizes, NEW f \in here, NEW from \in Nat, NEW to \in Nat,
         from <= to, to <= whole[f], Keep(f, from, to)
  PROVE  /\ here' = here
         /\ \A g \in Pieces \ {f} : lo'[g] = lo[g] /\ hi'[g] = hi[g] /\ cost'[g] = cost[g]
         /\ lo'[f] = from /\ hi'[f] = to
         /\ cost'[f] >= to - from
         /\ f \notin grown' => cost'[f] <= cost[f] - ((hi[f] - lo[f]) - (to - from))
         /\ grown' \in SUBSET Pieces
         /\ \A g \in Pieces \ {f} : g \in grown' <=> g \in grown
         /\ lo' \in [Pieces -> Nat] /\ hi' \in [Pieces -> Nat] /\ cost' \in [Pieces -> Nat]
  <1>1. PICK c \in IF to - from = Length(f) THEN {cost[f]} ELSE Costs(to - from) :
          /\ cost' = [cost EXCEPT ![f] = c]
          /\ grown' = IF cost[f] - c < Length(f) - (to - from) THEN grown \cup {f} ELSE grown
    BY DEF Keep
  <1>2. f \in Pieces /\ Length(f) = hi[f] - lo[f] /\ cost[f] \in Nat /\ to - from \in Nat
        /\ hi[f] \in Nat /\ lo[f] \in Nat
    BY DEF TypeOK, Length
  <1>3. c \in Nat /\ c >= to - from
    <2>1. cost[f] >= hi[f] - lo[f]
      BY DEF Sizes, TypeOK
    <2> QED
      BY <1>1, <1>2, <2>1, CostFacts
  <1>4. cost'[f] = c /\ cost' \in [Pieces -> Nat] /\ \A g \in Pieces \ {f} : cost'[g] = cost[g]
    BY <1>1, <1>2, <1>3 DEF TypeOK
  <1>5. f \notin grown' => c <= cost[f] - ((hi[f] - lo[f]) - (to - from))
    BY <1>1, <1>2, <1>3
  <1>6. grown' \in SUBSET Pieces /\ \A g \in Pieces \ {f} : g \in grown' <=> g \in grown
    BY <1>1, <1>2 DEF TypeOK
  <1> QED
    BY <1>2, <1>3, <1>4, <1>5, <1>6 DEF Keep, TypeOK

LEMMA DropFacts ==
  ASSUME TypeOK, Sizes, NEW f \in Pieces, Drop(f)
  PROVE  /\ here' = here \ {f} /\ lo' = lo /\ hi' = hi
         /\ \A g \in Pieces \ {f} : cost'[g] = cost[g]
         /\ cost'[f] = 0 /\ cost' \in [Pieces -> Nat] /\ grown' = grown
  BY DEF Drop, TypeOK

\* Truncating a log: it is gone, or it is shorter and takes less, and the match
\* is kept as far as possible.
LEMMA TruncateFacts ==
  ASSUME TypeOK, Sizes, MatchesInside, NEW f \in Logs, Intact(f),
         NEW k \in Nat, Truncate(f, k)
  PROVE  /\ \A g \in Pieces \ {f} : lo'[g] = lo[g] /\ hi'[g] = hi[g] /\ cost'[g] = cost[g]
                 /\ (g \in here' <=> g \in here) /\ (g \in grown' <=> g \in grown)
         /\ here' \subseteq here /\ grown' \in SUBSET Pieces
         /\ lo' \in [Pieces -> Nat] /\ hi' \in [Pieces -> Nat] /\ cost' \in [Pieces -> Nat]
         /\ lo'[f] <= hi'[f] /\ hi'[f] <= whole[f]
         /\ \/ f \notin here' /\ cost'[f] = 0
            \/ /\ f \in here'
               /\ cost'[f] >= hi'[f] - lo'[f]
               /\ f \notin grown' => cost'[f] <= cost[f] - k
               /\ at[f] # -1 => lo'[f] <= at[f] /\ (at[f] + whole[MatchOf(f)] <= hi'[f] \/ lo'[f] = at[f])
  <1> DEFINE from == IF at[f] = -1 \/ at[f] > k THEN k ELSE at[f]
  <1>1. /\ f \in Pieces /\ MatchOf(f) \in Pieces
        /\ hi[f] \in Nat /\ hi[f] = whole[f] /\ whole[MatchOf(f)] \in Nat /\ at[f] \in Nat \cup {-1}
        /\ cost[f] \in Nat
    BY DEF TypeOK, Intact, Pieces, Logs, Matches, MatchOf
  <1>2. CASE hi[f] <= k
    <2>1. Drop(f)
      BY <1>2 DEF Truncate
    <2> QED
      BY <1>1, <1>2, <2>1, DropFacts DEF Sizes, TypeOK
  <1>3. CASE ~ (hi[f] <= k)
    <2>1. Keep(f, from, from + hi[f] - k)
      BY <1>3 DEF Truncate
    <2>2. f \in here
      BY <1>1, <1>3 DEF Intact
    <2>3. from \in Nat /\ from + hi[f] - k \in Nat /\ from <= from + hi[f] - k /\ from <= k
      BY <1>1, <1>3
    <2>4. from + hi[f] - k <= whole[f]
      BY <1>1, <2>3
    <2>5. /\ here' = here
          /\ \A g \in Pieces \ {f} : lo'[g] = lo[g] /\ hi'[g] = hi[g] /\ cost'[g] = cost[g]
          /\ lo'[f] = from /\ hi'[f] = from + hi[f] - k
          /\ cost'[f] >= (from + hi[f] - k) - from
          /\ f \notin grown' =>
               cost'[f] <= cost[f] - ((hi[f] - lo[f]) - ((from + hi[f] - k) - from))
          /\ grown' \in SUBSET Pieces
          /\ \A g \in Pieces \ {f} : g \in grown' <=> g \in grown
          /\ lo' \in [Pieces -> Nat] /\ hi' \in [Pieces -> Nat] /\ cost' \in [Pieces -> Nat]
      BY <2>1, <2>2, <2>3, <2>4, KeepFacts
    <2>6. at[f] # -1 => at[f] + whole[MatchOf(f)] <= whole[f]
      BY DEF MatchesInside
    <2>7. at[f] # -1 => lo'[f] <= at[f] /\ (at[f] + whole[MatchOf(f)] <= hi'[f] \/ lo'[f] = at[f])
      BY <1>1, <2>5, <2>6
    <2>8. hi'[f] - lo'[f] = whole[f] - k /\ lo'[f] <= hi'[f] /\ hi'[f] <= whole[f]
      BY <1>1, <2>3, <2>4, <2>5
    <2>9. f \notin grown' => cost'[f] <= cost[f] - k
      BY <1>1, <2>3, <2>5 DEF Intact, TypeOK
    <2>10. cost'[f] >= hi'[f] - lo'[f]
      BY <1>1, <2>3, <2>5
    <2> QED
      BY <2>2, <2>5, <2>7, <2>8, <2>9, <2>10
  <1> QED
    BY <1>2, <1>3

\* What every step leaves: the lengths at first and the place of the matches.
LEMMA MatchesStay ==
  ASSUME MatchesInside, UNCHANGED <<whole, at>>
  PROVE  MatchesInside'
  BY DEF MatchesInside

\* The four pieces, and the size of the report, in numbers.
LEMMA Numbers ==
  ASSUME TypeOK
  PROVE  /\ Size \in Nat /\ Target \in Nat /\ Base \in Nat /\ Base <= Target
         /\ Limit \in Nat /\ Tags \in Nat /\ Target = Limit - Tags
         /\ \A f \in Pieces : lo[f] \in Nat /\ hi[f] \in Nat /\ cost[f] \in Nat /\ whole[f] \in Nat
         /\ Size = Base + cost["platLog"] + cost["userLog"] + cost["platMatch"] + cost["userMatch"]
         /\ {"platLog", "userLog", "platMatch", "userMatch"} = Pieces
  BY SizeAssumption DEF TypeOK, Size, Target, Pieces, Logs, Matches

\* A report within the target fits into the file.
LEMMA FileFacts ==
  ASSUME NEW n \in Nat, n <= Target
  PROVE  Tags + LineFeeds + n <= Limit + LineFeeds
  BY SizeAssumption DEF Target, LineFeeds

LEMMA MarshalInv ==
  ASSUME EInv, Marshal
  PROVE  EInv'
  <1>1. Size \in Nat /\ Target \in Nat /\ Size' = Size
    BY Numbers DEF EInv, Marshal, Size
  <1>2. TypeOK'
    BY <1>1 DEF EInv, TypeOK, Marshal, Pieces, Logs
  <1>3. Sizes' /\ MatchesInside' /\ MatchIsKept'
    BY DEF EInv, Marshal, Sizes, MatchesInside, MatchIsKept
  <1>4. Ahead'
    BY DEF EInv, Marshal, Ahead, Intact
  <1>5. Excess'
    <2>1. pc' \in {"written", "platLog"} /\ remain' = Size' - Target
      BY <1>1 DEF Marshal
    <2> QED
      BY <2>1 DEF Excess
  <1>7. SummaryFits'
    <2>1. pc' \in {"written", "minimal"} => Size' <= Target
      BY <1>1 DEF Marshal
    <2> QED
      BY <1>1, <2>1, FileFacts DEF SummaryFits, FileSize
  <1>6. LossOrder'
    BY DEF EInv, Marshal, LossOrder, Lost, Length
  <1> QED
    BY <1>2, <1>3, <1>4, <1>5, <1>6, <1>7 DEF EInv

\* What cutting the log f says of sizes and matches, whichever log it is.
LEMMA CutLogInv ==
  ASSUME EInv, NEW f \in Logs, NEW next, CutLog(f, next), Intact(f),
         next \in {"userLog", "platMatch"}
  PROVE  /\ TypeOK' /\ Sizes' /\ MatchesInside' /\ MatchIsKept'
         /\ SummaryFits'
         /\ Size' \in Nat /\ remain' = Size' - Target
         /\ remain \in Nat /\ remain = Size - Target
         /\ pc' = IF remain' <= 0 THEN "written" ELSE next
         /\ f \in here' \ grown' => remain' <= 0
  <1>1. /\ TypeOK /\ Sizes /\ MatchesInside /\ remain \in Nat /\ remain > 0
        /\ remain = Size - Target /\ Truncate(f, remain) /\ UNCHANGED <<whole, at>>
        /\ remain' = Size' - Target /\ f \in Pieces
        /\ pc' = IF remain' <= 0 THEN "written" ELSE next
    BY DEF EInv, TypeOK, CutLog, Excess, Pieces, Logs
  <1>2. /\ \A g \in Pieces \ {f} : lo'[g] = lo[g] /\ hi'[g] = hi[g] /\ cost'[g] = cost[g]
                 /\ (g \in here' <=> g \in here) /\ (g \in grown' <=> g \in grown)
        /\ here' \subseteq here /\ grown' \in SUBSET Pieces
        /\ lo' \in [Pieces -> Nat] /\ hi' \in [Pieces -> Nat] /\ cost' \in [Pieces -> Nat]
        /\ lo'[f] <= hi'[f] /\ hi'[f] <= whole[f]
        /\ \/ f \notin here' /\ cost'[f] = 0
           \/ /\ f \in here'
              /\ cost'[f] >= hi'[f] - lo'[f]
              /\ f \notin grown' => cost'[f] <= cost[f] - remain
              /\ at[f] # -1 => lo'[f] <= at[f] /\ (at[f] + whole[MatchOf(f)] <= hi'[f] \/ lo'[f] = at[f])
    BY <1>1, TruncateFacts
  <1>a. \A g \in Pieces \ {f} : cost'[g] = cost[g]
    BY <1>2
  <1>b. \A g \in Pieces \ {f} : lo'[g] = lo[g] /\ hi'[g] = hi[g] /\ (g \in here' <=> g \in here)
    BY <1>2
  <1>3. /\ Target \in Nat /\ Base \in Nat
        /\ \A g \in Pieces : /\ cost[g] \in Nat /\ whole[g] \in Nat /\ cost'[g] \in Nat
                             /\ lo'[g] \in Nat /\ hi'[g] \in Nat
        /\ {"platLog", "userLog", "platMatch", "userMatch"} = Pieces
    BY <1>1, <1>2, Numbers
  <1>4. Size' = Size - cost[f] + cost'[f] /\ Size' \in Nat /\ Size \in Nat
    <2>1. CASE f = "platLog"
      <3>1. /\ cost'["userLog"] = cost["userLog"] /\ cost'["platMatch"] = cost["platMatch"]
            /\ cost'["userMatch"] = cost["userMatch"]
        <4>1. {"userLog", "platMatch", "userMatch"} \subseteq Pieces \ {f}
          BY <2>1 DEF Pieces, Logs, Matches
        <4> QED
          BY <4>1, <1>a
      <3> QED
        BY <2>1, <3>1, <1>3 DEF Size
    <2>2. CASE f = "userLog"
      <3>1. /\ cost'["platLog"] = cost["platLog"] /\ cost'["platMatch"] = cost["platMatch"]
            /\ cost'["userMatch"] = cost["userMatch"]
        <4>1. {"platLog", "platMatch", "userMatch"} \subseteq Pieces \ {f}
          BY <2>2 DEF Pieces, Logs, Matches
        <4> QED
          BY <4>1, <1>a
      <3> QED
        BY <2>2, <3>1, <1>3 DEF Size
    <2> QED
      BY <2>1, <2>2 DEF Logs
  <1>5. TypeOK'
    <2>1. remain' \in Int
      BY <1>1, <1>3, <1>4
    <2>2. here' \in SUBSET Pieces
      BY <1>1, <1>2 DEF TypeOK
    <2>3. pc' \in {"written", "userLog", "platMatch"} /\ (pc' # "written" => remain' > 0)
      BY <1>1, <2>1
    <2>4. pc' \in {"marshal", "written", "minimal", "panic"} \cup Pieces
      BY <2>3 DEF Pieces, Logs, Matches
    <2>5. pc' \in {"platLog", "userLog", "platMatch"} => remain' > 0
      BY <2>3
    <2>6. whole' \in [Pieces -> Nat] /\ at' \in [Logs -> Nat \cup {-1}]
      BY <1>1 DEF TypeOK
    <2> QED
      BY <1>2, <2>1, <2>2, <2>4, <2>5, <2>6 DEF TypeOK
  <1>6. Sizes'
    <2> SUFFICES ASSUME NEW g \in Pieces
                 PROVE  /\ g \notin here' => cost'[g] = 0
                        /\ lo'[g] <= hi'[g] /\ hi'[g] <= whole[g]
                        /\ g \in here' => cost'[g] >= hi'[g] - lo'[g]
      BY <1>1 DEF Sizes
    <2>1. CASE g = f
      BY <2>1, <1>2
    <2>2. CASE g # f
      <3>1. g \in Pieces \ {f} /\ whole' = whole
        BY <2>2, <1>1
      <3>2. lo'[g] = lo[g] /\ hi'[g] = hi[g] /\ cost'[g] = cost[g] /\ (g \in here' <=> g \in here)
        BY <3>1, <1>a, <1>b
      <3>3. /\ g \notin here => cost[g] = 0
            /\ lo[g] <= hi[g] /\ hi[g] <= whole[g]
            /\ g \in here => cost[g] >= hi[g] - lo[g]
        BY <1>1 DEF Sizes
      <3> QED
        BY <3>1, <3>2, <3>3
    <2> QED
      BY <2>1, <2>2
  <1>7. MatchIsKept'
    <2> SUFFICES ASSUME NEW g \in Logs, g \in here', at[g] # -1
                 PROVE  /\ lo'[g] <= at[g]
                        /\ at[g] + whole[MatchOf(g)] <= hi'[g] \/ lo'[g] = at[g]
      BY <1>1 DEF MatchIsKept
    <2>1. CASE g = f
      BY <2>1, <1>2
    <2>2. CASE g # f
      <3>1. g \in Pieces \ {f} /\ g \in Logs \cap here
        BY <2>2, <1>2 DEF Pieces
      <3> QED
        BY <3>1, <1>2 DEF EInv, MatchIsKept
    <2> QED
      BY <2>1, <2>2
  <1>8. SummaryFits'
    <2>1. pc' \in {"written", "minimal"} => Size' <= Target
      BY <1>1, <1>3, <1>4
    <2> QED
      BY <1>4, <2>1, FileFacts DEF SummaryFits, FileSize
  <1>9. f \in here' \ grown' => remain' <= 0
    BY <1>1, <1>2, <1>3, <1>4
  <1> QED
    BY <1>1, <1>4, <1>5, <1>6, <1>7, <1>8, <1>9, MatchesStay

\* The pieces that are not cut lose nothing.
LEMMA IntactFacts ==
  ASSUME TypeOK, NEW f \in Pieces, Intact(f)
  PROVE  Lost(f) = 0
  BY DEF TypeOK, Intact, Lost, Length

LEMMA CutPlatLogInv ==
  ASSUME EInv, CutPlatLog
  PROVE  EInv'
  <1>1. CutLog("platLog", "userLog") /\ Intact("platLog") /\ Intact("userLog")
        /\ Intact("platMatch") /\ Intact("userMatch") /\ TypeOK
    BY DEF EInv, CutPlatLog, CutLog, Ahead
  <1>2. /\ TypeOK' /\ Sizes' /\ MatchesInside' /\ MatchIsKept' /\ SummaryFits'
        /\ Size' \in Nat /\ remain' = Size' - Target
        /\ pc' = IF remain' <= 0 THEN "written" ELSE "userLog"
        /\ "platLog" \in here' \ grown' => remain' <= 0
    BY <1>1, CutLogInv DEF EInv, Logs
  <1>3. \A g \in {"userLog", "platMatch", "userMatch"} :
          lo'[g] = lo[g] /\ hi'[g] = hi[g] /\ (g \in here' <=> g \in here) /\ whole' = whole
    <2>1. "platLog" \in Logs /\ {"userLog", "platMatch", "userMatch"} \subseteq Pieces \ {"platLog"}
      BY DEF Pieces, Logs, Matches
    <2>2. Truncate("platLog", remain) /\ remain \in Nat /\ whole' = whole
          /\ Sizes /\ MatchesInside
      BY <1>1 DEF EInv, TypeOK, CutLog, Pieces, Logs
    <2>3. \A g \in Pieces \ {"platLog"} :
            lo'[g] = lo[g] /\ hi'[g] = hi[g] /\ (g \in here' <=> g \in here)
      BY <1>1, <2>1, <2>2, TruncateFacts
    <2> QED
      BY <2>1, <2>2, <2>3
  <1>4. \A g \in {"userLog", "platMatch", "userMatch"} : Intact(g)' /\ Lost(g)' = 0
    BY <1>1, <1>3, IntactFacts DEF Intact, Lost, Length, Pieces, Logs, Matches
  <1>5. Ahead'
    BY <1>2, <1>4 DEF Ahead
  <1>6. Excess'
    BY <1>2 DEF Excess
  <1>7. LossOrder'
    BY <1>4 DEF LossOrder, Matches
  <1> QED
    BY <1>2, <1>5, <1>6, <1>7 DEF EInv

LEMMA CutUserLogInv ==
  ASSUME EInv, CutUserLog
  PROVE  EInv'
  <1>1. CutLog("userLog", "platMatch") /\ Intact("userLog") /\ TypeOK /\ pc = "userLog"
        /\ Intact("platMatch") /\ Intact("userMatch") /\ remain \in Nat /\ remain > 0
        /\ "platLog" \notin here \ grown
    BY DEF EInv, TypeOK, CutUserLog, CutLog, Ahead, Excess
  <1>2. /\ TypeOK' /\ Sizes' /\ MatchesInside' /\ MatchIsKept' /\ SummaryFits'
        /\ Size' \in Nat /\ remain' = Size' - Target
        /\ pc' = IF remain' <= 0 THEN "written" ELSE "platMatch"
        /\ "userLog" \in here' \ grown' => remain' <= 0
    BY <1>1, CutLogInv DEF EInv, Logs
  <1>3. \A g \in {"platLog", "platMatch", "userMatch"} :
          /\ lo'[g] = lo[g] /\ hi'[g] = hi[g] /\ (g \in here' <=> g \in here) /\ whole' = whole
          /\ g \in grown' <=> g \in grown
    <2>1. "userLog" \in Logs /\ {"platLog", "platMatch", "userMatch"} \subseteq Pieces \ {"userLog"}
      BY DEF Pieces, Logs, Matches
    <2>2. Truncate("userLog", remain) /\ remain \in Nat /\ whole' = whole
          /\ Sizes /\ MatchesInside
      BY <1>1 DEF EInv, TypeOK, CutLog, Pieces, Logs
    <2>3. \A g \in Pieces \ {"userLog"} :
            /\ lo'[g] = lo[g] /\ hi'[g] = hi[g] /\ (g \in here' <=> g \in here)
            /\ g \in grown' <=> g \in grown
      BY <1>1, <2>1, <2>2, TruncateFacts
    <2> QED
      BY <2>1, <2>2, <2>3
  <1>4. \A g \in {"platMatch", "userMatch"} : Intact(g)' /\ Lost(g)' = 0
    BY <1>1, <1>3, IntactFacts DEF Intact, Lost, Length, Pieces, Logs, Matches
  <1>5. Ahead'
    BY <1>2, <1>4 DEF Ahead
  <1>6. "platLog" \notin here' \ grown'
    BY <1>1, <1>3
  <1>7. Excess'
    BY <1>2, <1>6 DEF Excess, Pieces, Logs, Matches
  <1>9. LossOrder'
    BY <1>4, <1>6 DEF LossOrder, Matches
  <1> QED
    BY <1>2, <1>5, <1>7, <1>9 DEF EInv

LEMMA CutPlatMatchInv ==
  ASSUME EInv, CutPlatMatch
  PROVE  EInv'
  <1> DEFINE m == "platMatch"
  <1>1. /\ TypeOK /\ Sizes /\ MatchesInside /\ pc = m /\ UNCHANGED <<whole, at>>
        /\ Intact(m) /\ Intact("userMatch") /\ remain = Size - Target
        /\ Logs \cap (here \ grown) = {}
        /\ remain \in Nat /\ remain > 0 /\ m \in Pieces /\ LossOrder /\ MatchIsKept
    BY DEF EInv, TypeOK, CutPlatMatch, Ahead, Excess, Pieces, Logs, Matches
  <1>2. /\ Target \in Nat /\ Base \in Nat /\ Size \in Nat
        /\ \A g \in Pieces : lo[g] \in Nat /\ hi[g] \in Nat /\ cost[g] \in Nat /\ whole[g] \in Nat
        /\ {"platLog", "userLog", "userMatch"} = Pieces \ {m}
    BY <1>1, Numbers DEF Pieces, Logs, Matches
  <1>3. /\ here' \subseteq here
        /\ \A g \in Pieces \ {m} : lo'[g] = lo[g] /\ hi'[g] = hi[g] /\ cost'[g] = cost[g]
                 /\ (g \in here' <=> g \in here) /\ (g \in grown' <=> g \in grown)
        /\ grown' \in SUBSET Pieces
        /\ lo' \in [Pieces -> Nat] /\ hi' \in [Pieces -> Nat] /\ cost' \in [Pieces -> Nat]
        /\ \/ /\ m \notin here' /\ m \notin here /\ cost'[m] = cost[m] /\ lo'[m] = lo[m] /\ hi'[m] = hi[m]
              /\ remain' = remain /\ pc' = "userMatch"
           \/ /\ m \in here' /\ lo'[m] <= hi'[m] /\ hi'[m] <= whole[m]
              /\ cost'[m] >= hi'[m] - lo'[m]
              /\ m \notin grown' => cost'[m] <= cost[m] - remain
              /\ pc' = "written" /\ remain' = remain
           \/ /\ m \notin here' /\ m \in here /\ cost'[m] = 0 /\ lo'[m] = lo[m] /\ hi'[m] = hi[m]
              /\ remain' = Size' - Target /\ pc' = "userMatch"
    <2>1. CASE m \notin here
      BY <2>1, <1>1 DEF CutPlatMatch, TypeOK
    <2>2. CASE m \in here /\ hi[m] >= remain
      <3>1. Keep(m, 0, hi[m] - remain) /\ pc' = "written" /\ remain' = remain
        BY <2>2, <1>1, <1>2 DEF CutPlatMatch
      <3>2. hi[m] = whole[m] /\ hi[m] - remain \in Nat /\ hi[m] - remain <= whole[m] /\ 0 <= hi[m] - remain
        BY <2>2, <1>1, <1>2 DEF Intact
      <3>3. /\ here' = here
            /\ \A g \in Pieces \ {m} : lo'[g] = lo[g] /\ hi'[g] = hi[g] /\ cost'[g] = cost[g]
            /\ lo'[m] = 0 /\ hi'[m] = hi[m] - remain
            /\ cost'[m] >= (hi[m] - remain) - 0
            /\ m \notin grown' => cost'[m] <= cost[m] - ((hi[m] - lo[m]) - ((hi[m] - remain) - 0))
            /\ grown' \in SUBSET Pieces
            /\ \A g \in Pieces \ {m} : g \in grown' <=> g \in grown
            /\ lo' \in [Pieces -> Nat] /\ hi' \in [Pieces -> Nat] /\ cost' \in [Pieces -> Nat]
        BY <2>2, <3>1, <3>2, <1>1, KeepFacts
      <3>4. m \notin grown' => cost'[m] <= cost[m] - remain
        BY <3>2, <3>3, <1>1, <1>2 DEF Intact
      <3> QED
        BY <2>2, <3>1, <3>2, <3>3, <3>4
    <2>3. CASE m \in here /\ hi[m] < remain
      <3>1. Drop(m) /\ remain' = Size' - Target /\ pc' = "userMatch"
        BY <2>3, <1>1, <1>2 DEF CutPlatMatch, Intact
      <3> QED
        BY <2>3, <3>1, <1>1, DropFacts DEF TypeOK
    <2> QED
      BY <1>2, <1>1, <2>1, <2>2, <2>3
  <1>4. /\ \A g \in Pieces : cost'[g] \in Nat /\ lo'[g] \in Nat /\ hi'[g] \in Nat
        /\ Size' = Size - cost[m] + cost'[m] /\ Size' \in Nat
    <2>1. {"platLog", "userLog", "userMatch"} \subseteq Pieces \ {m}
      BY <1>2
    <2> QED
      BY <2>1, <1>1, <1>2, <1>3 DEF Size
  <1>5. TypeOK'
    <2>1. here' \in SUBSET Pieces /\ whole' \in [Pieces -> Nat] /\ at' \in [Logs -> Nat \cup {-1}]
      BY <1>1, <1>3 DEF TypeOK
    <2>2. remain' \in Int /\ pc' \in {"written", "userMatch"}
      BY <1>1, <1>2, <1>3, <1>4
    <2> QED
      BY <2>1, <2>2, <1>3 DEF TypeOK, Pieces, Matches
  <1>6. Sizes'
    <2> SUFFICES ASSUME NEW g \in Pieces
                 PROVE  /\ g \notin here' => cost'[g] = 0
                        /\ lo'[g] <= hi'[g] /\ hi'[g] <= whole[g]
                        /\ g \in here' => cost'[g] >= hi'[g] - lo'[g]
      BY <1>1 DEF Sizes
    <2>1. /\ g \notin here => cost[g] = 0
          /\ lo[g] <= hi[g] /\ hi[g] <= whole[g]
          /\ g \in here => cost[g] >= hi[g] - lo[g]
      BY <1>1 DEF Sizes
    <2> QED
      BY <2>1, <1>3
  <1>7. MatchIsKept'
    <2>1. Logs \subseteq Pieces \ {m}
      BY DEF Pieces, Logs, Matches
    <2> QED
      BY <2>1, <1>1, <1>3 DEF MatchIsKept
  <1>8. Intact("userMatch")' /\ Lost("userMatch")' = 0
    <2>1. "userMatch" \in Pieces \ {m}
      BY DEF Pieces, Matches
    <2> QED
      BY <2>1, <1>1, <1>2, <1>3 DEF Intact, Lost, Length
  <1>9. Ahead'
    BY <1>3, <1>8 DEF Ahead
  <1>10. m \in here' => pc' = "written"
    BY <1>3
  <1>a. Logs \cap (here' \ grown') = {}
    BY <1>1, <1>2, <1>3 DEF Logs
  <1>11. Excess'
    <2>1. pc' = "userMatch" => remain' = Size' - Target
      <3>1. m \notin here => cost[m] = 0
        BY <1>1 DEF Sizes
      <3> QED
        BY <3>1, <1>1, <1>2, <1>3, <1>4
    <2>2. pc' \in {"written", "userMatch"} /\ (pc' = "userMatch" => m \notin here')
      BY <1>3
    <2> QED
      BY <1>a, <2>1, <2>2 DEF Excess, Pieces, Logs, Matches
  <1>12. SummaryFits'
    <2>1. CASE m \in here' /\ m \in grown'
      BY <2>1 DEF SummaryFits, Matches
    <2>2. CASE m \in here' /\ m \notin grown'
      <3>1. Size' <= Target
        BY <2>2, <1>1, <1>2, <1>3, <1>4
      <3> QED
        BY <3>1, <1>4, FileFacts DEF SummaryFits, FileSize
    <2>3. CASE m \notin here'
      BY <2>3, <1>3 DEF SummaryFits
    <2> QED
      BY <2>1, <2>2, <2>3
  <1>13. LossOrder'
    BY <1>a, <1>8 DEF LossOrder, Logs
  <1> QED
    BY <1>1, <1>5, <1>6, <1>7, <1>9, <1>11, <1>12, <1>13, MatchesStay DEF EInv

LEMMA CutUserMatchInv ==
  ASSUME EInv, CutUserMatch
  PROVE  EInv'
  <1> DEFINE m == "userMatch"
  <1>1. /\ TypeOK /\ Sizes /\ MatchesInside /\ pc = m /\ UNCHANGED <<whole, at, remain>>
        /\ Intact(m) /\ remain = Size - Target /\ remain \in Int
        /\ Logs \cap (here \ grown) = {} /\ "platMatch" \notin here
        /\ m \in Pieces /\ LossOrder /\ MatchIsKept
    BY DEF EInv, TypeOK, CutUserMatch, Ahead, Excess, Pieces, Logs, Matches
  <1>2. /\ Target \in Nat /\ Base \in Nat /\ Size \in Nat /\ Base <= Target
        /\ \A g \in Pieces : lo[g] \in Nat /\ hi[g] \in Nat /\ cost[g] \in Nat /\ whole[g] \in Nat
        /\ {"platLog", "userLog", "platMatch"} = Pieces \ {m}
    BY <1>1, Numbers DEF Pieces, Logs, Matches
  <1>3. CASE m \in here /\ remain < 0
    <2>1. pc' = "panic" /\ UNCHANGED <<here, lo, hi, cost, grown>>
      BY <1>3, <1>1, <1>2 DEF CutUserMatch
    <2>2. TypeOK' /\ Sizes' /\ MatchesInside' /\ MatchIsKept'
      BY <2>1, <1>1 DEF TypeOK, Sizes, MatchesInside, MatchIsKept, Pieces, Matches, Logs
    <2>3. Ahead' /\ Excess' /\ SummaryFits'
      BY <2>1 DEF Ahead, Excess, SummaryFits, Pieces, Logs, Matches
    <2>4. LossOrder'
      BY <2>1, <1>1 DEF LossOrder, Lost, Length
    <2> QED
      BY <2>2, <2>3, <2>4 DEF EInv
  <1>4. CASE m \in here /\ remain \in 0..hi[m]
    <2>1. Keep(m, 0, hi[m] - remain) /\ pc' = "written"
      BY <1>4, <1>1, <1>2 DEF CutUserMatch
    <2>2. hi[m] = whole[m] /\ hi[m] - remain \in Nat /\ hi[m] - remain <= whole[m]
          /\ 0 <= hi[m] - remain /\ remain \in Nat
      BY <1>4, <1>1, <1>2 DEF Intact
    <2>3. /\ here' = here
          /\ \A g \in Pieces \ {m} : lo'[g] = lo[g] /\ hi'[g] = hi[g] /\ cost'[g] = cost[g]
          /\ lo'[m] = 0 /\ hi'[m] = hi[m] - remain
          /\ cost'[m] >= (hi[m] - remain) - 0
          /\ m \notin grown' => cost'[m] <= cost[m] - ((hi[m] - lo[m]) - ((hi[m] - remain) - 0))
          /\ grown' \in SUBSET Pieces
          /\ \A g \in Pieces \ {m} : g \in grown' <=> g \in grown
          /\ lo' \in [Pieces -> Nat] /\ hi' \in [Pieces -> Nat] /\ cost' \in [Pieces -> Nat]
      BY <1>4, <2>1, <2>2, <1>1, KeepFacts
    <2>4. {"platLog", "userLog", "platMatch"} \subseteq Pieces \ {m}
      BY <1>2
    <2>5. TypeOK' /\ MatchesInside'
      BY <2>1, <2>3, <1>1 DEF TypeOK, MatchesInside, Pieces, Logs, Matches
    <2>6. Sizes'
      <3> SUFFICES ASSUME NEW g \in Pieces
                   PROVE  /\ g \notin here' => cost'[g] = 0
                          /\ lo'[g] <= hi'[g] /\ hi'[g] <= whole[g]
                          /\ g \in here' => cost'[g] >= hi'[g] - lo'[g]
        BY <1>1 DEF Sizes
      <3>1. /\ g \notin here => cost[g] = 0
            /\ lo[g] <= hi[g] /\ hi[g] <= whole[g]
            /\ g \in here => cost[g] >= hi[g] - lo[g]
        BY <1>1 DEF Sizes
      <3> QED
        BY <3>1, <2>2, <2>3, <1>4
    <2>7. SummaryFits'
      <3>1. cost'["platLog"] = cost["platLog"] /\ cost'["userLog"] = cost["userLog"]
            /\ cost'["platMatch"] = cost["platMatch"]
        BY <2>3, <2>4
      <3>2. cost'[m] \in Nat /\ cost["platLog"] \in Nat /\ cost["userLog"] \in Nat
            /\ cost["platMatch"] \in Nat /\ cost[m] \in Nat
        BY <2>3, <2>4, <1>1 DEF TypeOK
      <3>3. CASE m \in grown'
        BY <3>3, <2>3, <1>4 DEF SummaryFits, Matches
      <3>4. CASE m \notin grown'
        <4>1. cost'[m] <= cost[m] - remain
          BY <3>4, <2>2, <2>3, <1>1, <1>2 DEF Intact
        <4>2. Size' <= Target /\ Size' \in Nat
          BY <4>1, <3>1, <3>2, <1>1, <1>2 DEF Size
        <4> QED
          BY <4>2, FileFacts DEF SummaryFits, FileSize
      <3> QED
        BY <3>3, <3>4
    <2>8. MatchIsKept'
      <3>1. Logs \subseteq Pieces \ {m}
        BY DEF Pieces, Logs, Matches
      <3> QED
        BY <3>1, <1>1, <2>3 DEF MatchIsKept
    <2>9. LossOrder'
      <3>1. Logs \cap (here' \ grown') = {} /\ "platMatch" \notin here'
        BY <2>3, <2>4, <1>1 DEF Logs
      <3> QED
        BY <3>1 DEF LossOrder, Logs
    <2> QED
      BY <2>1, <2>5, <2>6, <2>7, <2>8, <2>9 DEF EInv, Ahead, Excess, SummaryFits, Pieces, Logs, Matches
  <1>5. CASE m \notin here \/ remain > hi[m]
    <2>1. here' = {} /\ cost' = [f \in Pieces |-> 0] /\ pc' = "minimal" /\ UNCHANGED <<lo, hi, grown>>
      BY <1>5, <1>1, <1>2 DEF CutUserMatch
    <2>2. TypeOK' /\ MatchesInside'
      BY <2>1, <1>1 DEF TypeOK, MatchesInside, Pieces, Logs, Matches
    <2>3. Sizes' /\ MatchIsKept' /\ LossOrder'
      BY <2>1, <1>1 DEF Sizes, MatchIsKept, LossOrder
    <2>4. Size' = Base
      <3>1. \A f \in Pieces : cost'[f] = 0
        BY <2>1
      <3>2. {"platLog", "userLog", "platMatch", "userMatch"} \subseteq Pieces
        BY DEF Pieces, Logs, Matches
      <3> QED
        BY <3>1, <3>2, <1>2 DEF Size
    <2>5. SummaryFits'
      BY <2>4, <1>2, FileFacts DEF SummaryFits, FileSize
    <2> QED
      BY <2>1, <2>2, <2>3, <2>5 DEF EInv, Ahead, Excess, Pieces, Logs, Matches
  <1> QED
    BY <1>1, <1>2, <1>3, <1>4, <1>5

LEMMA EInvariant == Spec => []EInv
  <1>1. EInv /\ [Next]_vars => EInv'
    <2> SUFFICES ASSUME EInv, [Next]_vars PROVE EInv'
      OBVIOUS
    <2>1. CASE Marshal
      BY <2>1, MarshalInv
    <2>2. CASE CutPlatLog
      BY <2>2, CutPlatLogInv
    <2>3. CASE CutUserLog
      BY <2>3, CutUserLogInv
    <2>4. CASE CutPlatMatch
      BY <2>4, CutPlatMatchInv
    <2>5. CASE CutUserMatch
      BY <2>5, CutUserMatchInv
    <2>6. CASE UNCHANGED vars
      BY <2>6 DEF vars, EInv, TypeOK, Sizes, MatchesInside, Ahead, Excess, Intact,
                  SummaryFits, LossOrder, MatchIsKept, Lost, Length, Size, FileSize
    <2> QED
      BY <2>1, <2>2, <2>3, <2>4, <2>5, <2>6 DEF Next
  <1> QED
    BY InitEInv, <1>1, PTL DEF Spec

\* The variables of truncateExitSummary have their types, and it goes on to
\* cut only if there is something to cut off.
THEOREM SummaryTypes == Spec => []TypeOK
  BY EInvariant, PTL DEF EInv

\* For any sizes and any cost of the pieces in YAML, the termination message
\* fits up to its two line feeds, unless a match that was cut last freed less
\* than was taken of it.
THEOREM ReportFits == Spec => []SummaryFits
  BY EInvariant, PTL DEF EInv

\* For any sizes, nothing is taken of a piece as long as something is left of a
\* less important one, but for logs whose cut freed less than was taken.
THEOREM LossInOrder == Spec => []LossOrder
  BY EInvariant, PTL DEF EInv

\* For any sizes and places, truncateLog keeps all of the match there is room for.
THEOREM MatchStays == Spec => []MatchIsKept
  BY EInvariant, PTL DEF EInv
=============================================================================
