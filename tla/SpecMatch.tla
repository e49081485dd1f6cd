------------------------------ MODULE SpecMatch ------------------------------
(***************************************************************************)
(* How exithandler finds out why the job failed: GenerateExitInfo and      *)
(* matchSpecPatten of src/go/pkg/aggregator/error_aggregator.go.           *)
(*                                                                         *)
(* A spec file is a list of specs, each with the exit code to report and   *)
(* with a list of patterns.  The first spec that has a matching pattern    *)
(* decides.  A pattern matches if all the conditions it states hold: the   *)
(* exit code, a regular expression in the platform's log, one in the       *)
(* user's log, and the state of the GPUs.                                  *)
(***************************************************************************)
EXTENDS Integers, Sequences

\* A pattern, by what comes of its conditions.  exit and gpu: it is not stated
\* or it holds.  plat and user: there is no expression, it is found, or it is
\* not found or invalid.
Hits == {"none", "hit", "miss"}
Patterns == [exit : BOOLEAN, plat : Hits, user : Hits, gpu : BOOLEAN]

CONSTANT SpecFiles   \* the spec files considered

ASSUME SpecFilesAssumption == SpecFiles \subseteq Seq(Seq(Patterns))

VARIABLES
    specs,   \* errorSpecs, the spec file
    s,       \* the spec that is looked at; at last the one that matched
    p,       \* the pattern of it that is looked at or matched
    plat,    \* platPatternLoc: the pattern whose expression it is of, 0 for nil
    user,    \* userPatternLoc, likewise
    found    \* the loop: "searching", "match" or "none"

searchVars == <<specs, s, p, plat, user, found>>

\* The types; the loops stay within the file.
SearchTypeOK ==
    /\ specs \in Seq(Seq(Patterns))
    /\ s \in 1..(Len(specs) + 1)
    /\ p \in Nat \ {0} /\ (s <= Len(specs) => p <= Len(specs[s]) + 1)
    /\ plat \in 0..p /\ user \in 0..p
    /\ found \in {"searching", "match", "none"}

SearchInit ==
    /\ specs \in SpecFiles
    /\ s = 1 /\ p = 1 /\ plat = 0 /\ user = 0 /\ found = "searching"

\* All the conditions a pattern states hold.
Holds(pattern) ==
    pattern.exit /\ pattern.plat # "miss" /\ pattern.user # "miss" /\ pattern.gpu

\* The locations are declared before the loop over the patterns (line 329), so
\* they keep what an earlier pattern found when a pattern has no expression.
Look(hit, loc) ==
    CASE hit = "none" -> loc
      [] hit = "hit"  -> p
      [] hit = "miss" -> 0

\* Mutants of TryPattern: the next pattern is tried although this one matches;
\* a pattern with one expression that is found is enough of a match.
TryPatternOn ==
    /\ found = "searching" /\ s <= Len(specs) /\ p <= Len(specs[s])
    /\ LET pat == specs[s][p]
       IN  /\ plat' = Look(pat.plat, plat)
           /\ user' = Look(pat.user, user)
           /\ IF Holds(pat) /\ p = Len(specs[s])
                THEN found' = "match" /\ UNCHANGED p
                ELSE p' = p + 1 /\ UNCHANGED found
    /\ UNCHANGED <<specs, s>>

TryPatternLazily ==
    /\ found = "searching" /\ s <= Len(specs) /\ p <= Len(specs[s])
    /\ LET pat == specs[s][p]
       IN  /\ plat' = Look(pat.plat, plat)
           /\ user' = IF pat.plat = "hit" THEN user ELSE Look(pat.user, user)
           /\ IF Holds(pat) THEN found' = "match" /\ UNCHANGED p
                            ELSE p' = p + 1 /\ UNCHANGED found
    /\ UNCHANGED <<specs, s>>

\* Lines 332-381: one pattern.  The conditions are tested in this order, and
\* the first that fails goes on to the next pattern.
TryPattern ==
    /\ found = "searching" /\ s <= Len(specs) /\ p <= Len(specs[s])
    /\ LET pat == specs[s][p]
       IN  /\ plat' = IF pat.exit THEN Look(pat.plat, plat) ELSE plat
           /\ user' = IF pat.exit /\ pat.plat # "miss"
                        THEN Look(pat.user, user) ELSE user
           /\ IF Holds(pat) THEN found' = "match" /\ UNCHANGED p
                            ELSE p' = p + 1 /\ UNCHANGED found
    /\ UNCHANGED <<specs, s>>

\* A mutant of NextSpec: the next spec is searched from where this one ended.
NextSpecOn ==
    /\ found = "searching" /\ s <= Len(specs) /\ p > Len(specs[s])
    /\ s' = s + 1 /\ plat' = 0 /\ user' = 0
    /\ UNCHANGED <<specs, p, found>>

\* Lines 161-162, 382: no pattern of the spec matches; the next one is tried.
NextSpec ==
    /\ found = "searching" /\ s <= Len(specs) /\ p > Len(specs[s])
    /\ s' = s + 1 /\ p' = 1 /\ plat' = 0 /\ user' = 0
    /\ UNCHANGED <<specs, found>>

\* Lines 179-185: the default.
GiveUp ==
    /\ found = "searching" /\ s > Len(specs)
    /\ found' = "none"
    /\ UNCHANGED <<specs, s, p, plat, user>>

SearchNext == TryPattern \/ NextSpec \/ GiveUp

SearchSpec == SearchInit /\ [][SearchNext]_searchVars

-----------------------------------------------------------------------------
SpecMatches(i) == \E j \in DOMAIN specs[i] : Holds(specs[i][j])

\* The exit code is that of the first spec in the file that has a matching
\* pattern, by its first matching pattern, and the default exit code is used
\* only if there is none (GenerateExitInfo, lines 161-185).
FirstMatchDecides ==
    /\ found = "match" =>
         /\ SpecMatches(s) /\ \A i \in 1..(s - 1) : ~ SpecMatches(i)
         /\ Holds(specs[s][p]) /\ \A j \in 1..(p - 1) : ~ Holds(specs[s][j])
    /\ found = "none" => \A i \in DOMAIN specs : ~ SpecMatches(i)

\* What the report shows of a log as matched is what the expression of the
\* matching pattern found, if it has one for that log; and it never comes from
\* another spec or from a pattern not tried (lines 337-356, 375-376).
ReportsOwnMatch ==
    found = "match" =>
        LET pat == specs[s][p] IN
        /\ pat.plat = "hit" => plat = p
        /\ pat.user = "hit" => user = p
        /\ plat # 0 => plat <= p /\ specs[s][plat].plat = "hit"
        /\ user # 0 => user <= p /\ specs[s][user].user = "hit"

=============================================================================
