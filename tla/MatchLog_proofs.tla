--------------------------- MODULE MatchLog_proofs ---------------------------
(***************************************************************************)
(* Proofs about MatchLog, for every log over every set of characters and   *)
(* for every maxAggregateLogSize and number of lines.                      *)
(*                                                                         *)
(* The argument is about texts as lists of lines.  Lines maps the text     *)
(* "s after t" to the lists of both glued together: the last line of the   *)
(* one and the first of the other are one line (Glue, LinesOfConcat).      *)
(* mergeLogs glues too (MergeIsGlue), so what extractMatchLog returns is   *)
(* the lines of the match glued between others (ExtractedAround), and Join *)
(* gives the text of the match back (JoinOfGlue).                          *)
(*                                                                         *)
(* Facts about every sequence are proved by set induction (SeqSetInduction *)
(* of SequenceFacts): the set of the sequences with the property has <<>>  *)
(* and is closed under Append.                                             *)
(***************************************************************************)
EXTENDS MatchLog, SequenceTheorems, TLAPS

-----------------------------------------------------------------------------
(* Sequences: the last element, the first one, and the rest.               *)

\* A prefix of the elements, by its elements.
LEMMA PrefixAt ==
  ASSUME NEW S, NEW q \in Seq(S), NEW n \in Nat, n <= Len(q)
  PROVE  /\ SubSeq(q, 1, n) \in Seq(S) /\ Len(SubSeq(q, 1, n)) = n
         /\ \A i \in 1..n : SubSeq(q, 1, n)[i] = q[i]
<1>1. n \in Int /\ 1 \in Int /\ \A i \in 1..n : q[i] \in S
  BY LenProperties
<1> DEFINE r == SubSeq(q, 1, n)
<1>2. /\ r \in Seq(S) /\ Len(r) = (IF 1 <= n THEN n - 1 + 1 ELSE 0)
      /\ \A i \in 1..(n - 1 + 1) : r[i] = q[1 + i - 1]
  BY <1>1, SubSeqProperties
<1> HIDE DEF r
<1>3. Len(r) = n
  BY <1>2
<1>4. \A i \in 1..n : i \in 1..(n - 1 + 1) /\ 1 + i - 1 = i
  OBVIOUS
<1>5. \A i \in 1..n : r[i] = q[i]
  BY <1>2, <1>4
<1> QED BY <1>2, <1>3, <1>5 DEF r

\* What Append adds at the end is the last element, and the front is the rest.
LEMMA AppendLast ==
  ASSUME NEW S, NEW q \in Seq(S), NEW x \in S
  PROVE  /\ Append(q, x) \in Seq(S) /\ Append(q, x) # <<>>
         /\ Front(Append(q, x)) = q /\ Last(Append(q, x)) = x
<1> DEFINE r == Append(q, x)
           n == Len(q)
<1>1. /\ r \in Seq(S) /\ r # <<>> /\ Len(r) = n + 1 /\ n \in Nat
      /\ \A i \in 1..n : r[i] = q[i]
      /\ r[n + 1] = x
  BY AppendProperties, LenProperties
<1> HIDE DEF r, n
<1>2. Len(r) - 1 = n /\ n <= Len(r)
  BY <1>1
<1>3. Front(r) = SubSeq(r, 1, n)
  BY <1>2 DEF Front
<1>4. /\ Front(r) \in Seq(S) /\ Len(Front(r)) = n
      /\ \A i \in 1..n : Front(r)[i] = r[i]
  BY <1>1, <1>2, <1>3, PrefixAt
<1>5. Front(r) = q
  <2>1. Len(Front(r)) = Len(q) /\ \A i \in 1..Len(Front(r)) : Front(r)[i] = q[i]
    BY <1>1, <1>4 DEF n
  <2> QED BY <1>4, <2>1, SeqEqual
<1>6. Last(r) = x
  BY <1>1 DEF Last
<1> QED BY <1>1, <1>5, <1>6 DEF r

\* A sequence that is not empty is its front and its last element.
LEMMA FrontLast ==
  ASSUME NEW S, NEW q \in Seq(S), q # <<>>
  PROVE  Front(q) \in Seq(S) /\ Last(q) \in S /\ q = Append(Front(q), Last(q))
<1>1. PICK s \in Seq(S), x \in S : q = Append(s, x)
  BY SequenceEmptyOrAppend
<1> QED BY <1>1, AppendLast

\* A sequence that is not empty is its head and its tail.
LEMMA HeadTail ==
  ASSUME NEW S, NEW q \in Seq(S), q # <<>>
  PROVE  Head(q) \in S /\ Tail(q) \in Seq(S) /\ q = <<Head(q)>> \o Tail(q)
<1> DEFINE h == Head(q)
           t == Tail(q)
           r == <<h>> \o t
<1>1. /\ Len(q) \in Nat \ {0} /\ h \in S /\ t \in Seq(S) /\ Len(t) = Len(q) - 1
      /\ \A i \in 1..Len(t) : t[i] = q[i + 1]
  BY HeadTailProperties, EmptySeq
<1>2. h = q[1]
  OBVIOUS
<1>3. <<h>> \in Seq(S) /\ Len(<<h>>) = 1 /\ <<h>>[1] = h
  BY <1>1
<1>4. /\ r \in Seq(S) /\ Len(r) = 1 + Len(t)
      /\ \A i \in 1..(1 + Len(t)) : r[i] = IF i <= 1 THEN <<h>>[i] ELSE t[i - 1]
  BY <1>1, <1>3, ConcatProperties
<1> HIDE DEF h, t, r
<1>5. Len(r) = Len(q)
  BY <1>1, <1>4
<1>6. ASSUME NEW i \in 1..Len(q) PROVE r[i] = q[i]
  <2>1. CASE i = 1
    BY <1>1, <1>2, <1>3, <1>4, <2>1
  <2>2. CASE i # 1
    <3>1. i - 1 \in 1..Len(t) /\ ~ (i <= 1) /\ i \in 1..(1 + Len(t)) /\ (i - 1) + 1 = i
      BY <1>1, <2>2
    <3> QED BY <1>1, <1>4, <3>1
  <2> QED BY <2>1, <2>2
<1>7. r = q
  BY <1>4, <1>5, <1>6, SeqEqual
<1> QED BY <1>1, <1>7 DEF h, t, r

\* The head and the tail of an element put before a sequence.
LEMMA HeadTailOfCons ==
  ASSUME NEW S, NEW x \in S, NEW t \in Seq(S)
  PROVE  /\ <<x>> \o t \in Seq(S) /\ <<x>> \o t # <<>>
         /\ Head(<<x>> \o t) = x /\ Tail(<<x>> \o t) = t
<1> DEFINE r == <<x>> \o t
           n == Len(t)
<1>1. <<x>> \in Seq(S) /\ Len(<<x>>) = 1 /\ <<x>>[1] = x /\ n \in Nat
  OBVIOUS
<1>2. /\ r \in Seq(S) /\ Len(r) = 1 + n
      /\ \A i \in 1..(1 + n) : r[i] = IF i <= 1 THEN <<x>>[i] ELSE t[i - 1]
  BY <1>1, ConcatProperties
<1> HIDE DEF r, n
<1>3. r # <<>> /\ r[1] = x
  BY <1>1, <1>2
<1>4. /\ Head(r) \in S /\ Tail(r) \in Seq(S) /\ Len(Tail(r)) = n
      /\ \A i \in 1..n : Tail(r)[i] = r[i + 1]
  <2>1. /\ Tail(r) \in Seq(S) /\ Len(Tail(r)) = Len(r) - 1 /\ Head(r) \in S
        /\ \A i \in 1..Len(Tail(r)) : Tail(r)[i] = r[i + 1]
    BY <1>2, <1>3, HeadTailProperties
  <2>2. Len(r) - 1 = n
    BY <1>1, <1>2
  <2> QED BY <2>1, <2>2
<1>5. Head(r) = x
  BY <1>3, <1>2
<1>6. ASSUME NEW i \in 1..n PROVE Tail(r)[i] = t[i]
  <2>1. i + 1 \in 1..(1 + n) /\ ~ (i + 1 <= 1) /\ (i + 1) - 1 = i
    BY <1>1
  <2> QED BY <1>2, <1>4, <2>1
<1>7. Tail(r) = t
  BY <1>4, <1>6, SeqEqual DEF n
<1> QED BY <1>2, <1>3, <1>5, <1>7 DEF r

\* Append and concatenation commute.
LEMMA ConcatAppend ==
  ASSUME NEW S, NEW s \in Seq(S), NEW t \in Seq(S), NEW x \in S
  PROVE  s \o Append(t, x) = Append(s \o t, x) /\ s \o t \in Seq(S)
<1>1. <<x>> \in Seq(S) /\ s \o t \in Seq(S)
  BY ConcatProperties
<1>2. Append(t, x) = t \o <<x>> /\ Append(s \o t, x) = (s \o t) \o <<x>>
  BY <1>1, AppendIsConcat
<1>3. (s \o t) \o <<x>> = s \o (t \o <<x>>)
  BY <1>1, ConcatAssociative
<1> QED BY <1>1, <1>2, <1>3

\* The last element of a concatenation is the one of the second sequence.
LEMMA FrontLastOfConcat ==
  ASSUME NEW S, NEW s \in Seq(S), NEW t \in Seq(S), t # <<>>
  PROVE  s \o t # <<>> /\ Front(s \o t) = s \o Front(t) /\ Last(s \o t) = Last(t)
<1>1. Front(t) \in Seq(S) /\ Last(t) \in S /\ t = Append(Front(t), Last(t))
  BY FrontLast
<1>2. /\ s \o Append(Front(t), Last(t)) = Append(s \o Front(t), Last(t))
      /\ s \o Front(t) \in Seq(S)
  BY <1>1, ConcatAppend
<1>3. s \o t = Append(s \o Front(t), Last(t))
  BY <1>1, <1>2
<1> QED BY <1>1, <1>2, <1>3, AppendLast, ZenonT(40)

\* The first element of a concatenation is the one of the first sequence.
LEMMA HeadTailOfConcat ==
  ASSUME NEW S, NEW s \in Seq(S), NEW t \in Seq(S), s # <<>>
  PROVE  s \o t # <<>> /\ Head(s \o t) = Head(s) /\ Tail(s \o t) = Tail(s) \o t
<1>1. Head(s) \in S /\ Tail(s) \in Seq(S) /\ s = <<Head(s)>> \o Tail(s)
  BY HeadTail
<1>2. <<Head(s)>> \in Seq(S) /\ Tail(s) \o t \in Seq(S)
  BY <1>1, ConcatProperties
<1>3. (<<Head(s)>> \o Tail(s)) \o t = <<Head(s)>> \o (Tail(s) \o t)
  BY <1>1, <1>2, ConcatAssociative
<1>4. s \o t = <<Head(s)>> \o (Tail(s) \o t)
  BY <1>1, <1>3
<1> QED BY <1>1, <1>2, <1>4, HeadTailOfCons

-----------------------------------------------------------------------------
(* Texts as lists of lines, and putting one after the other.               *)

\* The lines a log is made of.
Line == Seq(Char \ {"n"})

\* Lines can be put one after the other.
LEMMA LineFacts ==
  /\ <<>> \in Line
  /\ \A a, b \in Line : a \o b \in Line
  /\ \A a \in Line : a \o <<>> = a /\ <<>> \o a = a
  /\ \A a \in Line, c \in Char \ {"n"} : Append(a, c) \in Line
  /\ \A a, b \in Line, c \in Char \ {"n"} : a \o Append(b, c) = Append(a \o b, c)
<1> DEFINE N == Char \ {"n"}
<1>1. <<>> \in Seq(N)
  OBVIOUS
<1>2. \A a, b \in Seq(N) : a \o b \in Seq(N)
  BY ConcatProperties
<1>3. \A a \in Seq(N) : a \o <<>> = a /\ <<>> \o a = a
  BY ConcatEmptySeq
<1>4. \A a \in Seq(N), c \in N : Append(a, c) \in Seq(N)
  BY AppendProperties
<1>5. \A a, b \in Seq(N), c \in N : a \o Append(b, c) = Append(a \o b, c)
  BY ConcatAppend
<1> QED BY <1>1, <1>2, <1>3, <1>4, <1>5 DEF Line

\* Two texts put one after the other, as lists of lines: the last line of the
\* one and the first line of the other are one line.
Glue(P, Q) == Front(P) \o <<Last(P) \o Head(Q)>> \o Tail(Q)

\* Lists of lines: of a text there is at least one.
Texts == {P \in Seq(Line) : P # <<>>}

\* Two texts glued are a text.
LEMMA GlueType ==
  ASSUME NEW P \in Texts, NEW Q \in Texts
  PROVE  Glue(P, Q) \in Texts
<1>1. Front(P) \in Seq(Line) /\ Last(P) \in Line /\ Head(Q) \in Line /\ Tail(Q) \in Seq(Line)
  BY FrontLast, HeadTail DEF Texts
<1>2. Last(P) \o Head(Q) \in Line
  BY <1>1, LineFacts
<1> DEFINE x == Last(P) \o Head(Q)
           F == Front(P)
           T == Tail(Q)
<1>3. F \in Seq(Line) /\ x \in Line /\ T \in Seq(Line)
  BY <1>1, <1>2
<1> HIDE DEF x, F, T
<1>4. <<x>> \in Seq(Line) /\ <<x>> # <<>>
  BY <1>3
<1>5. F \o <<x>> \in Seq(Line) /\ F \o <<x>> # <<>>
  BY <1>3, <1>4, ConcatProperties, FrontLastOfConcat
<1>6. (F \o <<x>>) \o T \in Seq(Line) /\ (F \o <<x>>) \o T # <<>>
  BY <1>3, <1>5, ConcatProperties, HeadTailOfConcat
<1> QED BY <1>6 DEF Glue, Texts, x, F, T

\* Lines before the first text stay before the whole.
LEMMA GlueLeft ==
  ASSUME NEW D \in Seq(Line), NEW P \in Texts, NEW Q \in Texts
  PROVE  Glue(D \o P, Q) = D \o Glue(P, Q)
<1> DEFINE x == Last(P) \o Head(Q)
           F == Front(P)
           T == Tail(Q)
<1>1. F \in Seq(Line) /\ x \in Line /\ T \in Seq(Line)
  BY FrontLast, HeadTail, LineFacts DEF Texts
<1>2. Front(D \o P) = D \o F /\ Last(D \o P) \o Head(Q) = x
  BY FrontLastOfConcat DEF Texts
<1> HIDE DEF x, F, T
<1>3. <<x>> \in Seq(Line)
  BY <1>1
<1>4. F \o <<x>> \in Seq(Line)
  BY <1>1, <1>3, ConcatProperties
<1>5. ((D \o F) \o <<x>>) \o T = (D \o (F \o <<x>>)) \o T
  BY <1>1, <1>3, ConcatAssociative
<1>6. (D \o (F \o <<x>>)) \o T = D \o ((F \o <<x>>) \o T)
  BY <1>1, <1>4, ConcatAssociative
<1>7. Glue(D \o P, Q) = ((D \o F) \o <<x>>) \o T
  BY <1>2 DEF Glue, T
<1>8. Glue(P, Q) = (F \o <<x>>) \o T
  BY DEF Glue, x, F, T
<1> QED BY <1>5, <1>6, <1>7, <1>8

\* Lines after the second text stay after the whole.
LEMMA GlueRight ==
  ASSUME NEW P \in Texts, NEW Q \in Texts, NEW E \in Seq(Line)
  PROVE  Glue(P, Q \o E) = Glue(P, Q) \o E
<1> DEFINE x == Last(P) \o Head(Q)
           F == Front(P)
           T == Tail(Q)
<1>1. F \in Seq(Line) /\ x \in Line /\ T \in Seq(Line)
  BY FrontLast, HeadTail, LineFacts DEF Texts
<1>2. Tail(Q \o E) = T \o E /\ Last(P) \o Head(Q \o E) = x
  BY HeadTailOfConcat DEF Texts
<1> HIDE DEF x, F, T
<1>3. <<x>> \in Seq(Line)
  BY <1>1
<1>4. F \o <<x>> \in Seq(Line)
  BY <1>1, <1>3, ConcatProperties
<1>5. (F \o <<x>>) \o (T \o E) = ((F \o <<x>>) \o T) \o E
  BY <1>1, <1>4, ConcatAssociative, SMTT(40)
<1>6. Glue(P, Q \o E) = (F \o <<x>>) \o (T \o E)
  BY <1>2 DEF Glue, F
<1>7. Glue(P, Q) = (F \o <<x>>) \o T
  BY DEF Glue, x, F, T
<1> QED BY <1>5, <1>6, <1>7

\* Nothing is joined when one of the two lines is empty.
LEMMA GlueEmpty ==
  ASSUME NEW F \in Seq(Line), NEW P \in Texts
  PROVE  Glue(Append(F, <<>>), P) = F \o P /\ Glue(P, << <<>> >> \o F) = P \o F
<1>1. F \in Seq(Line) /\ <<>> \in Line /\ P \in Seq(Line) /\ P # <<>>
  BY LineFacts DEF Texts
<1>2. Front(Append(F, <<>>)) = F /\ Last(Append(F, <<>>)) = <<>>
  BY <1>1, AppendLast
<1>3. Head(<< <<>> >> \o F) = <<>> /\ Tail(<< <<>> >> \o F) = F
  BY <1>1, HeadTailOfCons
<1>4. /\ Front(P) \in Seq(Line) /\ Last(P) \in Line /\ P = Append(Front(P), Last(P))
      /\ Head(P) \in Line /\ Tail(P) \in Seq(Line) /\ P = <<Head(P)>> \o Tail(P)
  BY <1>1, FrontLast, HeadTail
<1>5. <<>> \o Head(P) = Head(P) /\ Last(P) \o <<>> = Last(P)
  BY <1>4, LineFacts
<1>6. <<Head(P)>> \in Seq(Line)
  BY <1>4
<1>7. (F \o <<Head(P)>>) \o Tail(P) = F \o (<<Head(P)>> \o Tail(P))
  BY <1>1, <1>4, <1>6, ConcatAssociative, SMTT(40)
<1>8. Front(P) \o <<Last(P)>> = Append(Front(P), Last(P))
  BY <1>4, AppendIsConcat
<1>9. Glue(Append(F, <<>>), P) = (F \o <<Head(P)>>) \o Tail(P)
  BY <1>2, <1>5 DEF Glue
<1>10. Glue(P, << <<>> >> \o F) = (Front(P) \o <<Last(P)>>) \o F
  BY <1>3, <1>5 DEF Glue
<1> QED BY <1>4, <1>7, <1>8, <1>9, <1>10

\* A text of one line only lengthens the last line of the other.
LEMMA GlueLine ==
  ASSUME NEW F \in Seq(Line), NEW l \in Line, NEW a \in Line
  PROVE  Glue(Append(F, l), <<a>>) = Append(F, l \o a)
<1>1. Front(Append(F, l)) = F /\ Last(Append(F, l)) = l
  BY AppendLast
<1>2. Head(<<a>>) = a /\ Tail(<<a>>) = <<>>
  OBVIOUS
<1>3. l \o a \in Line
  BY LineFacts
<1> DEFINE x == l \o a
<1> HIDE DEF x
<1>4. x \in Line /\ <<x>> \in Seq(Line)
  BY <1>3 DEF x
<1>5. F \o <<x>> \in Seq(Line) /\ F \o <<x>> = Append(F, x)
  BY <1>4, ConcatProperties, AppendIsConcat
<1>6. (F \o <<x>>) \o <<>> = F \o <<x>>
  BY <1>5, ConcatEmptySeq
<1> QED BY <1>1, <1>2, <1>5, <1>6 DEF Glue, x

-----------------------------------------------------------------------------
(* Lines, Unix, Join and Text step by step, and the lines of two texts.    *)

LF == INSTANCE SequenceFacts WITH Step <- LineStep, Base <- << <<>> >>
UF == INSTANCE SequenceFacts WITH Step <- UnixStep, Base <- <<>>
JF == INSTANCE SequenceFacts WITH Step <- JoinStep, Base <- <<>>
TF == INSTANCE SequenceFacts WITH Step <- TextStep, Base <- <<>>

\* strings.Split, one more character at a time.
LEMMA LinesStep ==
  /\ Lines(<<>>) = << <<>> >>
  /\ \A C : \A q \in Seq(C), c \in C : Lines(Append(q, c)) = LineStep(Lines(q), c)
<1>1. \A q : Lines(q) = LF!Fold(q)
  BY DEF Lines, LF!Fold, FoldLeft, LF!FoldLeft, MapThenFoldSet, LF!MapThenFoldSet, LineStep,
         Max, LF!Max
<1> QED BY <1>1, LF!FoldEmpty, LF!FoldAppend

\* strings.ReplaceAll of the carriage returns, one more character at a time.
LEMMA UnixSteps ==
  /\ Unix(<<>>) = <<>>
  /\ \A C : \A q \in Seq(C), c \in C : Unix(Append(q, c)) = UnixStep(Unix(q), c)
<1>1. \A q : Unix(q) = UF!Fold(q)
  BY DEF Unix, UF!Fold, FoldLeft, UF!FoldLeft, MapThenFoldSet, UF!MapThenFoldSet, UnixStep,
         Max, UF!Max
<1> QED BY <1>1, UF!FoldEmpty, UF!FoldAppend

JoinN(P) == FoldLeft(JoinStep, <<>>, P)

\* The text of lines, one more line at a time.
LEMMA JoinSteps ==
  /\ JoinN(<<>>) = <<>>
  /\ \A C : \A q \in Seq(C), c \in C : JoinN(Append(q, c)) = JoinN(q) \o <<"n">> \o c
<1>1. \A q : JoinN(q) = JF!Fold(q)
  BY DEF JoinN, JF!Fold, FoldLeft, JF!FoldLeft, MapThenFoldSet, JF!MapThenFoldSet, JoinStep,
         Max, JF!Max
<1> QED BY <1>1, JF!FoldEmpty, JF!FoldAppend DEF JoinStep

\* The lines that are not empty, one more line at a time.
LEMMA TextSteps ==
  /\ Text(<<>>) = <<>>
  /\ \A C : \A q \in Seq(C), c \in C :
       Text(Append(q, c)) = IF c = <<>> THEN Text(q) ELSE Append(Text(q), c)
<1>1. \A q : Text(q) = TF!Fold(q)
  BY DEF Text, TF!Fold, FoldLeft, TF!FoldLeft, MapThenFoldSet, TF!MapThenFoldSet, TextStep,
         Max, TF!Max
<1> QED BY <1>1, TF!FoldEmpty, TF!FoldAppend DEF TextStep

\* One more character makes of a list of lines a list of lines.
LEMMA LineStepType ==
  ASSUME NEW P \in Texts, NEW c \in Char
  PROVE  LineStep(P, c) \in Texts
<1>1. P \in Seq(Line) /\ P # <<>> /\ <<>> \in Line
  BY LineFacts DEF Texts
<1>2. CASE c = "n"
  <2>1. Append(P, <<>>) \in Seq(Line) /\ Append(P, <<>>) # <<>>
    BY <1>1, AppendProperties
  <2> QED BY <1>2, <2>1 DEF LineStep, Texts
<1>3. CASE c # "n"
  <2>1. Front(P) \in Seq(Line) /\ Last(P) \in Line
    BY <1>1, FrontLast
  <2>2. Append(Last(P), c) \in Line
    BY <1>3, <2>1, LineFacts
  <2>3. Append(Front(P), Append(Last(P), c)) \in Seq(Line)
        /\ Append(Front(P), Append(Last(P), c)) # <<>>
    BY <2>1, <2>2, AppendProperties
  <2> QED BY <1>3, <2>3 DEF LineStep, Texts
<1> QED BY <1>2, <1>3

\* Every text has at least one line, and no line has a line feed.
LEMMA LinesType == \A s \in Seq(Char) : Lines(s) \in Texts
<1> DEFINE T == {s \in Seq(Char) : Lines(s) \in Texts}
<1>1. <<>> \in T
  <2>1. <<>> \in Line /\ << <<>> >> # <<>>
    BY LineFacts
  <2>2. << <<>> >> \in Texts
    BY <2>1 DEF Texts
  <2> QED BY <2>2, LinesStep
<1>2. ASSUME NEW s \in Seq(Char), NEW c \in Char, s \in T PROVE Append(s, c) \in T
  <2>1. Lines(Append(s, c)) = LineStep(Lines(s), c)
    BY LinesStep
  <2>2. LineStep(Lines(s), c) \in Texts
    BY <1>2, LineStepType
  <2> QED BY <2>1, <2>2
<1>3. Seq(Char) \subseteq T
  <2> HIDE DEF T
  <2> QED BY <1>1, <1>2, LF!SeqSetInduction
<1> QED BY <1>3

\* One more character after the second text is one more after the whole.
LEMMA LineStepOfGlue ==
  ASSUME NEW P \in Texts, NEW Q \in Texts, NEW c \in Char
  PROVE  LineStep(Glue(P, Q), c) = Glue(P, LineStep(Q, c))
<1>1. /\ Q \in Seq(Line) /\ Q # <<>> /\ P \in Seq(Line) /\ P # <<>> /\ <<>> \in Line
      /\ Glue(P, Q) \in Seq(Line) /\ Glue(P, Q) # <<>>
  BY GlueType, LineFacts DEF Texts
<1>2. CASE c = "n"
  <2>1. << <<>> >> \in Seq(Line)
    BY <1>1
  <2>2. /\ Append(Q, <<>>) = Q \o << <<>> >>
        /\ Append(Glue(P, Q), <<>>) = Glue(P, Q) \o << <<>> >>
    BY <1>1, AppendIsConcat
  <2>3. Glue(P, Q \o << <<>> >>) = Glue(P, Q) \o << <<>> >>
    BY <2>1, GlueRight
  <2> QED BY <1>2, <2>2, <2>3 DEF LineStep
<1>3. CASE c # "n"
  <2>1. PICK F \in Seq(Line), l \in Line : Q = Append(F, l)
    BY <1>1, FrontLast
  <2>2. Append(l, c) \in Line
    BY <1>3, <2>1, LineFacts
  <2>3. LineStep(Q, c) = Append(F, Append(l, c))
    BY <1>3, <2>1, AppendLast DEF LineStep
  <2>4. CASE F = <<>>
    <3>1. PICK G \in Seq(Line), m \in Line : P = Append(G, m)
      BY <1>1, FrontLast
    <3>2. Q = <<l>> /\ LineStep(Q, c) = <<Append(l, c)>>
      BY <2>1, <2>3, <2>4
    <3>3. Glue(P, Q) = Append(G, m \o l)
      BY <3>1, <3>2, GlueLine
    <3>4. m \o l \in Line
      BY LineFacts
    <3>5. LineStep(Glue(P, Q), c) = Append(G, Append(m \o l, c))
      BY <1>3, <3>3, <3>4, AppendLast DEF LineStep
    <3>6. Glue(P, LineStep(Q, c)) = Append(G, m \o Append(l, c))
      BY <2>2, <3>1, <3>2, GlueLine
    <3>7. m \o Append(l, c) = Append(m \o l, c)
      BY <1>3, LineFacts
    <3> QED BY <3>5, <3>6, <3>7
  <2>5. CASE F # <<>>
    <3>1. F \in Texts /\ Glue(P, F) \in Seq(Line)
      BY <2>5, GlueType DEF Texts
    <3>2. <<l>> \in Seq(Line) /\ <<Append(l, c)>> \in Seq(Line)
      BY <2>1, <2>2
    <3>3. Q = F \o <<l>> /\ LineStep(Q, c) = F \o <<Append(l, c)>>
      BY <2>1, <2>2, <2>3, AppendIsConcat
    <3>4. Glue(P, Q) = Glue(P, F) \o <<l>>
      <4>1. Glue(P, F \o <<l>>) = Glue(P, F) \o <<l>>
        BY <3>1, <3>2, GlueRight
      <4> QED BY <3>3, <4>1
    <3>5. Glue(P, Q) = Append(Glue(P, F), l)
      BY <3>1, <3>4, AppendIsConcat
    <3>6. LineStep(Glue(P, Q), c) = Append(Glue(P, F), Append(l, c))
      BY <1>3, <3>1, <3>5, AppendLast DEF LineStep
    <3>7. Glue(P, LineStep(Q, c)) = Glue(P, F) \o <<Append(l, c)>>
      <4>1. Glue(P, F \o <<Append(l, c)>>) = Glue(P, F) \o <<Append(l, c)>>
        BY <3>1, <3>2, GlueRight
      <4> QED BY <3>3, <4>1
    <3>8. Append(Glue(P, F), Append(l, c)) = Glue(P, F) \o <<Append(l, c)>>
      BY <2>2, <3>1, AppendIsConcat
    <3> QED BY <3>6, <3>7, <3>8
  <2> QED BY <2>4, <2>5
<1> QED BY <1>2, <1>3

\* The lines of two texts are the lines of the first glued to those of the second.
LEMMA LinesOfConcat ==
  \A s, t \in Seq(Char) : Lines(s \o t) = Glue(Lines(s), Lines(t))
<1> SUFFICES ASSUME NEW s \in Seq(Char)
             PROVE  \A t \in Seq(Char) : Lines(s \o t) = Glue(Lines(s), Lines(t))
  OBVIOUS
<1> DEFINE T == {t \in Seq(Char) : Lines(s \o t) = Glue(Lines(s), Lines(t))}
<1>0. Lines(s) \in Texts
  BY LinesType
<1>1. <<>> \in T
  <2>1. s \o <<>> = s /\ <<>> \in Seq(Line) /\ <<>> \in Seq(Char)
    BY ConcatEmptySeq
  <2>2. << <<>> >> \o <<>> = << <<>> >> /\ Lines(s) \o <<>> = Lines(s)
    <3>1. << <<>> >> \in Seq(Line) /\ Lines(s) \in Seq(Line)
      BY <1>0, LineFacts DEF Texts
    <3> QED BY <3>1, ConcatEmptySeq
  <2>3. Glue(Lines(s), << <<>> >>) = Lines(s)
    BY <1>0, <2>1, <2>2, GlueEmpty
  <2> QED BY <2>1, <2>3, LinesStep
<1>2. ASSUME NEW t \in Seq(Char), NEW c \in Char, t \in T PROVE Append(t, c) \in T
  <2>1. s \o Append(t, c) = Append(s \o t, c) /\ s \o t \in Seq(Char) /\ Append(t, c) \in Seq(Char)
    BY ConcatAppend, AppendProperties
  <2>2. Lines(s \o Append(t, c)) = LineStep(Lines(s \o t), c)
    BY <2>1, LinesStep
  <2>3. Lines(Append(t, c)) = LineStep(Lines(t), c) /\ Lines(t) \in Texts
    BY LinesStep, LinesType
  <2>4. LineStep(Glue(Lines(s), Lines(t)), c) = Glue(Lines(s), LineStep(Lines(t), c))
    BY <1>0, <2>3, LineStepOfGlue
  <2> QED BY <1>2, <2>1, <2>2, <2>3, <2>4
<1>3. Seq(Char) \subseteq T
  <2> HIDE DEF T
  <2> QED BY <1>1, <1>2, LF!SeqSetInduction
<1> QED BY <1>3

-----------------------------------------------------------------------------
(* Join undoes Lines; Text of two lists.                                   *)

\* Every list of lines is the lines of a text.
LEMMA LinesOfLine == \A a \in Line : a \in Seq(Char) /\ Lines(a) = <<a>>
<1> DEFINE N == Char \ {"n"}
           T == {a \in Seq(N) : a \in Seq(Char) /\ Lines(a) = <<a>>}
<1>1. <<>> \in T
  <2>1. <<>> \in Seq(N) /\ <<>> \in Seq(Char)
    OBVIOUS
  <2> QED BY <2>1, LinesStep
<1>2. ASSUME NEW a \in Seq(N), NEW c \in N, a \in T PROVE Append(a, c) \in T
  <2>1. /\ c \in Char /\ a \in Seq(Char) /\ a \in Line
        /\ Append(a, c) \in Seq(Char) /\ Append(a, c) \in Seq(N)
    BY <1>2, AppendProperties DEF Line
  <2>2. Lines(Append(a, c)) = LineStep(<<a>>, c)
    BY <1>2, <2>1, LinesStep
  <2>3. Append(<<>>, a) = <<a>> /\ Append(<<>>, Append(a, c)) = <<Append(a, c)>>
    OBVIOUS
  <2>4. Front(<<a>>) = <<>> /\ Last(<<a>>) = a
    <3>1. <<>> \in Seq(Line)
      OBVIOUS
    <3> QED BY <2>1, <2>3, <3>1, AppendLast, ZenonT(40)
  <2>5. LineStep(<<a>>, c) = <<Append(a, c)>>
    BY <2>3, <2>4 DEF LineStep
  <2> QED BY <2>1, <2>2, <2>5
<1>3. Seq(N) \subseteq T
  <2> HIDE DEF T, N
  <2> QED BY <1>1, <1>2, LF!SeqSetInduction
<1> QED BY <1>3 DEF Line

\* Every list of lines is what Lines makes of some text.
LEMMA LinesOnto == \A P \in Texts : \E s \in Seq(Char) : Lines(s) = P
<1> DEFINE T == {P \in Seq(Line) : P # <<>> => \E s \in Seq(Char) : Lines(s) = P}
<1>1. <<>> \in T
  OBVIOUS
<1>2. ASSUME NEW P \in Seq(Line), NEW a \in Line, P \in T PROVE Append(P, a) \in T
  <2>1. Append(P, a) \in Seq(Line) /\ a \in Seq(Char) /\ Lines(a) = <<a>>
    BY AppendProperties, LinesOfLine
  <2>2. CASE P = <<>>
    <3>1. Append(P, a) = <<a>>
      BY <2>2
    <3> QED BY <2>1, <3>1
  <2>3. CASE P # <<>>
    <3>1. PICK s \in Seq(Char) : Lines(s) = P
      BY <1>2, <2>3
    <3>2. Append(s, "n") \in Seq(Char) /\ "n" \in Char
      BY AppendProperties, ContentsAssumption
    <3>3. Lines(Append(s, "n")) = Append(P, <<>>)
      BY <3>1, <3>2, LinesStep DEF LineStep
    <3>4. Append(s, "n") \o a \in Seq(Char)
      BY <2>1, <3>2, ConcatProperties
    <3>5. Lines(Append(s, "n") \o a) = Glue(Append(P, <<>>), <<a>>)
      BY <2>1, <3>2, <3>3, LinesOfConcat
    <3>6. <<a>> \in Texts
      <4>1. <<a>> \in Seq(Line) /\ <<a>> # <<>>
        OBVIOUS
      <4> QED BY <4>1 DEF Texts
    <3>7. Glue(Append(P, <<>>), <<a>>) = P \o <<a>>
      BY <3>6, GlueEmpty
    <3>8. P \o <<a>> = Append(P, a)
      BY AppendIsConcat
    <3> QED BY <2>1, <3>4, <3>5, <3>7, <3>8
  <2> QED BY <2>2, <2>3
<1>3. Seq(Line) \subseteq T
  <2> HIDE DEF T
  <2> QED BY <1>1, <1>2, LF!SeqSetInduction
<1> QED BY <1>3 DEF Texts

\* It does not matter which of three texts are glued first.
LEMMA GlueAssociative ==
  ASSUME NEW P \in Texts, NEW X \in Texts, NEW Q \in Texts
  PROVE  Glue(Glue(P, X), Q) = Glue(P, Glue(X, Q))
<1>1. PICK p \in Seq(Char) : Lines(p) = P
  BY LinesOnto
<1>2. PICK x \in Seq(Char) : Lines(x) = X
  BY LinesOnto
<1>3. PICK q \in Seq(Char) : Lines(q) = Q
  BY LinesOnto
<1>4. p \o x \in Seq(Char) /\ x \o q \in Seq(Char)
  BY ConcatProperties
<1>5. (p \o x) \o q = p \o (x \o q)
  BY ConcatAssociative
<1>6. Lines((p \o x) \o q) = Glue(Glue(P, X), Q)
  BY <1>1, <1>2, <1>3, <1>4, LinesOfConcat
<1>7. Lines(p \o (x \o q)) = Glue(P, Glue(X, Q))
  BY <1>1, <1>2, <1>3, <1>4, LinesOfConcat
<1> QED BY <1>5, <1>6, <1>7

\* The text of lines is a text.
LEMMA JoinNType == \A P \in Seq(Line) : JoinN(P) \in Seq(Char)
<1> DEFINE T == {P \in Seq(Line) : JoinN(P) \in Seq(Char)}
<1>1. <<>> \in T
  <2>1. <<>> \in Seq(Line) /\ <<>> \in Seq(Char)
    OBVIOUS
  <2> QED BY <2>1, JoinSteps
<1>2. ASSUME NEW P \in Seq(Line), NEW a \in Line, P \in T PROVE Append(P, a) \in T
  <2>1. Append(P, a) \in Seq(Line) /\ a \in Seq(Char) /\ <<"n">> \in Seq(Char)
    BY AppendProperties, LinesOfLine, ContentsAssumption
  <2>2. JoinN(P) \o <<"n">> \in Seq(Char)
    BY <1>2, <2>1, ConcatProperties
  <2>3. (JoinN(P) \o <<"n">>) \o a \in Seq(Char)
    BY <2>1, <2>2, ConcatProperties
  <2>4. JoinN(Append(P, a)) = JoinN(P) \o <<"n">> \o a
    BY JoinSteps
  <2> QED BY <2>1, <2>3, <2>4
<1>3. Seq(Line) \subseteq T
  <2> HIDE DEF T
  <2> QED BY <1>1, <1>2, LF!SeqSetInduction
<1> QED BY <1>3

\* What Lines splits, Join puts together.
LEMMA JoinNOfLines == \A s \in Seq(Char) : JoinN(Lines(s)) = <<"n">> \o s
<1> DEFINE T == {s \in Seq(Char) : JoinN(Lines(s)) = <<"n">> \o s}
<1>0. <<>> \in Seq(Line) /\ <<>> \in Line /\ <<>> \in Seq(Char) /\ <<"n">> \in Seq(Char)
  BY LineFacts, ContentsAssumption
<1>1. <<>> \in T
  <2>1. << <<>> >> = Append(<<>>, <<>>)
    OBVIOUS
  <2>2. JoinN(Append(<<>>, <<>>)) = <<>> \o <<"n">> \o <<>>
    BY <1>0, JoinSteps
  <2>3. <<>> \o <<"n">> = <<"n">>
    BY <1>0, ConcatEmptySeq
  <2> QED BY <1>0, <2>1, <2>2, <2>3, LinesStep
<1>2. ASSUME NEW s \in Seq(Char), NEW c \in Char, s \in T PROVE Append(s, c) \in T
  <2>1. Lines(s) \in Seq(Line) /\ Lines(s) # <<>>
    BY LinesType DEF Texts
  <2>2. Lines(Append(s, c)) = LineStep(Lines(s), c)
    BY LinesStep
  <2>3. /\ <<"n">> \o Append(s, c) = Append(<<"n">> \o s, c) /\ <<"n">> \o s \in Seq(Char)
        /\ Append(s, c) \in Seq(Char)
    BY <1>0, ConcatAppend, AppendProperties
  <2>4. CASE c = "n"
    <3>1. JoinN(Append(Lines(s), <<>>)) = (<<"n">> \o s) \o <<"n">> \o <<>>
      BY <1>0, <1>2, <2>1, JoinSteps
    <3>2. (<<"n">> \o s) \o <<"n">> = Append(<<"n">> \o s, "n")
      BY <2>3, AppendIsConcat, ContentsAssumption
    <3>3. ((<<"n">> \o s) \o <<"n">>) \o <<>> = (<<"n">> \o s) \o <<"n">>
      <4>1. (<<"n">> \o s) \o <<"n">> \in Seq(Char)
        BY <1>0, <2>3, ConcatProperties
      <4> QED BY <4>1, ConcatEmptySeq
    <3> QED BY <2>2, <2>3, <2>4, <3>1, <3>2, <3>3 DEF LineStep
  <2>5. CASE c # "n"
    <3>1. PICK F \in Seq(Line), l \in Line : Lines(s) = Append(F, l)
      BY <2>1, FrontLast
    <3>2. Append(l, c) \in Line /\ l \in Seq(Char)
      BY <2>5, LineFacts, LinesOfLine
    <3>3. Lines(Append(s, c)) = Append(F, Append(l, c))
      BY <2>2, <2>5, <3>1, AppendLast DEF LineStep
    <3>4. JoinN(Lines(s)) = JoinN(F) \o <<"n">> \o l
      BY <3>1, JoinSteps
    <3>5. JoinN(Lines(Append(s, c))) = JoinN(F) \o <<"n">> \o Append(l, c)
      BY <3>2, <3>3, JoinSteps
    <3>6. JoinN(F) \in Seq(Char)
      BY JoinNType
    <3>7. JoinN(F) \o <<"n">> \in Seq(Char)
      BY <1>0, <3>6, ConcatProperties
    <3>8. (JoinN(F) \o <<"n">>) \o Append(l, c) = Append((JoinN(F) \o <<"n">>) \o l, c)
      BY <3>2, <3>7, ConcatAppend
    <3> QED BY <1>2, <2>3, <3>4, <3>5, <3>8
  <2> QED BY <2>4, <2>5
<1>3. Seq(Char) \subseteq T
  <2> HIDE DEF T
  <2> QED BY <1>1, <1>2, LF!SeqSetInduction
<1> QED BY <1>3

\* Join undoes Lines.
LEMMA JoinOfLines == \A s \in Seq(Char) : Join(Lines(s)) = s
<1>1. "n" \in Char
  BY ContentsAssumption
<1>2. \A s \in Seq(Char) : Tail(<<"n">> \o s) = s
  BY <1>1, HeadTailOfCons
<1> QED BY <1>2, JoinNOfLines DEF Join, JoinN

\* The text of two lists of lines glued is the one text after the other.
LEMMA JoinOfGlue ==
  ASSUME NEW P \in Texts, NEW Q \in Texts
  PROVE  Join(P) \in Seq(Char) /\ Join(Glue(P, Q)) = Join(P) \o Join(Q)
<1>1. PICK p \in Seq(Char) : Lines(p) = P
  BY LinesOnto
<1>2. PICK q \in Seq(Char) : Lines(q) = Q
  BY LinesOnto
<1>3. p \o q \in Seq(Char)
  BY ConcatProperties
<1>4. Join(P) = p /\ Join(Q) = q
  BY <1>1, <1>2, JoinOfLines
<1>5. Lines(p \o q) = Glue(P, Q)
  BY <1>1, <1>2, LinesOfConcat
<1>6. Join(Glue(P, Q)) = p \o q
  BY <1>3, <1>5, JoinOfLines
<1> QED BY <1>4, <1>6

\* The lines of two lists that are not empty are those of the first and those of the second.
LEMMA TextOfConcat ==
  \A P, Q \in Seq(Line) : Text(P) \in Seq(Line) /\ Text(P \o Q) = Text(P) \o Text(Q)
<1> DEFINE U == {P \in Seq(Line) : Text(P) \in Seq(Line)}
<1>1. <<>> \in U
  <2>1. <<>> \in Seq(Line)
    OBVIOUS
  <2> QED BY <2>1, TextSteps
<1>2. ASSUME NEW P \in Seq(Line), NEW a \in Line, P \in U PROVE Append(P, a) \in U
  <2>1. Append(P, a) \in Seq(Line) /\ Append(Text(P), a) \in Seq(Line)
    BY <1>2, AppendProperties
  <2>2. Text(Append(P, a)) = IF a = <<>> THEN Text(P) ELSE Append(Text(P), a)
    BY TextSteps
  <2> QED BY <1>2, <2>1, <2>2
<1>3. Seq(Line) \subseteq U
  <2> HIDE DEF U
  <2> QED BY <1>1, <1>2, LF!SeqSetInduction
<1>4. \A P \in Seq(Line) : Text(P) \in Seq(Line)
  BY <1>3
<1>5. ASSUME NEW P \in Seq(Line)
      PROVE  \A Q \in Seq(Line) : Text(P \o Q) = Text(P) \o Text(Q)
  <2> DEFINE T == {Q \in Seq(Line) : Text(P \o Q) = Text(P) \o Text(Q)}
  <2>1. <<>> \in T
    <3>1. P \o <<>> = P /\ Text(P) \o <<>> = Text(P) /\ <<>> \in Seq(Line)
      BY <1>4, ConcatEmptySeq
    <3> QED BY <3>1, TextSteps
  <2>2. ASSUME NEW Q \in Seq(Line), NEW a \in Line, Q \in T PROVE Append(Q, a) \in T
    <3>1. /\ P \o Append(Q, a) = Append(P \o Q, a) /\ P \o Q \in Seq(Line)
          /\ Text(P) \o Append(Text(Q), a) = Append(Text(P) \o Text(Q), a)
          /\ Append(Q, a) \in Seq(Line)
      BY <1>4, ConcatAppend, AppendProperties, SMTT(40)
    <3>2. Text(Append(P \o Q, a)) = IF a = <<>> THEN Text(P \o Q) ELSE Append(Text(P \o Q), a)
      BY <3>1, TextSteps
    <3>3. Text(Append(Q, a)) = IF a = <<>> THEN Text(Q) ELSE Append(Text(Q), a)
      BY TextSteps
    <3> QED BY <2>2, <3>1, <3>2, <3>3
  <2>3. Seq(Line) \subseteq T
    <3> HIDE DEF T
    <3> QED BY <2>1, <2>2, LF!SeqSetInduction
  <2> QED BY <2>3
<1> QED BY <1>4, <1>5

-----------------------------------------------------------------------------
(* Unix keeps what has no carriage return; Index finds what is there.      *)

\* A text without the carriage returns of its line ends is a text.
LEMMA UnixType == \A s \in Seq(Char) : Unix(s) \in Seq(Char)
<1> DEFINE T == {s \in Seq(Char) : Unix(s) \in Seq(Char)}
<1>1. <<>> \in T
  <2>1. <<>> \in Seq(Char)
    OBVIOUS
  <2> QED BY <2>1, UnixSteps
<1>2. ASSUME NEW s \in Seq(Char), NEW c \in Char, s \in T PROVE Append(s, c) \in T
  <2>1. Append(s, c) \in Seq(Char) /\ Unix(Append(s, c)) = UnixStep(Unix(s), c)
    BY AppendProperties, UnixSteps
  <2>2. Append(Unix(s), c) \in Seq(Char)
    BY <1>2, AppendProperties
  <2>3. CASE Unix(s) # <<>>
    <3>1. Front(Unix(s)) \in Seq(Char)
      BY <1>2, <2>3, FrontLast
    <3>2. Append(Front(Unix(s)), c) \in Seq(Char)
      BY <3>1, AppendProperties
    <3> QED BY <2>1, <2>2, <3>2 DEF UnixStep
  <2> QED BY <2>1, <2>2, <2>3 DEF UnixStep
<1>3. Seq(Char) \subseteq T
  <2> HIDE DEF T
  <2> QED BY <1>1, <1>2, LF!SeqSetInduction
<1> QED BY <1>3

\* A text without carriage return is left as it is, at the end of a log ...
LEMMA UnixKeepsEnd ==
  ASSUME NEW a \in Seq(Char)
  PROVE  \A m \in Seq(Char \ {"r"}) :
           m \in Seq(Char) /\ \E A \in Seq(Char) : Unix(a \o m) = A \o m
<1> DEFINE N == Char \ {"r"}
           T == {m \in Seq(N) : m \in Seq(Char) /\ \E A \in Seq(Char) : Unix(a \o m) = A \o m}
<1>1. <<>> \in T
  <2>1. <<>> \in Seq(N) /\ <<>> \in Seq(Char)
    OBVIOUS
  <2>2. a \o <<>> = a /\ Unix(a) \in Seq(Char) /\ Unix(a) \o <<>> = Unix(a)
    BY UnixType, ConcatEmptySeq
  <2> QED BY <2>1, <2>2
<1>2. ASSUME NEW m \in Seq(N), NEW c \in N, m \in T PROVE Append(m, c) \in T
  <2>1. PICK A \in Seq(Char) : Unix(a \o m) = A \o m
    BY <1>2
  <2>2. m \in Seq(Char) /\ c \in Char /\ c # "r" /\ Append(m, c) \in Seq(N)
    BY <1>2, AppendProperties
  <2>3. /\ a \o m \in Seq(Char) /\ a \o Append(m, c) = Append(a \o m, c)
        /\ Append(m, c) \in Seq(Char)
        /\ A \o m \in Seq(Char) /\ A \o Append(m, c) = Append(A \o m, c)
    BY <2>2, ConcatAppend, AppendProperties
  <2>4. Unix(a \o Append(m, c)) = UnixStep(A \o m, c)
    BY <2>1, <2>2, <2>3, UnixSteps
  <2>5. CASE c = "n" /\ A \o m # <<>> /\ Last(A \o m) = "r"
    <3>1. m = <<>>
      <4> SUFFICES ASSUME m # <<>> PROVE FALSE
        OBVIOUS
      <4>1. Last(m) \in N
        BY FrontLast
      <4>2. Last(A \o m) = Last(m)
        BY <2>2, FrontLastOfConcat
      <4> QED BY <2>5, <4>1, <4>2
    <3>2. A \o m = A
      BY <3>1, ConcatEmptySeq
    <3>3. A # <<>>
      BY <2>5, <3>2
    <3>4. Front(A) \in Seq(Char)
      BY <3>3, FrontLast
    <3>5. Unix(a \o Append(m, c)) = Append(Front(A), c)
      BY <2>4, <2>5, <3>2 DEF UnixStep
    <3>6. Append(Front(A), c) = Front(A) \o <<c>> /\ Append(m, c) = <<c>>
      BY <2>2, <3>1, <3>4, AppendIsConcat
    <3> QED BY <2>2, <2>3, <3>4, <3>5, <3>6
  <2>6. CASE ~ (c = "n" /\ A \o m # <<>> /\ Last(A \o m) = "r")
    <3>1. Unix(a \o Append(m, c)) = Append(A \o m, c)
      BY <2>4, <2>6 DEF UnixStep
    <3>2. Unix(a \o Append(m, c)) = A \o Append(m, c)
      BY <2>3, <3>1
    <3> QED BY <2>2, <2>3, <3>2
  <2> QED BY <2>5, <2>6
<1>3. Seq(N) \subseteq T
  <2> HIDE DEF T, N
  <2> QED BY <1>1, <1>2, LF!SeqSetInduction
<1> QED BY <1>3

\* ... and inside it.
LEMMA UnixKeeps ==
  ASSUME NEW a \in Seq(Char), NEW m \in Seq(Char \ {"r"}), NEW b \in Seq(Char)
  PROVE  \E A, B \in Seq(Char) : Unix((a \o m) \o b) = (A \o m) \o B
<1> DEFINE T == {t \in Seq(Char) : \E A, B \in Seq(Char) : Unix((a \o m) \o t) = (A \o m) \o B}
<1>0. <<>> \in Seq(Char) /\ m \in Seq(Char) /\ a \o m \in Seq(Char)
  BY UnixKeepsEnd, ConcatProperties
<1>1. <<>> \in T
  <2>1. PICK A \in Seq(Char) : Unix(a \o m) = A \o m
    BY UnixKeepsEnd
  <2>2. A \o m \in Seq(Char)
    BY <1>0, ConcatProperties
  <2>3. (a \o m) \o <<>> = a \o m /\ (A \o m) \o <<>> = A \o m
    BY <1>0, <2>2, ConcatEmptySeq
  <2> QED BY <1>0, <2>1, <2>3
<1>2. ASSUME NEW t \in Seq(Char), NEW c \in Char, t \in T PROVE Append(t, c) \in T
  <2>1. PICK A \in Seq(Char), B \in Seq(Char) : Unix((a \o m) \o t) = (A \o m) \o B
    BY <1>2
  <2>2. /\ A \o m \in Seq(Char) /\ (a \o m) \o t \in Seq(Char) /\ (A \o m) \o B \in Seq(Char)
        /\ Append(t, c) \in Seq(Char)
    BY <1>0, ConcatProperties, AppendProperties
  <2>3. /\ (a \o m) \o Append(t, c) = Append((a \o m) \o t, c)
        /\ (A \o m) \o Append(B, c) = Append((A \o m) \o B, c)
        /\ Append(B, c) \in Seq(Char)
    <3>1. (a \o m) \o Append(t, c) = Append((a \o m) \o t, c)
      BY <1>0, ConcatAppend, SMTT(40)
    <3>2. (A \o m) \o Append(B, c) = Append((A \o m) \o B, c)
      BY <2>2, ConcatAppend, SMTT(40)
    <3>3. Append(B, c) \in Seq(Char)
      BY AppendProperties
    <3> QED BY <3>1, <3>2, <3>3
  <2>4. Unix((a \o m) \o Append(t, c)) = UnixStep((A \o m) \o B, c)
    BY <2>1, <2>2, <2>3, UnixSteps
  <2>5. CASE m = <<>>
    <3> DEFINE u == Unix((a \o m) \o Append(t, c))
    <3>1. (a \o m) \o Append(t, c) \in Seq(Char)
      BY <1>0, <2>2, ConcatProperties
    <3>2. u \in Seq(Char)
      BY <3>1, UnixType
    <3>3. u \o m = u /\ u \o <<>> = u
      BY <2>5, <3>2, ConcatEmptySeq
    <3>4. u = (u \o m) \o <<>>
      BY <3>3
    <3> QED BY <1>0, <2>2, <3>2, <3>4
  <2>6. CASE m # <<>> /\ c = "n" /\ (A \o m) \o B # <<>> /\ Last((A \o m) \o B) = "r"
    <3>1. B # <<>>
      <4> SUFFICES ASSUME B = <<>> PROVE FALSE
        OBVIOUS
      <4>1. Last(m) \in Char \ {"r"}
        BY <2>6, FrontLast
      <4>2. Last(A \o m) = Last(m)
        BY <1>0, <2>6, FrontLastOfConcat
      <4>3. (A \o m) \o B = A \o m
        BY <2>2, ConcatEmptySeq
      <4> QED BY <2>6, <4>1, <4>2, <4>3
    <3>2. Front(B) \in Seq(Char) /\ Front((A \o m) \o B) = (A \o m) \o Front(B)
      BY <2>2, <3>1, FrontLast, FrontLastOfConcat
    <3>3. Unix((a \o m) \o Append(t, c)) = Append((A \o m) \o Front(B), c)
      BY <2>4, <2>6, <3>2 DEF UnixStep
    <3>4. /\ Append((A \o m) \o Front(B), c) = (A \o m) \o Append(Front(B), c)
          /\ Append(Front(B), c) \in Seq(Char)
      <4>1. Append(Front(B), c) \in Seq(Char)
        BY <3>2, AppendProperties
      <4>2. (A \o m) \o Append(Front(B), c) = Append((A \o m) \o Front(B), c)
        <5> DEFINE f == Front(B)
        <5>1. f \in Seq(Char) /\ A \o m \in Seq(Char) /\ c \in Char
          BY <2>2, <3>2
        <5> HIDE DEF f
        <5>2. (A \o m) \o Append(f, c) = Append((A \o m) \o f, c)
          BY <5>1, ConcatAppend, SMTT(40)
        <5> QED BY <5>2 DEF f
      <4> QED BY <4>1, <4>2
    <3>5. Unix((a \o m) \o Append(t, c)) = (A \o m) \o Append(Front(B), c)
      BY <3>3, <3>4
    <3> QED BY <2>2, <3>4, <3>5
  <2>7. CASE ~ (c = "n" /\ (A \o m) \o B # <<>> /\ Last((A \o m) \o B) = "r")
    <3>1. Unix((a \o m) \o Append(t, c)) = Append((A \o m) \o B, c)
      BY <2>4, <2>7 DEF UnixStep
    <3>2. Unix((a \o m) \o Append(t, c)) = (A \o m) \o Append(B, c)
      BY <2>3, <3>1
    <3> QED BY <2>2, <2>3, <3>2
  <2> QED BY <2>5, <2>6, <2>7
<1>3. Seq(Char) \subseteq T
  <2> HIDE DEF T
  <2> QED BY <1>1, <1>2, LF!SeqSetInduction
<1> QED BY <1>3

-----------------------------------------------------------------------------
\* What Index finds is there, and it finds what is there.
LEMMA IndexFound ==
  ASSUME NEW s \in Seq(Char), NEW sub \in Seq(Char), Index(s, sub) # -1
  PROVE  /\ Index(s, sub) \in 0..(Len(s) - Len(sub))
         /\ SubSeq(s, Index(s, sub) + 1, Index(s, sub) + Len(sub)) = sub
<1> DEFINE at == {i \in 0..(Len(s) - Len(sub)) : SubSeq(s, i + 1, i + Len(sub)) = sub}
           k == CHOOSE i \in at : \A j \in at : i <= j
<1>1. at # {} /\ Index(s, sub) = k
  BY DEF Index
<1>2. at \subseteq Nat
  BY LenProperties
<1>3. \E i \in at : \A j \in at : i <= j
  <2> HIDE DEF at
  <2> QED BY <1>1, <1>2, LF!LeastNumber
<1>4. k \in at
  <2> HIDE DEF at
  <2> QED BY <1>3
<1> QED BY <1>1, <1>4

\* What is in the middle of a sequence is found at its place.
LEMMA MiddleOf ==
  ASSUME NEW L, NEW a \in Seq(L), NEW m \in Seq(L), NEW b \in Seq(L)
  PROVE  /\ SubSeq((a \o m) \o b, Len(a) + 1, Len(a) + Len(m)) = m
         /\ Len(a) \in 0..Len((a \o m) \o b) /\ Len(a) + Len(m) \in 0..Len((a \o m) \o b)
<1> DEFINE s == (a \o m) \o b
           i == Len(a)
<1>1. /\ a \o m \in Seq(L) /\ Len(a) \in Nat /\ Len(m) \in Nat /\ Len(b) \in Nat
      /\ Len(a \o m) = Len(a) + Len(m)
  BY ConcatProperties, LenProperties
<1>2. Len(s) = Len(a \o m) + Len(b)
  BY <1>1, ConcatProperties
<1>3. SubSeq(s, i + 1, i + Len(m)) = m
  <2>1. CASE m = <<>>
    <3>1. i + Len(m) = i /\ i + Len(m) \in Int /\ i + 1 \in Int /\ i + Len(m) < i + 1
      BY <1>1, <2>1
    <3>2. SubSeq(s, i + 1, i + Len(m)) = <<>>
      <4> HIDE DEF s
      <4> QED BY <3>1, SubSeqEmpty
    <3> QED BY <2>1, <3>2
  <2>2. CASE m # <<>>
    <3>1. Len(m) > 0
      BY <1>1, <2>2, EmptySeq
    <3>2. i + 1 \in 1..Len(a \o m) /\ i + Len(m) \in 1..Len(a \o m)
      BY <1>1, <3>1
    <3>3. SubSeq(s, i + 1, i + Len(m)) = SubSeq(a \o m, i + 1, i + Len(m))
      BY <1>1, <3>2, SubSeqOfConcat1
    <3>4. /\ i + 1 \in Len(a) + 1 .. Len(a) + Len(m)
          /\ i + Len(m) \in Len(a) + 1 .. Len(a) + Len(m)
      BY <1>1, <3>1
    <3>5. SubSeq(a \o m, i + 1, i + Len(m)) = SubSeq(m, i + 1 - Len(a), i + Len(m) - Len(a))
      BY <3>4, SubSeqOfConcat2
    <3>6. i + 1 - Len(a) = 1 /\ i + Len(m) - Len(a) = Len(m)
      BY <1>1
    <3> QED BY <3>3, <3>5, <3>6, SubSeqFull
  <2> QED BY <2>1, <2>2
<1> HIDE DEF s
<1>4. Len(a) \in 0..Len(s) /\ Len(a) + Len(m) \in 0..Len(s)
  BY <1>1, <1>2
<1> QED BY <1>3, <1>4 DEF s

\* strings.Index finds a text that is there.
LEMMA IndexFinds ==
  ASSUME NEW a \in Seq(Char), NEW sub \in Seq(Char), NEW b \in Seq(Char)
  PROVE  Index((a \o sub) \o b, sub) # -1
<1> DEFINE s == (a \o sub) \o b
           i == Len(a)
<1>1. /\ s \in Seq(Char) /\ a \o sub \in Seq(Char)
      /\ Len(a) \in Nat /\ Len(sub) \in Nat /\ Len(b) \in Nat
      /\ Len(a \o sub) = Len(a) + Len(sub) /\ Len(s) = Len(a) + Len(sub) + Len(b)
  BY ConcatProperties, LenProperties
<1>2. i \in 0..(Len(s) - Len(sub))
  BY <1>1
<1>3. SubSeq(s, i + 1, i + Len(sub)) = sub
  BY MiddleOf
<1> DEFINE at == {j \in 0..(Len(s) - Len(sub)) : SubSeq(s, j + 1, j + Len(sub)) = sub}
<1>4. i \in at
  BY <1>2, <1>3
<1>5. at # {}
  <2> HIDE DEF at
  <2> QED BY <1>4
<1>6. Index(s, sub) = CHOOSE j \in at : \A k \in at : j <= k
  <2> HIDE DEF s
  <2> QED BY <1>5 DEF Index
<1>7. at \subseteq Nat
  BY <1>1
<1>8. \E j \in at : \A k \in at : j <= k
  <2> HIDE DEF at
  <2> QED BY <1>5, <1>7, LF!LeastNumber
<1>9. Index(s, sub) \in at
  <2> HIDE DEF at
  <2> QED BY <1>6, <1>8
<1>10. Index(s, sub) \in Nat
  BY <1>7, <1>9
<1> QED BY <1>10

\* The log is what is before the match, the match, and what is after it.
LEMMA IndexSplits ==
  ASSUME NEW s \in Seq(Char), NEW sub \in Seq(Char), NEW at, at = Index(s, sub), at # -1
  PROVE  LET before == SubSeq(s, 1, at)
             after  == SubSeq(s, at + Len(sub) + 1, Len(s))
         IN  /\ at \in Nat /\ at + Len(sub) \in 0..Len(s) /\ Len(s) \in Nat /\ Len(sub) \in Nat
             /\ before \in Seq(Char) /\ after \in Seq(Char)
             /\ s = (before \o sub) \o after
<1>1. Len(s) \in Nat /\ Len(sub) \in Nat
  BY LenProperties
<1>2. at \in 0..(Len(s) - Len(sub)) /\ SubSeq(s, at + 1, at + Len(sub)) = sub
  BY IndexFound
<1>3. at \in Nat /\ at + Len(sub) \in 0..Len(s) /\ at <= at + Len(sub)
  <2> DEFINE whole == Len(s)
             part  == Len(sub)
  <2>1. at \in 0..(whole - part)
    BY <1>2
  <2>2. whole \in Nat /\ part \in Nat
    BY <1>1
  <2> HIDE DEF whole, part
  <2>3. at \in Nat /\ at + part \in 0..whole /\ at <= at + part
    BY <2>1, <2>2
  <2> QED BY <2>3 DEF whole, part
<1> DEFINE e == at + Len(sub)
<1>4. e \in Nat /\ at \in Nat /\ at <= e /\ e <= Len(s) /\ SubSeq(s, at + 1, e) = sub
  BY <1>1, <1>2, <1>3
<1> HIDE DEF e
<1>5. SubSeq(s, 1, at) \o SubSeq(s, at + 1, e) = SubSeq(s, 1, e)
  <2>1. 1 \in 1..(Len(s) + 1) /\ at \in (1 - 1)..Len(s) /\ e \in at..Len(s)
    BY <1>1, <1>4
  <2> QED BY <2>1, ConcatAdjacentSubSeq
<1>6. SubSeq(s, 1, e) \o SubSeq(s, e + 1, Len(s)) = SubSeq(s, 1, Len(s))
  <2>1. 1 \in 1..(Len(s) + 1) /\ e \in (1 - 1)..Len(s) /\ Len(s) \in e..Len(s)
    BY <1>1, <1>4
  <2> QED BY <2>1, ConcatAdjacentSubSeq
<1>7. SubSeq(s, 1, Len(s)) = s
  BY SubSeqFull
<1>8. SubSeq(s, 1, at) \in Seq(Char) /\ SubSeq(s, e + 1, Len(s)) \in Seq(Char)
  <2>1. \A i \in 1..at : s[i] \in Char
    BY <1>1, <1>4, ElementOfSeq
  <2>2. \A i \in (e + 1)..Len(s) : s[i] \in Char
    BY <1>1, <1>4, ElementOfSeq
  <2> QED BY <1>1, <1>4, <2>1, <2>2, SubSeqProperties
<1>9. s = (SubSeq(s, 1, at) \o sub) \o SubSeq(s, e + 1, Len(s))
  BY <1>4, <1>5, <1>6, <1>7
<1> QED BY <1>1, <1>3, <1>8, <1>9 DEF e

-----------------------------------------------------------------------------
(* The lines that are left out, before the match and after it.             *)

\* Gluing makes one line of two.
LEMMA GlueLen ==
  ASSUME NEW P \in Texts, NEW Q \in Texts
  PROVE  /\ Len(P) \in Nat \ {0} /\ Len(Q) \in Nat \ {0}
         /\ Len(Glue(P, Q)) = Len(P) + Len(Q) - 1
<1> DEFINE x == Last(P) \o Head(Q)
           F == Front(P)
           T == Tail(Q)
<1>1. /\ F \in Seq(Line) /\ Last(P) \in Line /\ P = Append(F, Last(P))
      /\ T \in Seq(Line) /\ Head(Q) \in Line /\ x \in Line
  BY FrontLast, HeadTail, LineFacts DEF Texts
<1>2. Len(P) = Len(F) + 1 /\ Len(F) \in Nat
  BY <1>1, AppendProperties, LenProperties
<1>3. Len(T) = Len(Q) - 1 /\ Len(Q) \in Nat \ {0}
  BY HeadTailProperties, EmptySeq DEF Texts
<1> HIDE DEF x, F, T
<1>4. <<x>> \in Seq(Line) /\ Len(<<x>>) = 1
  BY <1>1
<1>5. F \o <<x>> \in Seq(Line) /\ Len(F \o <<x>>) = Len(F) + 1
  BY <1>1, <1>4, ConcatProperties
<1>6. Len((F \o <<x>>) \o T) = Len(F \o <<x>>) + Len(T)
  BY <1>1, <1>5, ConcatProperties
<1>7. Glue(P, Q) = (F \o <<x>>) \o T
  BY DEF Glue, x, F, T
<1> QED BY <1>2, <1>3, <1>5, <1>6, <1>7

\* The last lines of a list, and what they are the end of.
LEMMA LastNFacts ==
  ASSUME NEW L, NEW P \in Seq(L), NEW n \in Nat
  PROVE  /\ LastN(P, n) \in Seq(L) /\ Len(P) \in Nat
         /\ Len(LastN(P, n)) = Least(Len(P), n)
         /\ SubSeq(P, 1, Most(Len(P) - n, 0)) \in Seq(L)
         /\ P = SubSeq(P, 1, Most(Len(P) - n, 0)) \o LastN(P, n)
<1> DEFINE l == Len(P)
           d == Most(l - n, 0)
<1>1. l \in Nat
  BY LenProperties
<1>2. d \in Nat /\ d <= l /\ l - d = Least(l, n)
  <2> HIDE DEF l
  <2>1. CASE l - n >= 0
    <3>1. d = l - n /\ Least(l, n) = n
      BY <1>1, <2>1 DEF Most, Least
    <3> QED BY <1>1, <2>1, <3>1
  <2>2. CASE ~ (l - n >= 0)
    <3>1. d = 0 /\ Least(l, n) = l
      BY <1>1, <2>2 DEF Most, Least
    <3> QED BY <1>1, <3>1
  <2> QED BY <2>1, <2>2
<1> HIDE DEF d
<1>3. SubSeq(P, 1, d) \in Seq(L)
  BY <1>1, <1>2, PrefixAt
<1>4. \A i \in (d + 1)..l : P[i] \in L
  BY <1>2, ElementOfSeq
<1>5. SubSeq(P, d + 1, l) \in Seq(L) /\ Len(SubSeq(P, d + 1, l)) = l - d
  <2>1. d + 1 \in Int /\ l \in Int
    BY <1>1, <1>2
  <2>2. /\ SubSeq(P, d + 1, l) \in Seq(L)
        /\ Len(SubSeq(P, d + 1, l)) = IF d + 1 <= l THEN l - (d + 1) + 1 ELSE 0
    BY <1>4, <2>1, SubSeqProperties
  <2>3. (IF d + 1 <= l THEN l - (d + 1) + 1 ELSE 0) = l - d
    BY <1>1, <1>2
  <2> QED BY <2>2, <2>3
<1>6. SubSeq(P, 1, d) \o SubSeq(P, d + 1, l) = SubSeq(P, 1, l)
  <2>1. 1 \in 1..(l + 1) /\ d \in (1 - 1)..l /\ l \in d..l
    BY <1>1, <1>2
  <2> QED BY <2>1, ConcatAdjacentSubSeq
<1>7. SubSeq(P, 1, l) = P
  BY SubSeqFull
<1> QED BY <1>1, <1>2, <1>3, <1>5, <1>6, <1>7 DEF LastN, d

\* The lines before the first ones of a list.
LEMMA PrefixFacts ==
  ASSUME NEW L, NEW P \in Seq(L), NEW n \in Nat, n <= Len(P)
  PROVE  /\ SubSeq(P, 1, n) \in Seq(L) /\ Len(SubSeq(P, 1, n)) = n
         /\ SubSeq(P, n + 1, Len(P)) \in Seq(L)
         /\ P = SubSeq(P, 1, n) \o SubSeq(P, n + 1, Len(P))
<1> DEFINE l == Len(P)
<1>1. l \in Nat
  BY LenProperties
<1>2. SubSeq(P, 1, n) \in Seq(L) /\ Len(SubSeq(P, 1, n)) = n
  BY PrefixAt
<1>3. \A i \in (n + 1)..l : P[i] \in L
  BY ElementOfSeq
<1>4. SubSeq(P, n + 1, l) \in Seq(L)
  BY <1>1, <1>3, SubSeqProperties
<1>5. SubSeq(P, 1, n) \o SubSeq(P, n + 1, l) = SubSeq(P, 1, l)
  <2>1. 1 \in 1..(l + 1) /\ n \in (1 - 1)..l /\ l \in n..l
    BY <1>1
  <2> QED BY <2>1, ConcatAdjacentSubSeq
<1>6. SubSeq(P, 1, l) = P
  BY SubSeqFull
<1> QED BY <1>2, <1>4, <1>5, <1>6

\* What is left of two lists when the first ones go is what is left of the
\* first list, and the second.
LEMMA DropFirst ==
  ASSUME NEW L, NEW D \in Seq(L), NEW Z \in Seq(L), Z # <<>>
  PROVE  SubSeq(D \o Z, Len(D) + 1, Len(D \o Z)) = Z
<1>1. Len(D) \in Nat /\ Len(Z) \in Nat \ {0} /\ Len(D \o Z) = Len(D) + Len(Z)
  BY LenProperties, EmptySeq, ConcatProperties
<1>2. /\ Len(D) + 1 \in Len(D) + 1 .. Len(D) + Len(Z)
      /\ Len(D) + Len(Z) \in Len(D) + 1 .. Len(D) + Len(Z)
  BY <1>1
<1>3. SubSeq(D \o Z, Len(D) + 1, Len(D) + Len(Z))
        = SubSeq(Z, Len(D) + 1 - Len(D), Len(D) + Len(Z) - Len(D))
  BY <1>2, SubSeqOfConcat2
<1>4. Len(D) + 1 - Len(D) = 1 /\ Len(D) + Len(Z) - Len(D) = Len(Z)
  BY <1>1
<1> QED BY <1>1, <1>3, <1>4, SubSeqFull

\* The list of one empty line is a text.
LEMMA OneEmptyLine == << <<>> >> \in Texts /\ << <<>> >> \in Seq(Line) /\ <<>> \in Line
  BY LineFacts DEF Texts

\* After a line feed, the last line is empty.
LEMMA LinesEndEmpty ==
  ASSUME NEW s \in Seq(Char), s = <<>> \/ s[Len(s)] = "n"
  PROVE  Last(Lines(s)) = <<>>
<1>1. CASE s = <<>>
  <2>1. Append(<<>>, <<>>) = << <<>> >> /\ <<>> \in Seq(Line)
    OBVIOUS
  <2>2. Last(Append(<<>>, <<>>)) = <<>>
    BY <2>1, OneEmptyLine, AppendLast, ZenonT(40)
  <2> QED BY <1>1, <2>1, <2>2, LinesStep
<1>2. CASE s # <<>>
  <2>1. Front(s) \in Seq(Char) /\ Last(s) = "n" /\ Last(s) \in Char /\ s = Append(Front(s), Last(s))
    BY <1>2, FrontLast DEF Last
  <2>2. Lines(Front(s)) \in Seq(Line)
    BY <2>1, LinesType DEF Texts
  <2>3. Lines(s) = Append(Lines(Front(s)), <<>>)
    BY <2>1, LinesStep DEF LineStep
  <2> QED BY <2>2, <2>3, OneEmptyLine, AppendLast
<1> QED BY <1>1, <1>2

\* Before a line feed, the first line is empty.
LEMMA LinesBeginEmpty ==
  ASSUME NEW s \in Seq(Char), s = <<>> \/ s[1] = "n"
  PROVE  \E T \in Seq(Line) : Lines(s) = << <<>> >> \o T
<1>1. CASE s = <<>>
  <2>1. << <<>> >> \o <<>> = << <<>> >> /\ <<>> \in Seq(Line)
    BY OneEmptyLine, ConcatEmptySeq
  <2> QED BY <1>1, <2>1, LinesStep
<1>2. CASE s # <<>>
  <2>1. Head(s) \in Char /\ Head(s) = "n" /\ Tail(s) \in Seq(Char) /\ s = <<Head(s)>> \o Tail(s)
    BY <1>2, HeadTail
  <2>2. <<"n">> = Append(<<>>, "n") /\ <<>> \in Seq(Char) /\ <<"n">> \in Seq(Char)
    BY <2>1
  <2>3. Lines(<<"n">>) = Append(<< <<>> >>, <<>>)
    BY <2>1, <2>2, LinesStep DEF LineStep
  <2>4. Lines(Tail(s)) \in Texts
    BY <2>1, LinesType
  <2>5. Lines(s) = Glue(Append(<< <<>> >>, <<>>), Lines(Tail(s)))
    BY <2>1, <2>2, <2>3, LinesOfConcat, ZenonT(40)
  <2>6. Lines(s) = << <<>> >> \o Lines(Tail(s))
    BY <2>4, <2>5, OneEmptyLine, GlueEmpty
  <2> QED BY <2>4, <2>6 DEF Texts
<1> QED BY <1>1, <1>2

-----------------------------------------------------------------------------
\* The lines before the match that are reported end the log before the match,
\* whether its last line is the line of the match ...
LEMMA LeftJoined ==
  ASSUME NEW E \in Seq(Line), NEW D \in Seq(Line), NEW A \in Texts, NEW Q \in Texts
  PROVE  Text(Glue(E \o (D \o A), Q)) = Text(E \o D) \o Text(Glue(A, Q))
<1>1. A \in Seq(Line) /\ E \o D \in Seq(Line) /\ E \o (D \o A) = (E \o D) \o A
  BY ConcatProperties, ConcatAssociative, SMTT(40) DEF Texts
<1>2. Glue(A, Q) \in Seq(Line)
  BY GlueType DEF Texts
<1> DEFINE W == E \o D
<1>3. W \in Seq(Line)
  BY <1>1
<1> HIDE DEF W
<1>4. Glue(W \o A, Q) = W \o Glue(A, Q)
  BY <1>3, GlueLeft
<1>5. Text(W \o Glue(A, Q)) = Text(W) \o Text(Glue(A, Q))
  BY <1>2, <1>3, TextOfConcat
<1> QED BY <1>1, <1>4, <1>5 DEF W

\* Concatenation of lists of lines is associative.
LEMMA LinesAssociative ==
  ASSUME NEW U \in Seq(Line), NEW g \in Seq(Line), NEW q \in Seq(Line)
  PROVE  (U \o g) \o q = U \o (g \o q)
  BY ConcatAssociative

\* ... or is empty.
LEMMA LeftApart ==
  ASSUME NEW left \in Texts, NEW E \in Seq(Line), NEW D \in Seq(Line), NEW A \in Texts
  PROVE  Last(left) = <<>> /\ Append(left, <<>>) = E \o (D \o A)
           => \A Q \in Texts : Text(Glue(left, Q)) = Text(E \o D) \o Text(Glue(A, Q))
<1>0. left \in Seq(Line) /\ left # <<>> /\ A \in Seq(Line) /\ A # <<>> /\ <<>> \in Line
  BY OneEmptyLine DEF Texts
<1>1. E \o (D \o A) = (E \o D) \o A /\ E \o D \in Seq(Line)
  <2>1. A \in Seq(Line)
    BY <1>0
  <2>2. E \o (D \o A) = (E \o D) \o A
    BY <2>1, LinesAssociative
  <2>3. E \o D \in Seq(Line)
    BY ConcatProperties
  <2> QED BY <2>2, <2>3
<1> DEFINE U == Text(E \o D)
<1>2. U \in Seq(Line) /\ Text((E \o D) \o A) = U \o Text(A)
  BY <1>0, <1>1, TextOfConcat
<1>3. SUFFICES ASSUME Last(left) = <<>>, Append(left, <<>>) = E \o (D \o A)
               PROVE  \A Q \in Texts : Text(Glue(left, Q)) = U \o Text(Glue(A, Q))
  OBVIOUS
<1>4. Last(A) = <<>>
  <2>1. Last((E \o D) \o A) = Last(A)
    BY <1>0, <1>1, FrontLastOfConcat
  <2>2. Last(Append(left, <<>>)) = <<>>
    BY <1>0, AppendLast
  <2> QED BY <1>1, <1>3, <2>1, <2>2
<1>5. PICK F \in Seq(Line) : left = Append(F, <<>>)
  BY <1>0, <1>3, FrontLast
<1>6. PICK G \in Seq(Line) : A = Append(G, <<>>)
  BY <1>0, <1>4, FrontLast
<1>7. Text(F) = U \o Text(G)
  <2>1. Text(Append(left, <<>>)) = Text(left) /\ Text(left) = Text(F) /\ Text(A) = Text(G)
    BY <1>0, <1>5, <1>6, TextSteps
  <2> QED BY <1>1, <1>2, <1>3, <2>1
<1> HIDE DEF U
<1>8. ASSUME NEW Q \in Texts
      PROVE  Text(Glue(left, Q)) = U \o Text(Glue(A, Q))
  <2>1. Q \in Seq(Line) /\ Glue(left, Q) = F \o Q /\ Glue(A, Q) = G \o Q
    BY <1>5, <1>6, GlueEmpty DEF Texts
  <2>2. /\ Text(F \o Q) = Text(F) \o Text(Q) /\ Text(G \o Q) = Text(G) \o Text(Q)
        /\ Text(G) \in Seq(Line) /\ Text(Q) \in Seq(Line)
    BY <2>1, TextOfConcat
  <2>3. (U \o Text(G)) \o Text(Q) = U \o (Text(G) \o Text(Q))
    BY <1>2, <2>2, LinesAssociative
  <2> QED BY <1>7, <2>1, <2>2, <2>3
<1> QED BY <1>8

\* The lines after the match that are reported begin the log after it, whether
\* its first line is the line of the match ...
LEMMA RightJoined ==
  ASSUME NEW B \in Texts, NEW E \in Seq(Line)
  PROVE  \E V \in Seq(Line) : \A X \in Texts : Text(Glue(X, B \o E)) = Text(Glue(X, B)) \o V
<1>1. ASSUME NEW X \in Texts
      PROVE  Text(Glue(X, B \o E)) = Text(Glue(X, B)) \o Text(E)
  <2>1. Glue(X, B) \in Seq(Line) /\ Glue(X, B \o E) = Glue(X, B) \o E
    BY GlueType, GlueRight DEF Texts
  <2> QED BY <2>1, TextOfConcat
<1> QED BY <1>1, TextOfConcat

\* ... or is empty.
LEMMA RightApart ==
  ASSUME NEW T \in Seq(Line), NEW R \in Seq(Line), NEW E \in Seq(Line)
  PROVE  << <<>> >> \o T = R \o E
           => \E V \in Seq(Line) : \A X \in Texts :
                Text(Glue(X, << <<>> >> \o T)) = Text(Glue(X, << <<>> >> \o R)) \o V
<1>a. SUFFICES ASSUME << <<>> >> \o T = R \o E
               PROVE  \E V \in Seq(Line) : \A X \in Texts :
                        Text(Glue(X, << <<>> >> \o T)) = Text(Glue(X, << <<>> >> \o R)) \o V
  OBVIOUS
<1>1. Text(T) \in Seq(Line) /\ Text(R) \in Seq(Line) /\ Text(E) \in Seq(Line)
  BY TextOfConcat
<1>2. Text(T) = Text(R) \o Text(E)
  <2>1. Text(<< <<>> >> \o T) = Text(<< <<>> >>) \o Text(T)
    BY OneEmptyLine, TextOfConcat
  <2>2. << <<>> >> = Append(<<>>, <<>>) /\ <<>> \in Seq(Line)
    OBVIOUS
  <2>3. Text(<< <<>> >>) = <<>>
    BY <2>2, OneEmptyLine, TextSteps
  <2>4. <<>> \o Text(T) = Text(T)
    BY <1>1, ConcatEmptySeq
  <2>5. Text(R \o E) = Text(R) \o Text(E)
    BY TextOfConcat
  <2> QED BY <1>a, <2>1, <2>3, <2>4, <2>5
<1>3. ASSUME NEW X \in Texts
      PROVE  Text(Glue(X, << <<>> >> \o T)) = Text(Glue(X, << <<>> >> \o R)) \o Text(E)
  <2>1. /\ X \in Seq(Line) /\ Glue(X, << <<>> >> \o T) = X \o T
        /\ Glue(X, << <<>> >> \o R) = X \o R
    BY GlueEmpty DEF Texts
  <2>2. /\ Text(X \o T) = Text(X) \o Text(T) /\ Text(X \o R) = Text(X) \o Text(R)
        /\ Text(X) \in Seq(Line)
    BY <2>1, TextOfConcat
  <2>3. Text(X) \o (Text(R) \o Text(E)) = (Text(X) \o Text(R)) \o Text(E)
    <3> DEFINE x == Text(X)
               r == Text(R)
               e == Text(E)
    <3>1. x \in Seq(Line) /\ r \in Seq(Line) /\ e \in Seq(Line)
      BY <1>1, <2>2
    <3> HIDE DEF x, r, e
    <3>2. (x \o r) \o e = x \o (r \o e)
      BY <3>1, ConcatAssociative, SMTT(40)
    <3> QED BY <3>2 DEF x, r, e
  <2> QED BY <1>2, <2>1, <2>2, <2>3
<1> QED BY <1>1, <1>3

-----------------------------------------------------------------------------
(* mergeLogs and extractMatchLog in these terms.                           *)

\* The lines before and after the match, with an empty one where the line next
\* to the match is not the line of the match.
JoinsLeft(s, at)  == at > 0 /\ s[at] # "n"
JoinsRight(s, to) == to < Len(s) /\ s[to + 1] # "n"
Above(lhs, s, at) == IF JoinsLeft(s, at) THEN lhs ELSE Append(lhs, <<>>)
Below(rhs, s, to) == IF JoinsRight(s, to) THEN rhs ELSE << <<>> >> \o rhs

\* What Above and Below are, and how many lines they add.
LEMMA AboveBelow ==
  ASSUME NEW lhs \in Texts, NEW rhs \in Seq(Line), NEW s, NEW at, NEW to,
         JoinsRight(s, to) => rhs # <<>>
  PROVE  /\ Above(lhs, s, at) \in Texts /\ Below(rhs, s, to) \in Texts
         /\ Len(Above(lhs, s, at)) \in {Len(lhs), Len(lhs) + 1}
         /\ Len(Below(rhs, s, to)) \in {Len(rhs), Len(rhs) + 1}
<1>1. lhs \in Seq(Line) /\ lhs # <<>> /\ Len(lhs) \in Nat /\ Len(rhs) \in Nat
  BY LenProperties DEF Texts
<1>2. /\ Append(lhs, <<>>) \in Seq(Line) /\ Append(lhs, <<>>) # <<>>
      /\ Len(Append(lhs, <<>>)) = Len(lhs) + 1
  BY <1>1, OneEmptyLine, AppendProperties
<1>3. /\ << <<>> >> \o rhs \in Seq(Line) /\ << <<>> >> \o rhs # <<>>
      /\ Len(<< <<>> >> \o rhs) = Len(rhs) + 1
  <2>1. Len(<< <<>> >>) = 1
    OBVIOUS
  <2>2. Len(<< <<>> >> \o rhs) = Len(<< <<>> >>) + Len(rhs)
    BY OneEmptyLine, ConcatProperties
  <2>3. << <<>> >> \o rhs \in Seq(Line) /\ << <<>> >> \o rhs # <<>>
    BY OneEmptyLine, HeadTailOfCons
  <2> QED BY <1>1, <2>1, <2>2, <2>3
<1> QED BY <1>1, <1>2, <1>3 DEF Above, Below, Texts

\* mergeLogs puts texts one after the other, or panics.
LEMMA MergeIsGlue ==
  ASSUME NEW lhs \in Texts, NEW rhs \in Seq(Line), NEW match \in Texts,
         NEW s, NEW at, NEW len
  PROVE  MergeLogs(lhs, rhs, match, s, at, len)
           = IF JoinsRight(s, at + len) /\ rhs = <<>> THEN Panic
             ELSE Extracted(Glue(Glue(Above(lhs, s, at), match), Below(rhs, s, at + len)))
<1> DEFINE left == IF JoinsLeft(s, at) THEN Front(lhs) \o <<Last(lhs) \o Head(match)>> \o Tail(match)
                                        ELSE lhs \o match
<1>1. left = Glue(Above(lhs, s, at), match) /\ left \in Texts
  <2>1. Glue(Append(lhs, <<>>), match) = lhs \o match
    BY GlueEmpty DEF Texts
  <2>2. Above(lhs, s, at) \in Texts
    <3>1. Append(lhs, <<>>) \in Texts
      BY OneEmptyLine, AppendProperties DEF Texts
    <3> QED BY <3>1 DEF Above
  <2>3. left = Glue(Above(lhs, s, at), match)
    BY <2>1 DEF Above, Glue
  <2> QED BY <2>2, <2>3, GlueType
<1>2. MergeLogs(lhs, rhs, match, s, at, len)
        = CASE JoinsRight(s, at + len) /\ rhs = <<>> -> Panic
            [] JoinsRight(s, at + len) /\ rhs # <<>> ->
                 Extracted(Front(left) \o <<Last(left) \o Head(rhs)>> \o Tail(rhs))
            [] OTHER -> Extracted(left \o rhs)
  BY DEF MergeLogs, JoinsRight, JoinsLeft
<1> HIDE DEF left
<1>3. left \o rhs = Glue(left, << <<>> >> \o rhs)
  BY <1>1, GlueEmpty
<1>4. Front(left) \o <<Last(left) \o Head(rhs)>> \o Tail(rhs) = Glue(left, rhs)
  BY DEF Glue
<1>5. CASE JoinsRight(s, at + len) /\ rhs = <<>>
  BY <1>2, <1>5
<1>6. CASE JoinsRight(s, at + len) /\ rhs # <<>>
  <2>1. MergeLogs(lhs, rhs, match, s, at, len) = Extracted(Glue(left, rhs))
    BY <1>2, <1>4, <1>6
  <2> QED BY <1>1, <1>6, <2>1 DEF Below
<1>7. CASE ~ JoinsRight(s, at + len)
  <2>1. MergeLogs(lhs, rhs, match, s, at, len) = Extracted(Glue(left, << <<>> >> \o rhs))
    BY <1>2, <1>3, <1>7
  <2> QED BY <1>1, <1>7, <2>1 DEF Below
<1> QED BY <1>5, <1>6, <1>7

-----------------------------------------------------------------------------
\* extractMatchLog, of the log around the match and of the match.
Cut(s, from, to) == Unix(SubSeq(s, Most(from - MaxSize, 0) + 1, Least(to + MaxSize, Len(s))))
LeftOf(cur, match)  == SubSeq(cur, 1, Index(cur, match))
RightOf(cur, match) == SubSeq(cur, Index(cur, match) + Len(match) + 1, Len(cur))

After(cur, match) == Len(Lines(RightOf(cur, match))) + Len(Lines(match))
LinesBefore(cur, match) ==
    IF After(cur, match) < MaxLines - 3 THEN MaxLines - After(cur, match) ELSE 3
Lhs(cur, match) == LastN(Lines(LeftOf(cur, match)), LinesBefore(cur, match))
Room(cur, match) == Most(MaxLines - Len(Lhs(cur, match)) - Len(Lines(match)), 0)
Rhs(cur, match) ==
    SubSeq(Lines(RightOf(cur, match)), 1,
           Least(Room(cur, match), Len(Lines(RightOf(cur, match)))))
Merged(cur, match) ==
    MergeLogs(Lhs(cur, match), Rhs(cur, match), Lines(match), cur, Index(cur, match), Len(match))

Returned(cur, match) ==
    CASE Index(cur, match) = -1 -> Panic
      [] Index(cur, match) # -1 /\ Len(Lines(match)) >= MaxLines ->
           Extracted(LastN(Lines(match), MaxLines))
      [] OTHER -> [Merged(cur, match) EXCEPT !.lines = LastN(@, MaxLines)]

\* extractMatchLog (lines 259-311), by the names given to its parts.
LEMMA MatchLogIs ==
  ASSUME NEW s, NEW from, NEW to
  PROVE  MatchLog(s, from, to) = Returned(Cut(s, from, to), SubSeq(s, from + 1, to))
  BY DEF MatchLog, Returned, Cut, Merged, Rhs, Room, Lhs, LinesBefore, After, LeftOf, RightOf

-----------------------------------------------------------------------------
(* The parts of the log around the match, and their sizes.                 *)

\* What is cut out of a log.
LEMMA SliceType ==
  ASSUME NEW s \in Seq(Char), NEW i \in Int, NEW j \in Int, 1 <= i, j <= Len(s)
  PROVE  SubSeq(s, i, j) \in Seq(Char)
<1>1. Len(s) \in Nat
  BY LenProperties
<1>2. \A k \in i..j : s[k] \in Char
  BY <1>1, ElementOfSeq
<1> QED BY <1>2, SubSeqProperties

\* The text around the match and the match are texts.
LEMMA CutType ==
  ASSUME NEW s \in Seq(Char), NEW from \in 0..Len(s), NEW to \in from..Len(s)
  PROVE  /\ Cut(s, from, to) \in Seq(Char) /\ SubSeq(s, from + 1, to) \in Seq(Char)
         /\ SubSeq(s, Most(from - MaxSize, 0) + 1, Least(to + MaxSize, Len(s))) \in Seq(Char)
<1>1. Len(s) \in Nat /\ MaxSize \in Nat /\ from \in Nat /\ to \in Nat /\ to <= Len(s)
  BY LenProperties, SizesAssumption
<1> DEFINE i == Most(from - MaxSize, 0) + 1
           j == Least(to + MaxSize, Len(s))
<1>2. i \in Int /\ j \in Int /\ 1 <= i /\ j <= Len(s)
  BY <1>1 DEF Most, Least
<1> HIDE DEF i, j
<1>3. SubSeq(s, i, j) \in Seq(Char)
  BY <1>2, SliceType
<1>4. SubSeq(s, from + 1, to) \in Seq(Char)
  BY <1>1, SliceType
<1>5. Unix(SubSeq(s, i, j)) \in Seq(Char)
  BY <1>3, UnixType
<1> QED BY <1>3, <1>4, <1>5 DEF Cut, i, j

\* The parts of the text around a match that was found in it.
LEMMA Parts ==
  ASSUME NEW cur \in Seq(Char), NEW match \in Seq(Char), Index(cur, match) # -1
  PROVE  /\ LeftOf(cur, match) \in Seq(Char) /\ RightOf(cur, match) \in Seq(Char)
         /\ Lines(LeftOf(cur, match)) \in Texts /\ Lines(RightOf(cur, match)) \in Texts
         /\ Lines(match) \in Texts
         /\ cur = (LeftOf(cur, match) \o match) \o RightOf(cur, match)
         /\ Lines(cur) = Glue(Glue(Lines(LeftOf(cur, match)), Lines(match)),
                              Lines(RightOf(cur, match)))
<1> DEFINE l == LeftOf(cur, match)
           r == RightOf(cur, match)
<1>1. l \in Seq(Char) /\ r \in Seq(Char) /\ cur = (l \o match) \o r
  BY IndexSplits DEF LeftOf, RightOf
<1>2. l \o match \in Seq(Char)
  BY <1>1, ConcatProperties
<1> HIDE DEF l, r
<1>3. Lines((l \o match) \o r) = Glue(Lines(l \o match), Lines(r))
  BY <1>1, <1>2, LinesOfConcat
<1>4. Lines(l \o match) = Glue(Lines(l), Lines(match))
  BY <1>1, LinesOfConcat
<1>5. Lines(l) \in Texts /\ Lines(r) \in Texts /\ Lines(match) \in Texts
  BY <1>1, LinesType
<1> QED BY <1>1, <1>3, <1>4, <1>5 DEF l, r

\* The lines taken before and after the match: there is one before it at least,
\* there is one after it at least if the match is short, and there is room for
\* all the lines after the match that are taken.
LEMMA StageSizes ==
  ASSUME NEW cur \in Seq(Char), NEW match \in Seq(Char), Index(cur, match) # -1
  PROVE  /\ Lhs(cur, match) \in Texts /\ Rhs(cur, match) \in Seq(Line)
         /\ Len(Lhs(cur, match)) \in Nat \ {0} /\ Len(Rhs(cur, match)) \in Nat
         /\ Len(Lines(match)) \in Nat \ {0} /\ Room(cur, match) \in Nat
         /\ Len(Rhs(cur, match)) <= Room(cur, match)
         /\ Len(Lines(match)) < MaxLines => Len(Lines(match)) + Room(cur, match) <= MaxLines
         /\ Len(Lines(match)) < MaxLines - 3 => Len(Rhs(cur, match)) > 0
         /\ \E D \in Seq(Line) : Lines(LeftOf(cur, match)) = D \o Lhs(cur, match)
         /\ \E E \in Seq(Line) : Lines(RightOf(cur, match)) = Rhs(cur, match) \o E
<1> DEFINE left  == Lines(LeftOf(cur, match))
           right == Lines(RightOf(cur, match))
           mine  == Lines(match)
           n     == LinesBefore(cur, match)
           k     == Least(Room(cur, match), Len(right))
           a     == Len(Lhs(cur, match))
           room  == Room(cur, match)
           m     == Len(mine)
           r     == Len(right)
           l     == Len(left)
<1>1. left \in Texts /\ right \in Texts /\ mine \in Texts
  BY Parts
<1>2. left \in Seq(Line) /\ right \in Seq(Line) /\ mine \in Seq(Line)
  BY <1>1 DEF Texts
<1>3. m \in Nat \ {0} /\ r \in Nat \ {0} /\ l \in Nat \ {0}
  <2> HIDE DEF left, right, mine
  <2> QED BY <1>1, EmptySeq DEF Texts
<1>4. MaxLines \in Nat \ {0}
  BY SizesAssumption
<1>5. n = IF r + m < MaxLines - 3 THEN MaxLines - (r + m) ELSE 3
  BY DEF LinesBefore, After
<1>6. n \in Nat \ {0}
  <2> HIDE DEF n, m, r
  <2> QED BY <1>3, <1>4, <1>5
<1>7. /\ Lhs(cur, match) \in Seq(Line) /\ a = Least(l, n)
      /\ SubSeq(left, 1, Most(l - n, 0)) \in Seq(Line)
      /\ left = SubSeq(left, 1, Most(l - n, 0)) \o Lhs(cur, match)
  <2> HIDE DEF left, n
  <2>1. n \in Nat
    BY <1>6
  <2>2. /\ LastN(left, n) \in Seq(Line) /\ Len(LastN(left, n)) = Least(Len(left), n)
        /\ SubSeq(left, 1, Most(Len(left) - n, 0)) \in Seq(Line)
        /\ left = SubSeq(left, 1, Most(Len(left) - n, 0)) \o LastN(left, n)
    BY <1>2, <2>1, LastNFacts
  <2> QED BY <2>2 DEF Lhs, left, n
<1>8. room = Most(MaxLines - a - m, 0)
  BY DEF Room
<1> HIDE DEF n, m, r, l, a, room
<1>9. a \in Nat \ {0} /\ a <= n
  BY <1>3, <1>6, <1>7 DEF Least
<1>10. room \in Nat /\ (m < MaxLines => m + room <= MaxLines)
  BY <1>3, <1>4, <1>8, <1>9 DEF Most
<1>11. m < MaxLines - 3 => room > 0
  BY <1>3, <1>4, <1>5, <1>6, <1>8, <1>9 DEF Most
<1>12. k \in Nat /\ k <= room /\ k <= r /\ (room > 0 => k > 0)
  BY <1>3, <1>10 DEF Least, room, r
<1>13. Lhs(cur, match) \in Texts
  BY <1>7, <1>9 DEF Texts, a
<1>14. /\ Rhs(cur, match) \in Seq(Line) /\ Len(Rhs(cur, match)) = k
       /\ \E E \in Seq(Line) : right = Rhs(cur, match) \o E
  <2> HIDE DEF k, right
  <2>1. k \in Nat /\ k <= Len(right)
    BY <1>12 DEF r
  <2>2. /\ SubSeq(right, 1, k) \in Seq(Line) /\ Len(SubSeq(right, 1, k)) = k
        /\ \E E \in Seq(Line) : right = SubSeq(right, 1, k) \o E
    <3>1. SubSeq(right, 1, k) \in Seq(Line) /\ Len(SubSeq(right, 1, k)) = k
      BY <1>2, <2>1, PrefixFacts
    <3>2. \E E \in Seq(Line) : right = SubSeq(right, 1, k) \o E
      <4>1. /\ SubSeq(right, k + 1, Len(right)) \in Seq(Line)
            /\ right = SubSeq(right, 1, k) \o SubSeq(right, k + 1, Len(right))
        BY <1>2, <2>1, PrefixFacts
      <4> QED BY <4>1
    <3> QED BY <3>1, <3>2
  <2>3. Rhs(cur, match) = SubSeq(right, 1, k)
    BY DEF Rhs, k, right
  <2> QED BY <2>2, <2>3
<1>15. \E D \in Seq(Line) : left = D \o Lhs(cur, match)
  BY <1>7
<1> HIDE DEF k
<1> QED BY <1>3, <1>9, <1>10, <1>11, <1>12, <1>13, <1>14, <1>15 DEF m, a, room

\* Where the match begins a line, the line before it ends.
LEMMA LeftEnds ==
  ASSUME NEW cur \in Seq(Char), NEW match \in Seq(Char), Index(cur, match) # -1,
         ~ JoinsLeft(cur, Index(cur, match))
  PROVE  Last(Lines(LeftOf(cur, match))) = <<>>
<1> DEFINE at == Index(cur, match)
           l == LeftOf(cur, match)
<1>1. at \in Nat /\ at <= Len(cur) /\ l \in Seq(Char) /\ Len(cur) \in Nat
  <2>1. /\ at \in Nat /\ at + Len(match) \in 0..Len(cur) /\ Len(cur) \in Nat /\ Len(match) \in Nat
    BY IndexSplits
  <2>2. l \in Seq(Char)
    BY Parts
  <2> HIDE DEF at, l
  <2> QED BY <2>1, <2>2
<1>2. l = SubSeq(cur, 1, at)
  BY DEF LeftOf
<1>3. at = 0 \/ cur[at] = "n"
  BY <1>1 DEF JoinsLeft
<1> HIDE DEF at, l
<1>4. Len(l) = at /\ \A i \in 1..at : l[i] = cur[i]
  BY <1>1, <1>2, PrefixAt
<1>5. l = <<>> \/ l[Len(l)] = "n"
  BY <1>1, <1>3, <1>4
<1> QED BY <1>1, <1>5, LinesEndEmpty DEF l

\* Where the match ends a line, the line after it begins.
LEMMA RightBegins ==
  ASSUME NEW cur \in Seq(Char), NEW match \in Seq(Char), Index(cur, match) # -1,
         ~ JoinsRight(cur, Index(cur, match) + Len(match))
  PROVE  \E T \in Seq(Line) : Lines(RightOf(cur, match)) = << <<>> >> \o T
<1> DEFINE to == Index(cur, match) + Len(match)
           r == RightOf(cur, match)
<1>1. to \in Nat /\ to <= Len(cur) /\ r \in Seq(Char) /\ Len(cur) \in Nat
  <2>1. /\ Index(cur, match) \in Nat /\ to \in 0..Len(cur) /\ Len(cur) \in Nat
    BY IndexSplits
  <2>2. r \in Seq(Char)
    BY Parts
  <2> HIDE DEF to, r
  <2> QED BY <2>1, <2>2
<1>2. r = SubSeq(cur, to + 1, Len(cur))
  BY DEF RightOf
<1>3. to = Len(cur) \/ cur[to + 1] = "n"
  <2> HIDE DEF r
  <2>1. to < Len(cur) \/ to = Len(cur)
    <3> HIDE DEF to
    <3> QED BY <1>1
  <2> QED BY <2>1 DEF JoinsRight
<1> HIDE DEF to, r
<1>4. CASE to = Len(cur)
  <2>1. to + 1 \in Int /\ Len(cur) \in Int /\ Len(cur) < to + 1
    BY <1>1, <1>4
  <2>2. r = <<>>
    BY <1>2, <2>1, SubSeqEmpty
  <2> QED BY <1>1, <2>2, LinesBeginEmpty DEF r
<1>5. CASE to # Len(cur)
  <2>1. \A i \in (to + 1)..Len(cur) : cur[i] \in Char
    BY <1>1, ElementOfSeq
  <2>2. \A i \in 1..(Len(cur) - (to + 1) + 1) : r[i] = cur[to + 1 + i - 1]
    <3>1. to + 1 \in Int /\ Len(cur) \in Int
      BY <1>1
    <3> QED BY <1>2, <2>1, <3>1, SubSeqProperties
  <2>3. 1 \in 1..(Len(cur) - (to + 1) + 1) /\ to + 1 + 1 - 1 = to + 1
    BY <1>1, <1>5
  <2>4. r[1] = "n"
    BY <1>3, <1>5, <2>2, <2>3
  <2> QED BY <1>1, <2>4, LinesBeginEmpty DEF r
<1> QED BY <1>4, <1>5

-----------------------------------------------------------------------------
(* What mergeLogs returns once it is cut to MaxLines.                      *)

\* The fields of the results.
LEMMA Records ==
  /\ \A l : Extracted(l).panic = FALSE /\ Extracted(l).lines = l
  /\ \A l, n : [Extracted(l) EXCEPT !.lines = LastN(@, n)] = Extracted(LastN(l, n))
  /\ Panic.panic = TRUE /\ Pending.panic = FALSE
  /\ \A n : [Panic EXCEPT !.lines = LastN(@, n)].panic = TRUE
<1>1. \A l : Extracted(l).panic = FALSE /\ Extracted(l).lines = l
  BY DEF Extracted
<1>2. \A l, n : [Extracted(l) EXCEPT !.lines = LastN(@, n)] = Extracted(LastN(l, n))
  <2> SUFFICES ASSUME NEW l, NEW n
               PROVE  [Extracted(l) EXCEPT !.lines = LastN(@, n)] = Extracted(LastN(l, n))
    OBVIOUS
  <2> DEFINE b == FALSE
  <2>1. /\ Extracted(l) = [panic |-> b, lines |-> l]
        /\ Extracted(LastN(l, n)) = [panic |-> b, lines |-> LastN(l, n)]
    BY DEF Extracted
  <2> HIDE DEF b
  <2> QED BY <2>1
<1>3. Panic.panic = TRUE /\ Pending.panic = FALSE
  BY DEF Panic, Pending
<1>4. \A n : [Panic EXCEPT !.lines = LastN(@, n)].panic = TRUE
  BY DEF Panic
<1> QED BY <1>1, <1>2, <1>3, <1>4

\* The last lines of two texts, when all that goes is of the first.
LEMMA LastNOfGlue ==
  ASSUME NEW P \in Texts, NEW Z \in Texts, Len(Z) <= MaxLines
  PROVE  \E D \in Seq(Line), A \in Texts :
            /\ P = D \o A
            /\ LastN(Glue(P, Z), MaxLines) = Glue(A, Z)
            /\ Len(Glue(A, Z)) <= MaxLines
<1> DEFINE p == Len(P)
           z == Len(Z)
           Y == Glue(P, Z)
           d == Most(Len(Y) - MaxLines, 0)
           D == SubSeq(P, 1, d)
           A == SubSeq(P, d + 1, Len(P))
<1>1. p \in Nat \ {0} /\ z \in Nat \ {0} /\ Len(Y) = p + z - 1 /\ MaxLines \in Nat \ {0}
  BY GlueLen, SizesAssumption
<1>2. d \in Nat /\ d < p /\ z <= MaxLines /\ (p - d) + z - 1 <= MaxLines
  <2>1. z <= MaxLines
    OBVIOUS
  <2> HIDE DEF p, z, Y
  <2>2. d = Most(p + z - 1 - MaxLines, 0)
    BY <1>1
  <2> HIDE DEF d
  <2>3. CASE p + z - 1 - MaxLines >= 0
    <3>1. d = p + z - 1 - MaxLines
      BY <2>2, <2>3 DEF Most
    <3> QED BY <1>1, <2>1, <2>3, <3>1
  <2>4. CASE ~ (p + z - 1 - MaxLines >= 0)
    <3>1. d = 0
      BY <2>2, <2>4 DEF Most
    <3> QED BY <1>1, <2>1, <2>4, <3>1
  <2> QED BY <2>3, <2>4
<1>3. P \in Seq(Line) /\ Z \in Seq(Line) /\ Y \in Seq(Line)
  BY GlueType DEF Texts
<1> HIDE DEF Y, d
<1>4. D \in Seq(Line) /\ Len(D) = d /\ A \in Seq(Line) /\ P = D \o A
  <2>1. d \in Nat /\ d <= Len(P)
    BY <1>1, <1>2
  <2> QED BY <1>3, <2>1, PrefixFacts
<1> HIDE DEF D, A
<1>5. Len(P) = Len(D) + Len(A) /\ Len(A) \in Nat
  BY <1>4, ConcatProperties, LenProperties
<1>6. Len(A) = p - d /\ Len(A) > 0
  BY <1>1, <1>2, <1>4, <1>5
<1>7. A \in Texts
  <2>1. A # <<>>
    BY <1>6
  <2> QED BY <1>4, <2>1 DEF Texts
<1>8. Y = D \o Glue(A, Z)
  <2>1. Glue(D \o A, Z) = D \o Glue(A, Z)
    BY <1>4, <1>7, GlueLeft
  <2> QED BY <1>4, <2>1 DEF Y
<1>9. Glue(A, Z) \in Seq(Line) /\ Glue(A, Z) # <<>>
  BY <1>7, GlueType DEF Texts
<1>10. SubSeq(D \o Glue(A, Z), Len(D) + 1, Len(D \o Glue(A, Z))) = Glue(A, Z)
  BY <1>4, <1>9, DropFirst
<1>11. LastN(Y, MaxLines) = Glue(A, Z)
  <2>1. LastN(Y, MaxLines) = SubSeq(Y, d + 1, Len(Y))
    BY DEF LastN, d
  <2> QED BY <1>4, <1>8, <1>10, <2>1
<1>12. Len(Glue(A, Z)) <= MaxLines
  <2>1. Len(Glue(A, Z)) = Len(A) + Len(Z) - 1
    BY <1>7, GlueLen
  <2> QED BY <1>1, <1>2, <1>6, <2>1
<1> QED BY <1>4, <1>7, <1>11, <1>12 DEF Y

\* The text before the match ends with the text of the lines reported of it.
LEMMA LeftStage ==
  ASSUME NEW cur \in Seq(Char), NEW match \in Seq(Char), Index(cur, match) # -1,
         NEW D \in Seq(Line), NEW A \in Texts,
         Above(Lhs(cur, match), cur, Index(cur, match)) = D \o A
  PROVE  \E U \in Seq(Line) : \A Q \in Texts :
           Text(Glue(Lines(LeftOf(cur, match)), Q)) = U \o Text(Glue(A, Q))
<1> DEFINE left == Lines(LeftOf(cur, match))
           lhs  == Lhs(cur, match)
<1>1. left \in Texts /\ left \in Seq(Line) /\ lhs \in Seq(Line)
  BY Parts, StageSizes DEF Texts
<1>2. PICK E \in Seq(Line) : left = E \o lhs
  BY StageSizes
<1>3. JoinsLeft(cur, Index(cur, match)) => lhs = D \o A
  BY DEF Above
<1>4. ~ JoinsLeft(cur, Index(cur, match)) => Append(lhs, <<>>) = D \o A
  BY DEF Above
<1>5. ~ JoinsLeft(cur, Index(cur, match)) => Last(left) = <<>>
  BY LeftEnds
<1> HIDE DEF left, lhs
<1>8. Text(E \o D) \in Seq(Line)
  BY ConcatProperties, TextOfConcat
<1>6. CASE JoinsLeft(cur, Index(cur, match))
  <2>1. left = E \o (D \o A)
    BY <1>2, <1>3, <1>6
  <2>2. \E U \in Seq(Line) : \A Q \in Texts : Text(Glue(left, Q)) = U \o Text(Glue(A, Q))
    <3>1. \A Q \in Texts : Text(Glue(E \o (D \o A), Q)) = Text(E \o D) \o Text(Glue(A, Q))
      BY LeftJoined
    <3> QED BY <1>8, <2>1, <3>1
  <2> QED BY <2>2 DEF left
<1>7. CASE ~ JoinsLeft(cur, Index(cur, match))
  <2>1. E \o Append(lhs, <<>>) = Append(E \o lhs, <<>>)
    BY <1>1, OneEmptyLine, ConcatAppend
  <2>2. Append(left, <<>>) = E \o (D \o A)
    BY <1>2, <1>4, <1>7, <2>1
  <2>3. \E U \in Seq(Line) : \A Q \in Texts : Text(Glue(left, Q)) = U \o Text(Glue(A, Q))
    <3>1. \A Q \in Texts : Text(Glue(left, Q)) = Text(E \o D) \o Text(Glue(A, Q))
      <4>1. Last(left) = <<>> /\ Append(left, <<>>) = E \o (D \o A)
        BY <1>5, <1>7, <2>2
      <4>2. left \in Texts
        BY <1>1
      <4> QED BY <4>1, <4>2, LeftApart, ZenonT(40)
    <3> QED BY <1>8, <3>1
  <2> QED BY <2>3 DEF left
<1> QED BY <1>6, <1>7

\* The lines after the match that are reported begin the log after it.
LEMMA RightStage ==
  ASSUME NEW cur \in Seq(Char), NEW match \in Seq(Char), Index(cur, match) # -1,
         ~ (JoinsRight(cur, Index(cur, match) + Len(match)) /\ Rhs(cur, match) = <<>>)
  PROVE  \E V \in Seq(Line) : \A X \in Texts :
           Text(Glue(X, Lines(RightOf(cur, match))))
             = Text(Glue(X, Below(Rhs(cur, match), cur, Index(cur, match) + Len(match)))) \o V
<1> DEFINE right == Lines(RightOf(cur, match))
           rhs   == Rhs(cur, match)
           to    == Index(cur, match) + Len(match)
<1>1. rhs \in Seq(Line)
  BY StageSizes
<1>2. PICK E \in Seq(Line) : right = rhs \o E
  BY StageSizes
<1>3. /\ JoinsRight(cur, to) => rhs # <<>> /\ Below(rhs, cur, to) = rhs
      /\ ~ JoinsRight(cur, to) => Below(rhs, cur, to) = << <<>> >> \o rhs
  BY DEF Below
<1>4. ~ JoinsRight(cur, to) => \E T \in Seq(Line) : right = << <<>> >> \o T
  BY RightBegins
<1> HIDE DEF right, rhs, to
<1>5. CASE JoinsRight(cur, to)
  <2>1. rhs \in Texts
    BY <1>1, <1>3, <1>5 DEF Texts
  <2>2. \E V \in Seq(Line) : \A X \in Texts : Text(Glue(X, rhs \o E)) = Text(Glue(X, rhs)) \o V
    BY <2>1, RightJoined
  <2> QED BY <1>2, <1>3, <1>5, <2>2 DEF right, rhs, to
<1>6. CASE ~ JoinsRight(cur, to)
  <2>1. PICK T \in Seq(Line) : right = << <<>> >> \o T
    BY <1>4, <1>6
  <2>2. \E V \in Seq(Line) : \A X \in Texts :
          Text(Glue(X, << <<>> >> \o T)) = Text(Glue(X, << <<>> >> \o rhs)) \o V
    <3>1. << <<>> >> \o T = rhs \o E
      BY <1>2, <2>1
    <3> QED BY <1>1, <3>1, RightApart
  <2> QED BY <1>3, <1>6, <2>1, <2>2 DEF right, rhs, to
<1> QED BY <1>5, <1>6

\* The lines that are reported when the match itself has not too many.
LEMMA ExtractedAround ==
  ASSUME NEW cur \in Seq(Char), NEW match \in Seq(Char), Index(cur, match) # -1,
         Len(Lines(match)) < MaxLines, Merged(cur, match) # Panic
  PROVE  \E A, B \in Texts, U, V \in Seq(Line) :
           LET lines == Glue(A, Glue(Lines(match), B))
           IN  /\ [Merged(cur, match) EXCEPT !.lines = LastN(@, MaxLines)] = Extracted(lines)
               /\ Len(lines) <= MaxLines
               /\ Text(Lines(cur)) = (U \o Text(lines)) \o V
<1> DEFINE left  == Lines(LeftOf(cur, match))
           mine  == Lines(match)
           right == Lines(RightOf(cur, match))
           at    == Index(cur, match)
           P     == Above(Lhs(cur, match), cur, at)
           B     == Below(Rhs(cur, match), cur, at + Len(match))
<1>1. /\ left \in Texts /\ mine \in Texts /\ right \in Texts
      /\ Lines(cur) = Glue(Glue(left, mine), right)
  BY Parts
<1>2. /\ Lhs(cur, match) \in Texts /\ Rhs(cur, match) \in Seq(Line)
      /\ Len(Rhs(cur, match)) \in Nat /\ Len(Rhs(cur, match)) <= Room(cur, match)
      /\ Room(cur, match) \in Nat /\ Len(mine) \in Nat \ {0}
      /\ Len(mine) + Room(cur, match) <= MaxLines
  BY StageSizes
<1>3. /\ ~ (JoinsRight(cur, at + Len(match)) /\ Rhs(cur, match) = <<>>)
      /\ Merged(cur, match) = Extracted(Glue(Glue(P, mine), B))
  <2>1. Merged(cur, match)
          = IF JoinsRight(cur, at + Len(match)) /\ Rhs(cur, match) = <<>> THEN Panic
            ELSE Extracted(Glue(Glue(P, mine), B))
    BY <1>1, <1>2, MergeIsGlue DEF Merged
  <2> QED BY <2>1
<1>4. P \in Texts /\ B \in Texts /\ Len(B) <= Len(Rhs(cur, match)) + 1 /\ Len(B) \in Nat
  BY <1>2, <1>3, AboveBelow, SMTT(40)
<1>5. \A D \in Seq(Line), A \in Texts : P = D \o A =>
        \E U \in Seq(Line) : \A Q \in Texts : Text(Glue(left, Q)) = U \o Text(Glue(A, Q))
  BY LeftStage
<1>6. \E V \in Seq(Line) : \A X \in Texts : Text(Glue(X, right)) = Text(Glue(X, B)) \o V
  BY <1>3, RightStage
<1> HIDE DEF left, mine, right, at, P, B
<1> DEFINE Z == Glue(mine, B)
<1>7. Z \in Texts /\ Len(Z) = Len(mine) + Len(B) - 1
  BY <1>1, <1>4, GlueType, GlueLen
<1>8. Len(Z) <= MaxLines
  BY <1>2, <1>4, <1>7, SizesAssumption
<1>9. /\ Glue(Glue(P, mine), B) = Glue(P, Z) /\ Glue(Glue(left, mine), B) = Glue(left, Z)
      /\ Glue(left, mine) \in Texts
  BY <1>1, <1>4, GlueAssociative, GlueType
<1> HIDE DEF Z
<1>10. PICK D \in Seq(Line), A \in Texts :
          P = D \o A /\ LastN(Glue(P, Z), MaxLines) = Glue(A, Z) /\ Len(Glue(A, Z)) <= MaxLines
  BY <1>4, <1>7, <1>8, LastNOfGlue
<1>11. PICK U \in Seq(Line) : \A Q \in Texts : Text(Glue(left, Q)) = U \o Text(Glue(A, Q))
  BY <1>5, <1>10
<1>12. PICK V \in Seq(Line) : \A X \in Texts : Text(Glue(X, right)) = Text(Glue(X, B)) \o V
  BY <1>6
<1>13. Text(Lines(cur)) = (U \o Text(Glue(A, Z))) \o V
  <2>1. Text(Glue(Glue(left, mine), right)) = Text(Glue(Glue(left, mine), B)) \o V
    BY <1>9, <1>12
  <2>2. Text(Glue(left, Z)) = U \o Text(Glue(A, Z))
    BY <1>7, <1>11
  <2> QED BY <1>1, <1>9, <2>1, <2>2
<1>14. Merged(cur, match) = Extracted(Glue(P, Z))
  BY <1>3, <1>9
<1>15. [Merged(cur, match) EXCEPT !.lines = LastN(@, MaxLines)] = Extracted(Glue(A, Z))
  <2>1. [Extracted(Glue(P, Z)) EXCEPT !.lines = LastN(@, MaxLines)]
          = Extracted(LastN(Glue(P, Z), MaxLines))
    BY Records
  <2> QED BY <1>10, <1>14, <2>1
<1> QED BY <1>4, <1>10, <1>13, <1>15 DEF Z, mine

\* Why extractMatchLog panics where the match is found.
LEMMA PanicsAt ==
  ASSUME NEW cur \in Seq(Char), NEW match \in Seq(Char), Index(cur, match) # -1,
         Merged(cur, match) = Panic
  PROVE  Len(Lines(match)) >= MaxLines - 3
<1>1. /\ Lhs(cur, match) \in Texts /\ Rhs(cur, match) \in Seq(Line) /\ Lines(match) \in Texts
      /\ Len(Lines(match)) \in Nat
      /\ Len(Lines(match)) < MaxLines - 3 => Len(Rhs(cur, match)) > 0
  BY StageSizes, Parts
<1>2. Merged(cur, match)
        = IF JoinsRight(cur, Index(cur, match) + Len(match)) /\ Rhs(cur, match) = <<>> THEN Panic
          ELSE Extracted(Glue(Glue(Above(Lhs(cur, match), cur, Index(cur, match)), Lines(match)),
                              Below(Rhs(cur, match), cur, Index(cur, match) + Len(match))))
  BY <1>1, MergeIsGlue DEF Merged
<1>3. \A l : Extracted(l) # Panic
  <2>1. Panic.panic = TRUE
    BY DEF Panic
  <2>2. \A l : Extracted(l).panic = FALSE
    BY DEF Extracted
  <2> QED BY <2>1, <2>2
<1>4. Rhs(cur, match) = <<>>
  BY <1>2, <1>3
<1>5. Len(Rhs(cur, match)) = 0
  BY <1>4
<1> QED BY <1>1, <1>5, SizesAssumption

-----------------------------------------------------------------------------
(* What extractMatchLog returns, and the invariant.                        *)

\* What Cut cuts out of the log is the match with what is before and after it.
LEMMA AroundMatch ==
  ASSUME NEW s \in Seq(Char), NEW from \in 0..Len(s), NEW to \in from..Len(s)
  PROVE  \E a, b \in Seq(Char) :
           SubSeq(s, Most(from - MaxSize, 0) + 1, Least(to + MaxSize, Len(s)))
             = (a \o SubSeq(s, from + 1, to)) \o b
<1>1. Len(s) \in Nat /\ MaxSize \in Nat /\ from \in Nat /\ to \in Nat /\ to <= Len(s)
  BY LenProperties, SizesAssumption
<1> DEFINE i == Most(from - MaxSize, 0) + 1
           j == Least(to + MaxSize, Len(s))
           a == SubSeq(s, i, from)
           m == SubSeq(s, from + 1, to)
           b == SubSeq(s, to + 1, j)
<1>2. i \in Int /\ j \in Int /\ 1 <= i /\ j <= Len(s) /\ i <= from + 1 /\ to <= j
  BY <1>1 DEF Most, Least
<1> HIDE DEF i, j
<1>3. a \in Seq(Char) /\ m \in Seq(Char) /\ b \in Seq(Char)
  BY <1>1, <1>2, SliceType
<1>4. a \o m = SubSeq(s, i, to)
  <2>1. i \in 1..(Len(s) + 1) /\ from \in (i - 1)..Len(s) /\ to \in from..Len(s)
    BY <1>1, <1>2
  <2> QED BY <2>1, ConcatAdjacentSubSeq
<1>5. SubSeq(s, i, to) \o b = SubSeq(s, i, j)
  <2>1. i \in 1..(Len(s) + 1) /\ to \in (i - 1)..Len(s) /\ j \in to..Len(s)
    BY <1>1, <1>2
  <2> QED BY <2>1, ConcatAdjacentSubSeq
<1>6. SubSeq(s, i, j) = (a \o m) \o b
  BY <1>4, <1>5
<1> QED BY <1>3, <1>6 DEF i, j

\* A match that is not found where carriage returns were removed has one.
LEMMA NotFound ==
  ASSUME NEW s \in Seq(Char), NEW from \in 0..Len(s), NEW to \in from..Len(s),
         "r" \notin ToSet(SubSeq(s, from + 1, to))
  PROVE  Index(Cut(s, from, to), SubSeq(s, from + 1, to)) # -1
<1> DEFINE m == SubSeq(s, from + 1, to)
<1>1. m \in Seq(Char)
  BY CutType
<1>2. PICK a \in Seq(Char), b \in Seq(Char) :
        SubSeq(s, Most(from - MaxSize, 0) + 1, Least(to + MaxSize, Len(s))) = (a \o m) \o b
  BY AroundMatch
<1>3. Cut(s, from, to) = Unix((a \o m) \o b)
  BY <1>2 DEF Cut
<1>4. "r" \notin ToSet(m)
  OBVIOUS
<1> HIDE DEF m
<1>5. m \in Seq(Char \ {"r"})
  <2>1. Len(m) \in Nat /\ DOMAIN m = 1..Len(m) /\ \A i \in 1..Len(m) : m[i] \in Char
    BY <1>1, LenProperties, ElementOfSeq
  <2>2. \A i \in 1..Len(m) : m[i] \in Char \ {"r"}
    BY <1>4, <2>1 DEF ToSet
  <2>3. SubSeq(m, 1, Len(m)) \in Seq(Char \ {"r"})
    BY <2>1, <2>2, SubSeqProperties
  <2> QED BY <1>1, <2>3, SubSeqFull
<1>6. PICK A \in Seq(Char), B \in Seq(Char) : Unix((a \o m) \o b) = (A \o m) \o B
  BY <1>5, UnixKeeps
<1>7. Index((A \o m) \o B, m) # -1
  BY <1>1, IndexFinds
<1> QED BY <1>3, <1>6, <1>7 DEF m

\* What extractMatchLog returns.
Explained(match) == "r" \in ToSet(match) \/ Len(Lines(match)) >= MaxLines - 3

\* The lines are those of the match between others, and their text is a piece
\* of the text around the match.
IsPiece(cur, match, lines) ==
    \E A, B \in Texts, U, V \in Seq(Line) :
      /\ lines = Glue(A, Glue(Lines(match), B))
      /\ Len(lines) <= MaxLines
      /\ Text(Lines(cur)) = (U \o Text(lines)) \o V

\* extractMatchLog panics for one of the two reasons, returns the last lines of a
\* long match, or returns lines around the whole match.
LEMMA MatchLogReturns ==
  ASSUME NEW s \in Seq(Char), NEW from \in 0..Len(s), NEW to \in from..Len(s),
         NEW cur, NEW match, cur = Cut(s, from, to), match = SubSeq(s, from + 1, to)
  PROVE  \/ MatchLog(s, from, to).panic = TRUE /\ Explained(match)
         \/ /\ Len(Lines(match)) >= MaxLines
            /\ MatchLog(s, from, to) = Extracted(LastN(Lines(match), MaxLines))
         \/ /\ Len(Lines(match)) < MaxLines
            /\ \E lines : MatchLog(s, from, to) = Extracted(lines) /\ IsPiece(cur, match, lines)
<1> DEFINE r == MatchLog(s, from, to)
<1>1. cur \in Seq(Char) /\ match \in Seq(Char)
  BY CutType
<1>2. r = Returned(cur, match)
  BY MatchLogIs
<1>3. Index(cur, match) = -1 => "r" \in ToSet(match)
  BY NotFound
<1>4. Len(Lines(match)) \in Nat /\ MaxLines \in Nat
  <2>1. Lines(match) \in Seq(Line)
    BY <1>1, LinesType DEF Texts
  <2> QED BY <2>1, LenProperties, SizesAssumption
<1> HIDE DEF r
<1>5. CASE Index(cur, match) = -1
  <2>1. r = Panic
    BY <1>2, <1>5 DEF Returned
  <2> QED BY <1>3, <1>5, <2>1, Records DEF r, Explained
<1>6. CASE Index(cur, match) # -1 /\ Len(Lines(match)) >= MaxLines
  <2>1. r = Extracted(LastN(Lines(match), MaxLines))
    BY <1>2, <1>6 DEF Returned
  <2> QED BY <1>6, <2>1 DEF r
<1>7. CASE Index(cur, match) # -1 /\ ~ (Len(Lines(match)) >= MaxLines)
  <2>1. r = [Merged(cur, match) EXCEPT !.lines = LastN(@, MaxLines)]
    BY <1>2, <1>7 DEF Returned
  <2>2. Len(Lines(match)) < MaxLines
    BY <1>4, <1>7
  <2>3. CASE Merged(cur, match) = Panic
    <3>1. Explained(match)
      BY <1>1, <1>7, <2>3, PanicsAt DEF Explained
    <3>2. r.panic = TRUE
      BY <2>1, <2>3, Records
    <3> QED BY <3>1, <3>2 DEF r
  <2>4. CASE Merged(cur, match) # Panic
    <3>1. PICK A \in Texts, B \in Texts, U \in Seq(Line), V \in Seq(Line) :
            LET lines == Glue(A, Glue(Lines(match), B))
            IN  /\ [Merged(cur, match) EXCEPT !.lines = LastN(@, MaxLines)] = Extracted(lines)
                /\ Len(lines) <= MaxLines
                /\ Text(Lines(cur)) = (U \o Text(lines)) \o V
      BY <1>1, <1>7, <2>2, <2>4, ExtractedAround
    <3>2. IsPiece(cur, match, Glue(A, Glue(Lines(match), B)))
      BY <3>1 DEF IsPiece
    <3> QED BY <2>1, <2>2, <3>1, <3>2 DEF r
  <2> QED BY <2>3, <2>4
<1> QED BY <1>5, <1>6, <1>7

-----------------------------------------------------------------------------
Outcome == IF lo = -1 THEN Extracted(TailLog(content)) ELSE MatchLog(content, lo, hi)

\* The inductive invariant: the log and the match do not change, and the result
\* is what the two functions return.
LogInv ==
    /\ content \in Contents
    /\ lo # -1 => lo \in 0..Len(content) /\ hi \in lo..Len(content)
    /\ result = Pending \/ result = Outcome

\* The invariant holds.
LEMMA LogInvHolds == Spec => []LogInv
<1>1. Init => LogInv
  BY DEF Init, LogInv
<1>2. LogInv /\ [Next]_vars => LogInv'
  <2> SUFFICES ASSUME LogInv, [Next]_vars PROVE LogInv'
    OBVIOUS
  <2>1. CASE Extract
    BY <2>1 DEF Extract, LogInv, Outcome
  <2>2. CASE UNCHANGED vars
    BY <2>2 DEF vars, LogInv, Outcome
  <2> QED BY <2>1, <2>2 DEF Next
<1> QED BY <1>1, <1>2, PTL DEF Spec

\* A line has no line feed.
LEMMA NoLineFeed ==
  ASSUME NEW P \in Seq(Line)
  PROVE  \A i \in DOMAIN P : "n" \notin ToSet(P[i])
<1> SUFFICES ASSUME NEW i \in DOMAIN P PROVE "n" \notin ToSet(P[i])
  OBVIOUS
<1>1. P[i] \in Line
  BY LenProperties, ElementOfSeq
<1> DEFINE p == P[i]
<1>2. p \in Seq(Char \ {"n"})
  BY <1>1 DEF Line
<1> HIDE DEF p
<1>3. \A k \in DOMAIN p : p[k] # "n"
  BY <1>2
<1>4. "n" \notin ToSet(p)
  BY <1>3 DEF ToSet
<1> QED BY <1>4 DEF p

\* What is in the middle of a list of lines is a piece of it.
LEMMA InTheMiddle ==
  ASSUME NEW U \in Seq(Line), NEW T \in Seq(Line), NEW V \in Seq(Line)
  PROVE  T \in SubSeqs((U \o T) \o V)
<1> DEFINE W == (U \o T) \o V
<1>1. /\ SubSeq(W, Len(U) + 1, Len(U) + Len(T)) = T
      /\ Len(U) \in 0..Len(W) /\ Len(U) + Len(T) \in 0..Len(W)
  BY MiddleOf
<1> HIDE DEF W
<1>2. \E i, j \in 0..Len(W) : T = SubSeq(W, i + 1, j)
  BY <1>1
<1>3. T \in {SubSeq(W, i + 1, j) : i, j \in 0..Len(W)}
  BY <1>2, Z3
<1> QED BY <1>3, SMTT(40) DEF SubSeqs, W

\* extractNlinesTailLog (lines 238-250) returns lines.
LEMMA TailLogType == \A s \in Seq(Char) : TailLog(s) \in Seq(Line)
<1> SUFFICES ASSUME NEW s \in Seq(Char) PROVE TailLog(s) \in Seq(Line)
  OBVIOUS
<1>1. Len(s) \in Nat /\ MaxSize \in Nat /\ MaxLines \in Nat
  BY LenProperties, SizesAssumption
<1> DEFINE i == Most(Len(s) - MaxSize, 0) + 1
<1>2. i \in Int /\ 1 <= i /\ Len(s) \in Int /\ Len(s) <= Len(s)
  BY <1>1 DEF Most
<1> HIDE DEF i
<1>3. SubSeq(s, i, Len(s)) \in Seq(Char)
  BY <1>2, SliceType
<1>4. Lines(Unix(SubSeq(s, i, Len(s)))) \in Seq(Line)
  BY <1>3, UnixType, LinesType DEF Texts
<1>5. LastN(Lines(Unix(SubSeq(s, i, Len(s)))), MaxLines) \in Seq(Line)
  BY <1>1, <1>4, LastNFacts
<1> QED BY <1>5 DEF TailLog, i

\* The invariant implies each of the three properties.
LEMMA LogInvShows == LogInv => MatchIsShown
<1> SUFFICES ASSUME LogInv, Shown, lo # -1
             PROVE  LET match == SubSeq(content, lo + 1, hi)
                        mine  == Lines(match)
                    IN  /\ Len(result.lines) <= MaxLines
                        /\ IF Len(mine) < MaxLines
                             THEN Index(Join(result.lines), match) # -1
                             ELSE result.lines = LastN(mine, MaxLines)
  BY DEF MatchIsShown
<1> DEFINE match == SubSeq(content, lo + 1, hi)
           mine  == Lines(match)
<1>1. content \in Seq(Char) /\ lo \in 0..Len(content) /\ hi \in lo..Len(content)
  BY ContentsAssumption DEF LogInv
<1>2. result = MatchLog(content, lo, hi) /\ result.panic # TRUE
  BY DEF LogInv, Outcome, Shown
<1>3. match \in Seq(Char)
  BY <1>1, CutType
<1>4. \/ Len(mine) >= MaxLines /\ result = Extracted(LastN(mine, MaxLines))
      \/ /\ Len(mine) < MaxLines
         /\ \E lines : result = Extracted(lines) /\ IsPiece(Cut(content, lo, hi), match, lines)
  <2> DEFINE cur == Cut(content, lo, hi)
  <2>1. cur = Cut(content, lo, hi) /\ match = SubSeq(content, lo + 1, hi)
    OBVIOUS
  <2> HIDE DEF cur, match
  <2> QED BY <1>1, <1>2, <2>1, MatchLogReturns
<1> HIDE DEF match
<1>5. mine \in Texts /\ mine \in Seq(Line) /\ Join(mine) = match
  BY <1>3, LinesType, JoinOfLines DEF Texts
<1>6. Len(mine) \in Nat /\ MaxLines \in Nat
  BY <1>5, LenProperties, SizesAssumption
<1> HIDE DEF mine
<1>7. CASE Len(mine) >= MaxLines /\ result = Extracted(LastN(mine, MaxLines))
  <2>1. result.lines = LastN(mine, MaxLines)
    BY <1>7, Records
  <2>2. Len(LastN(mine, MaxLines)) = Least(Len(mine), MaxLines)
    BY <1>5, <1>6, LastNFacts
  <2>3. Len(result.lines) <= MaxLines /\ ~ (Len(mine) < MaxLines)
    BY <1>6, <1>7, <2>1, <2>2 DEF Least
  <2> QED BY <2>1, <2>3 DEF mine, match
<1>8. CASE /\ Len(mine) < MaxLines
           /\ \E lines : /\ result = Extracted(lines)
                         /\ IsPiece(Cut(content, lo, hi), match, lines)
  <2>1. PICK A \in Texts, B \in Texts : /\ result = Extracted(Glue(A, Glue(mine, B)))
                                        /\ Len(Glue(A, Glue(mine, B))) <= MaxLines
    BY <1>8 DEF IsPiece, mine
  <2>2. result.lines = Glue(A, Glue(mine, B))
    BY <2>1, Records
  <2>3. Glue(mine, B) \in Texts
    BY <1>5, GlueType
  <2>4. Join(Glue(A, Glue(mine, B))) = Join(A) \o Join(Glue(mine, B)) /\ Join(A) \in Seq(Char)
    BY <2>3, JoinOfGlue
  <2>5. Join(Glue(mine, B)) = match \o Join(B)
    BY <1>5, JoinOfGlue
  <2>6. Join(B) \in Seq(Char)
    BY JoinOfGlue
  <2> DEFINE a == Join(A)
             b == Join(B)
  <2>7. a \in Seq(Char) /\ b \in Seq(Char)
    BY <2>4, <2>6
  <2> HIDE DEF a, b
  <2>8. a \o (match \o b) = (a \o match) \o b
    BY <1>3, <2>7, ConcatAssociative, SMTT(40)
  <2>9. Index((a \o match) \o b, match) # -1
    BY <1>3, <2>7, IndexFinds
  <2>10. Index(Join(result.lines), match) # -1
    BY <2>2, <2>4, <2>5, <2>8, <2>9 DEF a, b
  <2>11. Len(result.lines) <= MaxLines
    BY <2>1, <2>2
  <2> QED BY <1>8, <2>10, <2>11 DEF mine, match
<1> QED BY <1>4, <1>7, <1>8

\* It implies that what is reported is a piece of the log.
LEMMA LogInvContiguous == LogInv => ReportIsContiguous
<1> DEFINE all == Text(Lines(Cut(content, lo, hi)))
           match == SubSeq(content, lo + 1, hi)
<1>1. SUFFICES ASSUME LogInv, Shown
               PROVE  /\ \A i \in DOMAIN result.lines : "n" \notin ToSet(result.lines[i])
                      /\ lo # -1 /\ Len(Lines(match)) < MaxLines
                           => Text(result.lines) \in SubSeqs(all)
  BY DEF ReportIsContiguous, Cut
<1>2. content \in Seq(Char) /\ result = Outcome /\ result.panic # TRUE
  BY <1>1, ContentsAssumption DEF LogInv, Shown
<1>3. CASE lo = -1
  <2>1. result.lines = TailLog(content) /\ result.lines \in Seq(Line)
    BY <1>2, <1>3, Records, TailLogType DEF Outcome
  <2> QED BY <1>3, <2>1, NoLineFeed
<1>4. CASE lo # -1
  <2>1. lo \in 0..Len(content) /\ hi \in lo..Len(content) /\ result = MatchLog(content, lo, hi)
    BY <1>1, <1>2, <1>4 DEF LogInv, Outcome
  <2>2. \/ Len(Lines(match)) >= MaxLines /\ result = Extracted(LastN(Lines(match), MaxLines))
        \/ \E lines : result = Extracted(lines) /\ IsPiece(Cut(content, lo, hi), match, lines)
    <3> DEFINE cur == Cut(content, lo, hi)
    <3>1. cur = Cut(content, lo, hi) /\ match = SubSeq(content, lo + 1, hi)
      OBVIOUS
    <3> HIDE DEF cur, match, all
    <3>2. result.panic # TRUE /\ result = MatchLog(content, lo, hi) /\ content \in Seq(Char)
      BY <1>2, <2>1
    <3>3. \/ MatchLog(content, lo, hi).panic = TRUE /\ Explained(match)
          \/ /\ Len(Lines(match)) >= MaxLines
             /\ MatchLog(content, lo, hi) = Extracted(LastN(Lines(match), MaxLines))
          \/ /\ Len(Lines(match)) < MaxLines
             /\ \E lines : /\ MatchLog(content, lo, hi) = Extracted(lines)
                           /\ IsPiece(cur, match, lines)
      BY <2>1, <3>1, <3>2, MatchLogReturns
    <3> QED BY <3>1, <3>2, <3>3
  <2>3. match \in Seq(Char)
    BY <1>2, <2>1, CutType
  <2> HIDE DEF match, all
  <2>4. Lines(match) \in Texts /\ Lines(match) \in Seq(Line)
    BY <2>3, LinesType DEF Texts
  <2>5. Len(Lines(match)) \in Nat /\ MaxLines \in Nat
    BY <2>4, LenProperties, SizesAssumption
  <2>6. CASE Len(Lines(match)) >= MaxLines /\ result = Extracted(LastN(Lines(match), MaxLines))
    <3>1. result.lines = LastN(Lines(match), MaxLines)
      BY <2>6, Records
    <3>2. result.lines \in Seq(Line)
      BY <2>4, <2>5, <3>1, LastNFacts
    <3>3. ~ (Len(Lines(match)) < MaxLines)
      BY <2>5, <2>6
    <3> QED BY <3>2, <3>3, NoLineFeed
  <2>7. CASE \E lines : result = Extracted(lines) /\ IsPiece(Cut(content, lo, hi), match, lines)
    <3>1. PICK A \in Texts, B \in Texts, U \in Seq(Line), V \in Seq(Line) :
             /\ result = Extracted(Glue(A, Glue(Lines(match), B)))
             /\ all = (U \o Text(Glue(A, Glue(Lines(match), B)))) \o V
      BY <2>7 DEF IsPiece, all
    <3>2. result.lines = Glue(A, Glue(Lines(match), B))
      BY <3>1, Records
    <3>3. result.lines \in Seq(Line)
      BY <2>4, <3>2, GlueType DEF Texts
    <3>4. Text(result.lines) \in Seq(Line) /\ all = (U \o Text(result.lines)) \o V
      BY <3>1, <3>2, <3>3, TextOfConcat
    <3>5. Text(result.lines) \in SubSeqs(all)
      BY <3>4, InTheMiddle
    <3> QED BY <3>3, <3>5, NoLineFeed
  <2> QED BY <2>2, <2>6, <2>7
<1> QED BY <1>3, <1>4

\* It implies that a panic has its reason.
LEMMA LogInvPanics == LogInv => PanicNeedsLongOrCR
<1> SUFFICES ASSUME LogInv, result.panic
             PROVE  LET match == SubSeq(content, lo + 1, hi)
                    IN  "r" \in ToSet(match) \/ Len(Lines(match)) >= MaxLines - 3
  BY DEF PanicNeedsLongOrCR
<1>1. content \in Seq(Char) /\ result = Outcome /\ lo # -1
  BY ContentsAssumption, Records DEF LogInv, Outcome
<1>2. lo \in 0..Len(content) /\ hi \in lo..Len(content) /\ result = MatchLog(content, lo, hi)
  BY <1>1 DEF LogInv, Outcome
<1> DEFINE match == SubSeq(content, lo + 1, hi)
<1>3. match \in Seq(Char)
  BY <1>1, <1>2, CutType
<1>4. Explained(match) \/ Len(Lines(match)) >= MaxLines \/ \E l : result = Extracted(l)
  <2> DEFINE cur == Cut(content, lo, hi)
  <2>1. cur = Cut(content, lo, hi) /\ match = SubSeq(content, lo + 1, hi)
    OBVIOUS
  <2> HIDE DEF cur, match
  <2> QED BY <1>1, <1>2, <2>1, MatchLogReturns, ZenonT(40)
<1>5. ~ \E l : result = Extracted(l)
  BY Records
<1> HIDE DEF match
<1>6. Len(Lines(match)) \in Nat /\ MaxLines \in Nat
  <2>1. Lines(match) \in Seq(Line)
    BY <1>3, LinesType DEF Texts
  <2> QED BY <2>1, LenProperties, SizesAssumption
<1>7. "r" \in ToSet(match) \/ Len(Lines(match)) >= MaxLines - 3
  BY <1>4, <1>5, <1>6 DEF Explained
<1> QED BY <1>7 DEF match

\* Of every log, and whatever the sizes, what extractMatchLog (lines 259-311)
\* returns has at most MaxLines lines, and the whole match is in it, or its last
\* lines if it has too many: mergeLogs joins the lines the match begins and ends
\* in, and the lines that are dropped are all before the match.
THEOREM MatchAlwaysShown == Spec => []MatchIsShown
<1> QED BY LogInvHolds, LogInvShows, PTL

\* The lines reported (mergeLogs, lines 217-236; the tail, lines 238-250) are
\* whole lines, and those around a match are a piece of the log without a gap, up
\* to empty lines.
THEOREM ReportsArePieces == Spec => []ReportIsContiguous
<1> QED BY LogInvHolds, LogInvContiguous, PTL

\* extractMatchLog ends with an index out of range (so exithandler writes no
\* report, main.go:43-49) only for a match with a carriage return, or one of at
\* least MaxLines - 3 lines: any other match is found in the text around it, and
\* mergeLogs has a line after it to join.
THEOREM PanicsAreExplained == Spec => []PanicNeedsLongOrCR
<1> QED BY LogInvHolds, LogInvPanics, PTL
=============================================================================
