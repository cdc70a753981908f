------------------------- MODULE FindingRuleProofs -------------------------
(***************************************************************************)
(* Theorems about FindingRule, for every table, width of a segment and     *)
(* recommended version.                                                    *)
(***************************************************************************)
EXTENDS FindingRule, SequenceTheorems, TLAPS

-----------------------------------------------------------------------------
(* The comparison.                                                         *)

(* Whatever a segment is, it counts as a number.                           *)
LEMMA ValueIsNumber ==
  ASSUME NEW v \in Text, NEW i
  PROVE  Value(v, i) \in Nat
BY MaxSegmentIsNumber DEF Value

LEMMA NumbersOfSegments ==
  ASSUME NEW a \in Text, NEW b \in Text
  PROVE  /\ Len(a) \in Nat /\ Len(b) \in Nat
         /\ Segments(a, b) \in Nat
         /\ Segments(a, b) >= Len(a) /\ Segments(a, b) >= Len(b)
         /\ Segments(a, b) <= Len(a) + Len(b)
BY DEF Segments, Text

(* Behind the longer version both count as 0.                              *)
LEMMA EqualBehindTheEnd ==
  ASSUME NEW a \in Text, NEW b \in Text, NEW i \in Nat, i > Segments(a, b)
  PROVE  Value(a, i) = 0 /\ Value(b, i) = 0
<1>1. Len(a) \in Nat /\ Len(b) \in Nat /\ i > Len(a) /\ i > Len(b)
  BY NumbersOfSegments
<1>2. i \notin 1..Len(a) /\ i \notin 1..Len(b)
  BY <1>1
<1> QED BY <1>2 DEF Value

(* Versions that are equal to the end are not older than one another.      *)
LEMMA EqualIsNotOlder ==
  ASSUME NEW a \in Text, NEW b \in Text,
         \A j \in 1..Segments(a, b) : Value(a, j) = Value(b, j)
  PROVE  ~Older(a, b)
<1>1. SUFFICES ASSUME NEW i \in 1..(Len(a) + Len(b)), Value(a, i) < Value(b, i)
               PROVE  FALSE
  BY DEF Older
<1>2. i \in Nat /\ i >= 1
  BY NumbersOfSegments
<1>3. Value(a, i) = Value(b, i)
  <2>0. Segments(a, b) \in Nat
    BY NumbersOfSegments
  <2>1. CASE i <= Segments(a, b)
    <3>1. i \in 1..Segments(a, b)
      BY <1>2, <2>0, <2>1
    <3> QED BY <3>1
  <2>2. CASE i > Segments(a, b)
    BY <1>2, <2>2, EqualBehindTheEnd
  <2> QED BY <1>2, <2>0, <2>1, <2>2
<1>4. Value(a, i) \in Nat
  BY ValueIsNumber
<1> QED BY <1>1, <1>3, <1>4

(* The first segment that differs decides.                                 *)
LEMMA DifferenceDecides ==
  ASSUME NEW a \in Text, NEW b \in Text, NEW s \in 1..Segments(a, b),
         \A j \in 1..(s - 1) : Value(a, j) = Value(b, j),
         Value(a, s) # Value(b, s)
  PROVE  Older(a, b) <=> Value(a, s) < Value(b, s)
<1>1. s \in 1..(Len(a) + Len(b)) /\ s \in Nat
  BY NumbersOfSegments
<1>2. Value(a, s) < Value(b, s) => Older(a, b)
  BY <1>1 DEF Older
<1>3. ASSUME Older(a, b) PROVE Value(a, s) < Value(b, s)
  <2>1. PICK i \in 1..(Len(a) + Len(b)) :
          /\ Value(a, i) < Value(b, i)
          /\ \A j \in 1..(i - 1) : Value(a, j) = Value(b, j)
    BY <1>3 DEF Older
  <2>2. i \in Nat /\ i >= 1 /\ s >= 1
    BY NumbersOfSegments
  <2>3. ~(i < s)
    <3>1. Value(a, i) \in Nat /\ Value(b, i) \in Nat
      BY ValueIsNumber
    <3>2. ASSUME i < s PROVE FALSE
      <4>1. i \in 1..(s - 1)
        BY <3>2, <2>2, <1>1
      <4> QED BY <4>1, <3>1, <2>1
    <3> QED BY <3>2
  <2>4. ~(s < i)
    <3>1. ASSUME s < i PROVE FALSE
      <4>1. s \in 1..(i - 1)
        BY <3>1, <2>2, <1>1
      <4> QED BY <4>1, <2>1
    <3> QED BY <3>1
  <2> QED BY <2>1, <2>2, <2>3, <2>4, <1>1
<1> QED BY <1>2, <1>3

(* A segment at the end that is 0 or no number that fits changes nothing:  *)
(* "1.29", "1.29.0" and "1.29.preview" compare alike with every version.   *)
LEMMA EndingCountsAsNothing ==
  ASSUME NEW a \in Text, NEW w, Append(a, w) \in Text, w \notin 1..MaxSegment, NEW i
  PROVE  Value(Append(a, w), i) = Value(a, i)
<1> DEFINE e == Append(a, w)
<1>1. Len(a) \in Nat /\ MaxSegment \in Nat
  BY MaxSegmentIsNumber DEF Text
<1>2. Len(e) = Len(a) + 1
  BY DEF Text
<1>3. CASE i \in 1..Len(a)
  <2>1. i \in 1..Len(e) /\ e[i] = a[i]
    BY <1>1, <1>2, <1>3 DEF Text
  <2> QED BY <1>3, <2>1 DEF Value
<1>4. CASE i \notin 1..Len(a)
  <2>1. Value(a, i) = 0
    BY <1>4 DEF Value
  <2>2. CASE i \notin 1..Len(e)
    BY <2>1, <2>2 DEF Value
  <2>3. CASE i \in 1..Len(e)
    <3>1. i = Len(a) + 1
      BY <1>1, <1>2, <1>4, <2>3
    <3>2. e[i] = w
      BY <3>1 DEF Text
    <3>3. e[i] \in 0..MaxSegment => e[i] = 0
      BY <1>1, <3>2
    <3> QED BY <2>1, <3>3 DEF Value
  <2> QED BY <2>2, <2>3
<1> QED BY <1>3, <1>4

(* A difference lies within the longer of two versions.                    *)
LEMMA DifferenceIsWithin ==
  ASSUME NEW a \in Text, NEW b \in Text, NEW i \in Nat, i >= 1, Value(a, i) # Value(b, i)
  PROVE  i \in 1..(Len(a) + Len(b))
<1>1. i <= Segments(a, b)
  BY EqualBehindTheEnd, NumbersOfSegments
<1> QED BY <1>1, NumbersOfSegments

(* Versions that count alike compare alike.                                *)
LEMMA OlderByValues ==
  ASSUME NEW a \in Text, NEW b \in Text, NEW c \in Text, NEW d \in Text,
         \A i : Value(a, i) = Value(c, i), \A i : Value(b, i) = Value(d, i), Older(a, b)
  PROVE  Older(c, d)
<1>1. PICK i \in 1..(Len(a) + Len(b)) :
        /\ Value(a, i) < Value(b, i)
        /\ \A j \in 1..(i - 1) : Value(a, j) = Value(b, j)
  BY DEF Older
<1>2. i \in Nat /\ i >= 1
  BY NumbersOfSegments
<1>3. Value(c, i) < Value(d, i) /\ \A j \in 1..(i - 1) : Value(c, j) = Value(d, j)
  BY <1>1
<1>4. Value(c, i) # Value(d, i)
  BY <1>3, ValueIsNumber
<1>5. i \in 1..(Len(c) + Len(d))
  BY <1>2, <1>4, DifferenceIsWithin
<1> QED BY <1>3, <1>5 DEF Older

\* What does not parse at the end of a version, or is 0, changes neither what
\* the version is older than nor what is older than it (finding.rs:37, "treating
\* unparsed segments as 0", and finding.rs:47-48, a missing segment is 0).
THEOREM EndingsDoNotCount ==
  ASSUME NEW a \in Text, NEW b \in Text, NEW w, Append(a, w) \in Text, w \notin 1..MaxSegment
  PROVE  /\ Older(Append(a, w), b) <=> Older(a, b)
         /\ Older(b, Append(a, w)) <=> Older(b, a)
<1> DEFINE e == Append(a, w)
<1>1. e \in Text /\ \A i : Value(e, i) = Value(a, i)
  BY EndingCountsAsNothing
<1> HIDE DEF e
<1>2. \A i : Value(a, i) = Value(e, i) /\ Value(b, i) = Value(b, i)
  BY <1>1
<1>3. Older(e, b) <=> Older(a, b)
  BY <1>1, <1>2, OlderByValues
<1>4. Older(b, e) <=> Older(b, a)
  BY <1>1, <1>2, OlderByValues
<1> QED BY <1>3, <1>4 DEF e

(* Whatever is older than an older version is older.                       *)
THEOREM OlderIsTransitive ==
  ASSUME NEW a \in Text, NEW b \in Text, NEW c \in Text, Older(a, b), Older(b, c)
  PROVE  Older(a, c)
<1>1. PICK i \in 1..(Len(a) + Len(b)) :
        /\ Value(a, i) < Value(b, i)
        /\ \A j \in 1..(i - 1) : Value(a, j) = Value(b, j)
  BY DEF Older
<1>2. PICK k \in 1..(Len(b) + Len(c)) :
        /\ Value(b, k) < Value(c, k)
        /\ \A j \in 1..(k - 1) : Value(b, j) = Value(c, j)
  BY DEF Older
<1>3. /\ Len(a) \in Nat /\ Len(b) \in Nat /\ Len(c) \in Nat
      /\ i \in Nat /\ k \in Nat /\ i >= 1 /\ k >= 1
  BY DEF Text
<1>4. \A j : Value(a, j) \in Nat /\ Value(b, j) \in Nat /\ Value(c, j) \in Nat
  BY ValueIsNumber
<1>5. PICK m \in Nat : m >= 1 /\ m <= i /\ m <= k /\ (m = i \/ m = k)
  <2>1. CASE i <= k
    BY <2>1, <1>3
  <2>2. CASE k <= i
    BY <2>2, <1>3
  <2> QED BY <1>3, <2>1, <2>2
<1>6. Value(a, m) < Value(c, m)
  <2>1. Value(a, m) <= Value(b, m)
    <3>1. CASE m = i
      BY <3>1, <1>1, <1>4
    <3>2. CASE m # i
      <4>1. m \in 1..(i - 1)
        BY <3>2, <1>3, <1>5
      <4> QED BY <4>1, <1>1, <1>4
    <3> QED BY <3>1, <3>2
  <2>2. Value(b, m) <= Value(c, m)
    <3>1. CASE m = k
      BY <3>1, <1>2, <1>4
    <3>2. CASE m # k
      <4>1. m \in 1..(k - 1)
        BY <3>2, <1>3, <1>5
      <4> QED BY <4>1, <1>2, <1>4
    <3> QED BY <3>1, <3>2
  <2>3. Value(a, m) < Value(b, m) \/ Value(b, m) < Value(c, m)
    BY <1>1, <1>2, <1>5
  <2>4. Value(a, m) \in Nat /\ Value(b, m) \in Nat /\ Value(c, m) \in Nat
    BY <1>4
  <2> QED BY <2>1, <2>2, <2>3, <2>4
<1>7. \A j \in 1..(m - 1) : Value(a, j) = Value(c, j)
  <2> TAKE j \in 1..(m - 1)
  <2>1. j \in 1..(i - 1) /\ j \in 1..(k - 1)
    BY <1>3, <1>5
  <2> QED BY <2>1, <1>1, <1>2
<1>8. m \in 1..(Len(a) + Len(c))
  <2>1. ASSUME m > Len(a) + Len(c) PROVE FALSE
    <3>1. Value(c, m) = 0
      BY <2>1, <1>3, <1>5 DEF Value
    <3> QED BY <3>1, <1>4, <1>6
  <2> QED BY <2>1, <1>3, <1>5
<1> QED BY <1>6, <1>7, <1>8 DEF Older

-----------------------------------------------------------------------------
(* The loops.                                                              *)

(* The version of a line of the table is a text.                           *)
LEMMA VersionsAreTexts ==
  ASSUME TypeOK, NEW k \in 1..Len(table)
  PROVE  Version(table[k]) \in Text
<1>1. table[k] \in Seq(Text)
  BY DEF TypeOK, Columns
<1>2. Unknown \in Text
  BY UnknownIsNoNumber DEF Text
<1>3. CASE Len(table[k]) < 3
  BY <1>2, <1>3 DEF Version
<1>4. CASE ~(Len(table[k]) < 3)
  <2>1. 3 \in 1..Len(table[k])
    BY <1>1, <1>4
  <2> QED BY <1>1, <1>4, <2>1 DEF Version
<1> QED BY <1>3, <1>4

(* A line that is decided joins the findings exactly if it is outdated.    *)
LEMMA LineDecided ==
  ASSUME IInv, line <= Len(table), line' = line + 1, table' = table,
         findings' = IF Outdated(table[line]) THEN findings \cup {line} ELSE findings
  PROVE  /\ findings' = {k \in 1..(line' - 1) : Outdated(table'[k])}
         /\ line' \in 1..(Len(table') + 1)
         /\ findings' \subseteq 1..Len(table')
<1>1. /\ Len(table) \in Nat /\ line \in Nat /\ line >= 1
      /\ findings = {k \in 1..(line - 1) : Outdated(table[k])}
  BY DEF IInv, TypeOK
<1>2. 1..(line' - 1) = 1..(line - 1) \cup {line} /\ line \notin 1..(line - 1)
  BY <1>1
<1>3. line \in 1..Len(table) /\ 1..(line - 1) \subseteq 1..Len(table)
  BY <1>1
<1>4. findings' = {k \in 1..(line' - 1) : Outdated(table[k])}
  BY <1>1, <1>2
<1>5. line' \in 1..(Len(table') + 1)
  BY <1>1
<1> QED BY <1>2, <1>3, <1>4, <1>5

LEMMA Initially ==
  ASSUME Init
  PROVE  IInv
<1>1. table \in Seq(Columns) /\ Len(table) \in Nat
  BY TablesHaveLines DEF Init
<1>2. 1..(line - 1) = {}
  BY DEF Init
<1> QED BY <1>1, <1>2 DEF Init, IInv, TypeOK

LEMMA SkipKeeps ==
  ASSUME IInv, Skip
  PROVE  IInv'
<1>1. ~Outdated(table[line])
  BY DEF Skip, Outdated
<1>2. /\ findings' = {k \in 1..(line' - 1) : Outdated(table'[k])}
      /\ line' \in 1..(Len(table') + 1)
      /\ findings' \subseteq 1..Len(table')
  BY <1>1, LineDecided DEF Skip
<1> QED BY <1>2 DEF Skip, IInv, TypeOK

LEMMA MatchKeeps ==
  ASSUME IInv, Match
  PROVE  IInv'
<1>1. Len(table) \in Nat /\ line \in 1..Len(table)
  BY DEF IInv, TypeOK, Match
<1>2. Segments(Installed, Recommended) \in Nat
  BY <1>1, VersionsAreTexts, NumbersOfSegments, TextsAreTexts DEF IInv, Installed
<1>3. seg' \in 1..(Segments(Installed, Recommended) + 1)
  BY <1>2 DEF Match
<1>4. Installed' = Installed
  BY DEF Match, Installed
<1>5. 1..(seg' - 1) = {}
  BY DEF Match
<1> QED BY <1>1, <1>3, <1>4, <1>5 DEF Match, IInv, TypeOK

(* What both sides of the loop of is_older know.                           *)
LEMMA Comparing ==
  ASSUME IInv, pc = "compare"
  PROVE  /\ line \in 1..Len(table) /\ line <= Len(table)
         /\ IsTarget(table[line])
         /\ Installed \in Text /\ Recommended \in Text
         /\ Segments(Installed, Recommended) \in Nat
         /\ seg \in Nat /\ seg >= 1
         /\ seg <= Segments(Installed, Recommended) + 1
         /\ Outdated(table[line]) <=> Older(Installed, Recommended)
<1>1. line \in 1..Len(table) /\ line <= Len(table)
  BY DEF IInv, TypeOK
<1>2. Installed \in Text /\ Recommended \in Text
  BY <1>1, VersionsAreTexts, TextsAreTexts DEF IInv, Installed
<1>3. Segments(Installed, Recommended) \in Nat
  BY <1>2, NumbersOfSegments
<1>4. seg \in 1..(Segments(Installed, Recommended) + 1) /\ IsTarget(table[line])
  BY DEF IInv
<1> QED BY <1>1, <1>2, <1>3, <1>4 DEF Outdated, Installed

LEMMA EqualKeeps ==
  ASSUME IInv, Equal
  PROVE  IInv'
<1>1. /\ Segments(Installed, Recommended) \in Nat
      /\ seg \in Nat /\ seg >= 1 /\ seg <= Segments(Installed, Recommended)
  BY Comparing DEF Equal
<1>2. seg' \in 1..(Segments(Installed, Recommended) + 1) /\ seg' \in Nat
  BY <1>1 DEF Equal
<1>3. 1..(seg' - 1) = 1..(seg - 1) \cup {seg}
  BY <1>1 DEF Equal
<1>4. Installed' = Installed
  BY DEF Equal, Installed
<1>5. \A j \in 1..(seg - 1) : Value(Installed, j) = Value(Recommended, j)
  BY DEF IInv, Equal
<1>6. \A j \in 1..(seg' - 1) : Value(Installed', j) = Value(Recommended, j)
  BY <1>3, <1>4, <1>5 DEF Equal
<1> QED BY <1>2, <1>4, <1>6 DEF Equal, IInv, TypeOK

LEMMA DifferKeeps ==
  ASSUME IInv, Differ
  PROVE  IInv'
<1>1. /\ Installed \in Text /\ Recommended \in Text /\ line <= Len(table)
      /\ Outdated(table[line]) <=> Older(Installed, Recommended)
      /\ seg \in 1..Segments(Installed, Recommended)
  BY Comparing DEF Differ
<1>2. \A j \in 1..(seg - 1) : Value(Installed, j) = Value(Recommended, j)
  BY DEF IInv, Differ
<1>3. Older(Installed, Recommended) <=> Value(Installed, seg) < Value(Recommended, seg)
  BY <1>1, <1>2, DifferenceDecides DEF Differ
<1>4. /\ findings' = {k \in 1..(line' - 1) : Outdated(table'[k])}
      /\ line' \in 1..(Len(table') + 1)
      /\ findings' \subseteq 1..Len(table')
  BY <1>1, <1>3, LineDecided DEF Differ, Evaluated
<1> QED BY <1>4 DEF Differ, Evaluated, IInv, TypeOK

LEMMA ExhaustedKeeps ==
  ASSUME IInv, Exhausted
  PROVE  IInv'
<1>1. /\ Installed \in Text /\ Recommended \in Text /\ line <= Len(table)
      /\ Outdated(table[line]) <=> Older(Installed, Recommended)
      /\ Segments(Installed, Recommended) \in Nat
      /\ seg = Segments(Installed, Recommended) + 1
  BY Comparing DEF Exhausted
<1>2. \A j \in 1..Segments(Installed, Recommended) : Value(Installed, j) = Value(Recommended, j)
  BY <1>1 DEF IInv, Exhausted
<1>3. ~Outdated(table[line])
  BY <1>1, <1>2, EqualIsNotOlder
<1>4. /\ findings' = {k \in 1..(line' - 1) : Outdated(table'[k])}
      /\ line' \in 1..(Len(table') + 1)
      /\ findings' \subseteq 1..Len(table')
  BY <1>1, <1>3, LineDecided DEF Exhausted, Evaluated
<1> QED BY <1>4 DEF Exhausted, Evaluated, IInv, TypeOK

LEMMA FinishKeeps ==
  ASSUME IInv, Finish
  PROVE  IInv'
<1>1. line = Len(table) + 1
  BY DEF IInv, TypeOK, Finish
<1> QED BY <1>1 DEF Finish, IInv, TypeOK

(* The inductive invariant: the lines behind are decided rightly, and the  *)
(* versions under comparison are equal so far.                             *)
THEOREM RuleInvariant == Spec => []IInv
<1>1. Init => IInv
  BY Initially
<1>2. IInv /\ [Next]_vars => IInv'
  <2>1. IInv /\ Next => IInv'
    BY SkipKeeps, MatchKeeps, EqualKeeps, DifferKeeps, ExhaustedKeeps, FinishKeeps DEF Next
  <2>2. IInv /\ UNCHANGED vars => IInv'
    BY DEF IInv, TypeOK, vars, Installed
  <2> QED BY <2>1, <2>2
<1> QED BY <1>1, <1>2, PTL DEF Spec

(* The loops compute the reference: exactly the outdated lines are         *)
(* reported.                                                               *)
THEOREM RuleIsExact == Spec => []ReportsExactlyOutdated
<1>1. IInv => ReportsExactlyOutdated
  <2> SUFFICES ASSUME IInv, pc = "done"
               PROVE  findings = {k \in 1..Len(table) : Outdated(table[k])}
    BY DEF ReportsExactlyOutdated
  <2>1. line - 1 = Len(table)
    BY DEF IInv, TypeOK
  <2> QED BY <2>1 DEF IInv
<1> QED BY <1>1, RuleInvariant, PTL

(* A version of numbers that fit counts as what it is, so the comparison   *)
(* of two such versions is the order of versions.                          *)
THEOREM ProperVersionsAreOrdered == Spec => []ProperVersionsCompareRight
<1>1. ASSUME NEW a \in Text, NEW b \in Text, Parses(a), Parses(b)
      PROVE  Older(a, b) <=> Before(a, b)
  <2>1. \A i : Value(a, i) = Number(a, i) /\ Value(b, i) = Number(b, i)
    BY <1>1 DEF Parses, Value, Number
  <2> QED BY <2>1 DEF Older, Before
<1>2. IInv => ProperVersionsCompareRight
  <2> SUFFICES ASSUME IInv, pc = "done", NEW k \in 1..Len(table),
                      IsTarget(table[k]), Parses(Version(table[k])), Parses(Recommended)
               PROVE  k \in findings <=> Before(Version(table[k]), Recommended)
    BY DEF ProperVersionsCompareRight
  <2>1. Version(table[k]) \in Text
    BY VersionsAreTexts DEF IInv
  <2>2. Outdated(table[k]) <=> Before(Version(table[k]), Recommended)
    BY <1>1, <2>1, TextsAreTexts DEF Outdated
  <2>3. line - 1 = Len(table)
    BY DEF IInv, TypeOK
  <2> QED BY <2>2, <2>3 DEF IInv
<1> QED BY <1>2, RuleInvariant, PTL

(* A version the agent could not read counts as the oldest.                *)
THEOREM UnknownVersionsAreReported == Spec => []UnknownIsReported
<1>1. IInv => UnknownIsReported
  <2> SUFFICES ASSUME IInv, pc = "done", NEW k \in 1..Len(table),
                      IsTarget(table[k]), Len(table[k]) < 3, Value(Recommended, 1) > 0
               PROVE  k \in findings
    BY DEF UnknownIsReported
  <2>1. \A i : Value(Unknown, i) = 0
    BY UnknownIsNoNumber, WordsAreNoNumbers, MaxSegmentIsNumber DEF Value
  <2>2. Version(table[k]) = Unknown
    BY DEF Version
  <2>3. 1 \in 1..Len(Recommended)
    BY TextsAreTexts DEF Value
  <2>4. Len(Unknown) \in Nat /\ Len(Recommended) \in Nat
    BY UnknownIsNoNumber, TextsAreTexts DEF Text
  <2>5. Older(Unknown, Recommended)
    <3>1. 1 \in 1..(Len(Unknown) + Len(Recommended)) /\ 1..(1 - 1) = {}
      BY <2>3, <2>4
    <3> QED BY <3>1, <2>1 DEF Older
  <2>6. line - 1 = Len(table)
    BY DEF IInv, TypeOK
  <2> QED BY <2>2, <2>5, <2>6 DEF IInv, Outdated
<1> QED BY <1>1, RuleInvariant, PTL
=============================================================================
