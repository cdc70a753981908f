---------------------------- MODULE FindingRule ----------------------------
(***************************************************************************)
(* The one rule of the server: which rows of the inventory a device sends  *)
(* become findings.  The agent takes name and version from the columns of  *)
(* winget's table; evaluate() keeps the rows of the target application     *)
(* whose version is_older() than the recommended one, comparing the        *)
(* versions segment by segment in a loop.                                  *)
(*                                                                         *)
(* A text is the sequence of its segments between dots: a number stands    *)
(* for a segment of digits, a word for any other segment.                  *)
(***************************************************************************)
EXTENDS Naturals, Sequences

CONSTANTS
  Words,         \* segments that are no numbers
  MaxSegment,    \* the largest number a segment may be: 2^64 - 1 in the code
  Tables,        \* the tables winget may print, below their header
  TargetName, Recommended, Unknown   \* the three texts the code names

Text    == Seq(Nat \cup Words)
Columns == Seq(Text)             \* a line; one without columns is blank

ASSUME WordsAreNoNumbers == Words \cap Nat = {}
ASSUME MaxSegmentIsNumber == MaxSegment \in Nat
ASSUME TablesHaveLines == Tables \subseteq Seq(Columns)
ASSUME TextsAreTexts == TargetName \in Text /\ Recommended \in Text
ASSUME UnknownIsNoNumber == Unknown \in Seq(Words)

VARIABLES
  table,      \* what winget printed
  line,       \* the line under evaluation
  seg,        \* the segment is_older is at
  findings,   \* the lines that became findings
  pc          \* "filter", "compare" or "done"

vars == <<table, line, seg, findings, pc>>

TypeOK ==
  /\ table \in Seq(Columns)
  /\ line \in 1..(Len(table) + 1)
  /\ seg \in Nat
  /\ findings \subseteq 1..Len(table)
  /\ pc \in {"filter", "compare", "done"}

(* One line of the table as the agent reads it; the rule takes no other    *)
(* application than one.                                                   *)
IsTarget(cols) == cols # <<>> /\ cols[1] = TargetName

(* Variant with a bug: a line that is short of columns gets no version.    *)
VersionOrEmpty(cols) == IF Len(cols) < 3 THEN Recommended ELSE cols[3]

Version(cols) == IF Len(cols) < 3 THEN Unknown ELSE cols[3]

(* parse() fails for words and for numbers that do not fit; both count as  *)
(* 0, and so do the segments the shorter version has not.                  *)

(* Variant with a bug: the number is cut to a width too small for it.      *)
ValueWraps(v, i) == IF i \in 1..Len(v) /\ v[i] \in Nat THEN v[i] % MaxSegment ELSE 0

Value(v, i) == IF i \in 1..Len(v) /\ v[i] \in 0..MaxSegment THEN v[i] ELSE 0

(* Variant with a bug: the loop ends with the shorter version.             *)
SegmentsOfShorter(a, b) == IF Len(a) <= Len(b) THEN Len(a) ELSE Len(b)

Segments(a, b) == IF Len(a) >= Len(b) THEN Len(a) ELSE Len(b)

-----------------------------------------------------------------------------
Init ==
  /\ table \in Tables
  /\ line = 1 /\ seg = 1
  /\ findings = {}
  /\ pc = "filter"

Installed == Version(table[line])

Skip ==
  /\ pc = "filter" /\ line <= Len(table)
  /\ ~IsTarget(table[line])
  /\ line' = line + 1
  /\ UNCHANGED <<table, seg, findings, pc>>

Match ==
  /\ pc = "filter" /\ line <= Len(table)
  /\ IsTarget(table[line])
  /\ pc' = "compare" /\ seg' = 1
  /\ UNCHANGED <<table, line, findings>>

Equal ==
  /\ pc = "compare" /\ seg <= Segments(Installed, Recommended)
  /\ Value(Installed, seg) = Value(Recommended, seg)
  /\ seg' = seg + 1
  /\ UNCHANGED <<table, line, findings, pc>>

Evaluated(older) ==
  /\ findings' = IF older THEN findings \cup {line} ELSE findings
  /\ line' = line + 1
  /\ pc' = "filter"
  /\ UNCHANGED <<table, seg>>

(* Variant with a bug: a smaller segment decides, a larger one does not.   *)
DifferGoesOn ==
  /\ pc = "compare" /\ seg <= Segments(Installed, Recommended)
  /\ Value(Installed, seg) # Value(Recommended, seg)
  /\ \/ Value(Installed, seg) < Value(Recommended, seg) /\ Evaluated(TRUE)
     \/ /\ Value(Installed, seg) > Value(Recommended, seg)
        /\ seg' = seg + 1
        /\ UNCHANGED <<table, line, findings, pc>>

Differ ==
  /\ pc = "compare" /\ seg <= Segments(Installed, Recommended)
  /\ Value(Installed, seg) # Value(Recommended, seg)
  /\ Evaluated(Value(Installed, seg) < Value(Recommended, seg))

Exhausted ==
  /\ pc = "compare" /\ seg > Segments(Installed, Recommended)
  /\ Evaluated(FALSE)

Finish ==
  /\ pc = "filter" /\ line > Len(table)
  /\ pc' = "done"
  /\ UNCHANGED <<table, line, seg, findings>>

Next == Skip \/ Match \/ Equal \/ Differ \/ Exhausted \/ Finish

Spec == Init /\ [][Next]_vars

-----------------------------------------------------------------------------
(* The reference: the first segment that differs decides.                  *)
Older(a, b) ==
  \E i \in 1..(Len(a) + Len(b)) :
    /\ Value(a, i) < Value(b, i)
    /\ \A j \in 1..(i - 1) : Value(a, j) = Value(b, j)

Outdated(cols) == IsTarget(cols) /\ Older(Version(cols), Recommended)

\* Why it works: the lines behind are decided, and so far the two versions are equal.
IInv ==
  /\ TypeOK
  /\ findings = {k \in 1..(line - 1) : Outdated(table[k])}
  /\ pc = "compare" =>
       /\ line <= Len(table) /\ IsTarget(table[line])
       /\ seg \in 1..(Segments(Installed, Recommended) + 1)
       /\ \A j \in 1..(seg - 1) : Value(Installed, j) = Value(Recommended, j)
  /\ pc = "done" => line = Len(table) + 1

\* evaluate() reports every line of the target application with an older
\* version, and no other (finding.rs:19-35).
ReportsExactlyOutdated ==
  pc = "done" => findings = {k \in 1..Len(table) : Outdated(table[k])}

(* The order of versions as numbers, whatever their width.                 *)
Number(v, i) == IF i \in 1..Len(v) THEN v[i] ELSE 0

Parses(v) == \A i \in 1..Len(v) : v[i] \in 0..MaxSegment

Before(a, b) ==
  \E i \in 1..(Len(a) + Len(b)) :
    /\ Number(a, i) < Number(b, i)
    /\ \A j \in 1..(i - 1) : Number(a, j) = Number(b, j)

\* For versions of numbers that fit, the rule is the order of versions: the
\* shorter one is filled up with zeros, and no width is in the way.  The rule
\* promises nothing else (finding.rs:37-38: "not a general version parser").
ProperVersionsCompareRight ==
  pc = "done" =>
    \A k \in 1..Len(table) :
      LET cols == table[k] IN
      IsTarget(cols) /\ Parses(Version(cols)) /\ Parses(Recommended) =>
        (k \in findings <=> Before(Version(cols), Recommended))

\* A line that winget prints without a version column is reported: its
\* version is "unknown" (inventory.rs:67), which counts as 0.
UnknownIsReported ==
  pc = "done" =>
    \A k \in 1..Len(table) :
      IsTarget(table[k]) /\ Len(table[k]) < 3 /\ Value(Recommended, 1) > 0 => k \in findings
=============================================================================
