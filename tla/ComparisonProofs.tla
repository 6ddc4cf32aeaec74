-------------------------- MODULE ComparisonProofs --------------------------
(***************************************************************************)
(* Proofs about Comparison, for all logs, every set of accounts and all    *)
(* thresholds: an accepted status stands for a replay that ended in the    *)
(* state of the original, the row of lcsLength holds the longest common    *)
(* subsequences, and a replay that did all the original did is EXACT.      *)
(***************************************************************************)
EXTENDS Comparison, TLAPS

USE ComparisonAssumption

\* The two ways to print an error are told apart only where they differ.
LEMMA CanonicalFaithful ==
    ASSUME NEW e \in Errors, NEW f \in Errors, CanonicalJson(e) = CanonicalDebug(f)
    PROVE  e = f
<1>1. CASE e = Null
  <2>1. f # Null => CanonicalDebug(f) \in Canonical
    BY DEF CanonicalDebug, Canonical, Errors
  <2> QED
    BY <1>1, <2>1 DEF CanonicalJson
<1>2. CASE e # Null
  <2>1. CanonicalJson(e) \in Canonical
    BY <1>2 DEF CanonicalJson, Canonical, Errors
  <2>2. f # Null
    BY <2>1 DEF CanonicalDebug
  <2> QED
    BY <1>2, <2>2 DEF CanonicalJson, CanonicalDebug
<1> QED
  BY <1>1, <1>2

\* Exact checks leave no difference in the state.
LEMMA ExactChecks ==
    ASSUME TypeOK, BalancesExact, TokenBalancesExact
    PROVE  Rules!SameState
<1>1. ASSUME NEW a \in original.writable
      PROVE  Rules!Lamports(a) = original.lamports[a]
  <2>1. a \in Accounts /\ original.lamports[a] \in Nat
    BY DEF TypeOK, Originals
  <2>2. PostLamports(a) = original.lamports[a]
    BY DEF BalancesExact
  <2> QED
    BY <2>1, <2>2 DEF PostLamports, Rules!Lamports
<1>2. ASSUME NEW a \in Accounts, original.tokens[a] # Null
      PROVE  Rules!Amount(a) = original.tokens[a]
  BY <1>2 DEF TokenBalancesExact, PostAmount, Rules!Amount
<1> QED
  BY <1>1, <1>2 DEF Rules!SameState

\* The measurement itself.
LEMMA StatusRight ==
    ASSUME TypeOK, Status \in {"EXACT", "HIGH_FIDELITY"}
    PROVE  /\ original.success = replay.success /\ original.error = replay.error
           /\ Rules!SameState
<1>1. ResultExact /\ ErrorExact /\ BalancesExact /\ TokenBalancesExact
  BY DEF Status
<1>2. original.error \in Errors /\ replay.error \in Errors
  BY DEF TypeOK, Originals, Replays
<1> QED
  BY <1>1, <1>2, CanonicalFaithful, ExactChecks DEF ResultExact, ErrorExact

\* Nothing has been compared at the start.
LEMMA InitRight == Init => TypeOK /\ status = Null /\ pc = "start"
<1> SUFFICES ASSUME Init PROVE TypeOK /\ status = Null /\ pc = "start"
  OBVIOUS
<1>1. original \in Originals /\ replay \in Replays
  BY DEF Init
<1>2. left \in Seq(Lines) /\ right \in Seq(Lines)
  BY <1>1 DEF left, right, Originals, Replays
<1> QED
  BY <1>1, <1>2 DEF Init, TypeOK

IInv ==
    /\ TypeOK
    /\ pc # "done" => status = Null
    /\ pc \in {"lcs", "measure"} => ~replay.refused
    /\ AcceptedMeansSameState

\* The types are kept: the loop stays within its row.
LEMMA NextTyped == TypeOK /\ [Next]_vars => TypeOK'
<1> SUFFICES ASSUME TypeOK, [Next]_vars PROVE TypeOK'
  OBVIOUS
<1>0. left \in Seq(Lines) /\ right \in Seq(Lines) /\ Len(left) \in Nat /\ Len(right) \in Nat
  BY DEF TypeOK, left, right, Originals, Replays
<1>1. CASE ReportRefusal
  BY <1>1 DEF ReportRefusal, TypeOK, inputs, left, right
<1>2. CASE BeginLcs
  BY <1>2 DEF BeginLcs, TypeOK, inputs, left, right
<1>3. CASE CompareLine
  <2>1. index \in 1..Len(right) /\ index + 1 \in 1..(Len(right) + 1)
        /\ row[index] \in Nat /\ row[index - 1] \in Nat
    BY <1>0, <1>3 DEF CompareLine, TypeOK
  <2>2. Extended(row[index]) \in Nat /\ Larger(row[index], row[index - 1]) \in Nat
    BY <2>1 DEF Extended, Larger, TypeOK
  <2>3. row' \in [0..Len(right) -> Nat] /\ diagonal' \in Nat /\ index' \in 1..(Len(right) + 1)
    BY <1>0, <1>3, <2>1, <2>2 DEF CompareLine, TypeOK
  <2> QED
    BY <1>3, <2>3 DEF CompareLine, TypeOK, inputs, left, right
<1>4. CASE NextLine
  <2>1. line' \in 1..(Len(left) + 1) /\ index' \in 1..(Len(right) + 1) /\ diagonal' \in Nat
    BY <1>0, <1>4 DEF NextLine, TypeOK
  <2> QED
    BY <1>4, <2>1 DEF NextLine, TypeOK, inputs, left, right
<1>5. CASE EndLcs
  BY <1>5 DEF EndLcs, TypeOK, inputs, left, right
<1>6. CASE Measure
  BY <1>6 DEF Measure, TypeOK, Status, inputs, left, right
<1>7. CASE UNCHANGED vars
  BY <1>7 DEF vars, TypeOK, inputs, left, right
<1> QED
  BY <1>1, <1>2, <1>3, <1>4, <1>5, <1>6, <1>7 DEF Next

\* Only the last step reports a status assert could accept.
LEMMA NextAccepted == IInv /\ [Next]_vars => IInv'
<1> SUFFICES ASSUME IInv, [Next]_vars PROVE IInv'
  OBVIOUS
<1>0. TypeOK /\ TypeOK'
  BY NextTyped DEF IInv
<1>1. UNCHANGED inputs /\ (Rules!SameState' <=> Rules!SameState)
  BY DEF Next, ReportRefusal, BeginLcs, CompareLine, NextLine, EndLcs, Measure, inputs, vars,
     Rules!SameState, Rules!Lamports, Rules!Amount
<1>2. CASE ReportRefusal
  BY <1>0, <1>2 DEF ReportRefusal, IInv, AcceptedMeansSameState
<1>3. CASE BeginLcs \/ CompareLine \/ NextLine \/ EndLcs
  <2>1. status' = Null /\ pc' \in {"lcs", "measure"} /\ ~replay.refused /\ replay' = replay
    BY <1>3 DEF BeginLcs, CompareLine, NextLine, EndLcs, IInv, inputs
  <2> QED
    BY <1>0, <2>1 DEF IInv, AcceptedMeansSameState
<1>4. CASE Measure
  <2>1. status' \in {"EXACT", "HIGH_FIDELITY"} => eligible /\ Status = status'
    BY <1>4 DEF Measure
  <2>2. pc' = "done"
    BY <1>4 DEF Measure
  <2>3. ~replay.refused
    BY <1>4 DEF Measure, IInv
  <2> QED
    BY <1>0, <1>1, <2>1, <2>2, <2>3, StatusRight DEF IInv, AcceptedMeansSameState, inputs
<1>5. CASE UNCHANGED vars
  BY <1>0, <1>1, <1>5 DEF vars, inputs, IInv, AcceptedMeansSameState
<1> QED
  BY <1>2, <1>3, <1>4, <1>5 DEF Next

\* A status assert accepts stands for a replay in the original's state.
THEOREM AcceptedIsSound == Spec => []AcceptedMeansSameState
<1>1. Init => IInv
  BY InitRight DEF IInv, AcceptedMeansSameState
<1>2. IInv => AcceptedMeansSameState
  BY DEF IInv
<1> QED
  BY <1>1, <1>2, NextAccepted, PTL DEF Spec
\* Every variable keeps its type.
THEOREM TypeCorrect == Spec => []TypeOK
<1>1. Init => TypeOK
  BY InitRight
<1> QED
  BY <1>1, NextTyped, PTL DEF Spec

-----------------------------------------------------------------------------
(* The longest common subsequence.                                         *)

\* The first i lines of s and the first j of t share n lines.
Common(s, t, i, j, n) ==
    \E f \in Rules!Increasing(n, i), g \in Rules!Increasing(n, j) : \A m \in 1..n : s[f[m]] = t[g[m]]

LEMMA CommonPrefixes ==
    ASSUME NEW s \in Seq(Lines), NEW t \in Seq(Lines), NEW i \in 0..Len(s), NEW j \in 0..Len(t),
           NEW n \in Nat
    PROVE  Rules!ShareLines(Prefix(s, i), Prefix(t, j), n) <=> Common(s, t, i, j, n)
<1>1. /\ Len(Prefix(s, i)) = i /\ \A m \in 1..i : Prefix(s, i)[m] = s[m]
      /\ Len(Prefix(t, j)) = j /\ \A m \in 1..j : Prefix(t, j)[m] = t[m]
  BY DEF Prefix
<1>2. ASSUME NEW f \in Rules!Increasing(n, i), NEW g \in Rules!Increasing(n, j), NEW m \in 1..n
      PROVE  Prefix(s, i)[f[m]] = s[f[m]] /\ Prefix(t, j)[g[m]] = t[g[m]]
  BY <1>1 DEF Rules!Increasing
<1> QED
  BY <1>1, <1>2 DEF Rules!ShareLines, Common

\* Nothing is shared with no lines.
LEMMA CommonNone ==
    ASSUME NEW s, NEW t, NEW i \in Nat, NEW j \in Nat
    PROVE  /\ Common(s, t, i, j, 0)
           /\ i = 0 \/ j = 0 => \A n \in Nat \ {0} : ~Common(s, t, i, j, n)
<1>1. \A h \in Nat : [m \in 1..0 |-> m] \in Rules!Increasing(0, h)
  BY DEF Rules!Increasing
<1>2. \A n \in Nat \ {0} : Rules!Increasing(n, 0) = {}
  <2> SUFFICES ASSUME NEW n \in Nat \ {0}, NEW f \in Rules!Increasing(n, 0) PROVE FALSE
    OBVIOUS
  <2>1. f[1] \in 1..0
    BY DEF Rules!Increasing
  <2> QED
    BY <2>1
<1> QED
  BY <1>1, <1>2 DEF Common

\* Fewer lines of longer prefixes.
LEMMA CommonMonotone ==
    ASSUME NEW s, NEW t, NEW i \in Nat, NEW j \in Nat, NEW n \in Nat, Common(s, t, i, j, n),
           NEW i2 \in Nat, NEW j2 \in Nat, NEW n2 \in Nat, i <= i2, j <= j2, n2 <= n
    PROVE  Common(s, t, i2, j2, n2)
<1> PICK f \in Rules!Increasing(n, i), g \in Rules!Increasing(n, j) : \A m \in 1..n : s[f[m]] = t[g[m]]
  BY DEF Common
<1> DEFINE f2 == [m \in 1..n2 |-> f[m]]
           g2 == [m \in 1..n2 |-> g[m]]
<1>0. /\ \A m \in 1..n2 : m \in 1..n
      /\ \A m \in 1..n : f[m] \in 1..i2 /\ g[m] \in 1..j2
      /\ \A l, m \in 1..n : l < m => f[l] < f[m] /\ g[l] < g[m]
  <2>1. \A m \in 1..n2 : m \in 1..n
    OBVIOUS
  <2>2. \A m \in 1..n : f[m] \in 1..i /\ g[m] \in 1..j
    BY DEF Rules!Increasing
  <2>3. 1..i \subseteq 1..i2 /\ 1..j \subseteq 1..j2
    OBVIOUS
  <2>4. \A l, m \in 1..n : l < m => f[l] < f[m] /\ g[l] < g[m]
    BY DEF Rules!Increasing
  <2> QED BY <2>1, <2>2, <2>3, <2>4
<1>1. f2 \in Rules!Increasing(n2, i2) /\ g2 \in Rules!Increasing(n2, j2)
  BY <1>0 DEF Rules!Increasing
<1>2. \A m \in 1..n2 : s[f2[m]] = t[g2[m]]
  OBVIOUS
<1> HIDE DEF f2, g2
<1> QED
  BY <1>1, <1>2 DEF Common

\* Two equal lines extend what the prefixes before them share.
LEMMA CommonExtended ==
    ASSUME NEW s, NEW t, NEW i \in Nat \ {0}, NEW j \in Nat \ {0}, s[i] = t[j], NEW n \in Nat,
           Common(s, t, i - 1, j - 1, n)
    PROVE  Common(s, t, i, j, n + 1)
<1> PICK f \in Rules!Increasing(n, i - 1), g \in Rules!Increasing(n, j - 1) :
      \A m \in 1..n : s[f[m]] = t[g[m]]
  BY DEF Common
<1> DEFINE f2 == [m \in 1..(n + 1) |-> IF m = n + 1 THEN i ELSE f[m]]
           g2 == [m \in 1..(n + 1) |-> IF m = n + 1 THEN j ELSE g[m]]
<1>1. \A m \in 1..(n + 1) : m # n + 1 => m \in 1..n
  OBVIOUS
<1>2. /\ \A m \in 1..n : f[m] \in 1..(i - 1) /\ g[m] \in 1..(j - 1)
      /\ \A l, m \in 1..n : l < m => f[l] < f[m] /\ g[l] < g[m]
  <2>1. f \in [1..n -> 1..(i - 1)] /\ g \in [1..n -> 1..(j - 1)]
    BY DEF Rules!Increasing
  <2>2. \A l, m \in 1..n : l < m => f[l] < f[m] /\ g[l] < g[m]
    BY DEF Rules!Increasing
  <2> QED
    BY <2>1, <2>2
<1>3. f2 \in [1..(n + 1) -> 1..i] /\ g2 \in [1..(n + 1) -> 1..j]
  <2>1. 1..(i - 1) \subseteq 1..i /\ 1..(j - 1) \subseteq 1..j /\ i \in 1..i /\ j \in 1..j
    OBVIOUS
  <2>2. ASSUME NEW m \in 1..(n + 1) PROVE f2[m] \in 1..i
    BY <1>1, <1>2, <2>1
  <2>3. ASSUME NEW m \in 1..(n + 1) PROVE g2[m] \in 1..j
    BY <1>1, <1>2, <2>1
  <2> QED
    BY <2>2, <2>3
<1>4. ASSUME NEW l \in 1..(n + 1), NEW m \in 1..(n + 1), l < m
      PROVE  f2[l] < f2[m] /\ g2[l] < g2[m]
  <2>1. l \in 1..n /\ f2[l] = f[l] /\ g2[l] = g[l]
    BY <1>4
  <2>2. CASE m = n + 1
    <3>1. f2[m] = i /\ g2[m] = j
      BY <2>2
    <3>2. f[l] \in 1..(i - 1) /\ g[l] \in 1..(j - 1)
      BY <1>2, <2>1
    <3> QED
      BY <2>1, <3>1, <3>2
  <2>3. CASE m # n + 1
    <3>1. m \in 1..n /\ f2[m] = f[m] /\ g2[m] = g[m]
      BY <1>1, <2>3
    <3> QED
      BY <1>2, <1>4, <2>1, <3>1
  <2> QED
    BY <2>2, <2>3
<1>5. ASSUME NEW m \in 1..(n + 1) PROVE s[f2[m]] = t[g2[m]]
  <2>1. CASE m = n + 1
    BY <2>1
  <2>2. CASE m # n + 1
    <3>1. m \in 1..n /\ f2[m] = f[m] /\ g2[m] = g[m]
      BY <1>1, <2>2
    <3> QED
      BY <3>1
  <2> QED
    BY <2>1, <2>2
<1> HIDE DEF f2, g2
<1>6. f2 \in Rules!Increasing(n + 1, i) /\ g2 \in Rules!Increasing(n + 1, j)
  BY <1>3, <1>4 DEF Rules!Increasing
<1> QED
  BY <1>5, <1>6 DEF Common

\* Without its last line a common subsequence lies before the last lines.
LEMMA CommonShortened ==
    ASSUME NEW s, NEW t, NEW i \in Nat \ {0}, NEW j \in Nat \ {0}, NEW n \in Nat,
           Common(s, t, i, j, n + 1)
    PROVE  Common(s, t, i - 1, j - 1, n)
<1> PICK f \in Rules!Increasing(n + 1, i), g \in Rules!Increasing(n + 1, j) :
      \A m \in 1..(n + 1) : s[f[m]] = t[g[m]]
  BY DEF Common
<1> DEFINE f2 == [m \in 1..n |-> f[m]]
           g2 == [m \in 1..n |-> g[m]]
<1>1. /\ \A m \in 1..(n + 1) : f[m] \in 1..i /\ g[m] \in 1..j
      /\ \A l, m \in 1..(n + 1) : l < m => f[l] < f[m] /\ g[l] < g[m]
  BY DEF Rules!Increasing
<1>2. \A m \in 1..n : m \in 1..(n + 1) /\ m < n + 1 /\ n + 1 \in 1..(n + 1)
  OBVIOUS
<1>3. \A m \in 1..n : f[m] \in 1..(i - 1) /\ g[m] \in 1..(j - 1)
  BY <1>1, <1>2
<1>4. f2 \in Rules!Increasing(n, i - 1) /\ g2 \in Rules!Increasing(n, j - 1)
  BY <1>1, <1>2, <1>3 DEF Rules!Increasing
<1>5. \A m \in 1..n : s[f2[m]] = t[g2[m]]
  BY <1>2
<1> HIDE DEF f2, g2
<1> QED
  BY <1>4, <1>5 DEF Common

\* Of two lines that differ one is not needed.
LEMMA CommonWithout ==
    ASSUME NEW s, NEW t, NEW i \in Nat \ {0}, NEW j \in Nat \ {0}, s[i] # t[j],
           NEW n \in Nat, Common(s, t, i, j, n)
    PROVE  Common(s, t, i - 1, j, n) \/ Common(s, t, i, j - 1, n)
<1> PICK f \in Rules!Increasing(n, i), g \in Rules!Increasing(n, j) : \A m \in 1..n : s[f[m]] = t[g[m]]
  BY DEF Common
<1>1. /\ f \in [1..n -> 1..i] /\ g \in [1..n -> 1..j]
      /\ \A l, m \in 1..n : l < m => f[l] < f[m] /\ g[l] < g[m]
  BY DEF Rules!Increasing
<1>2. CASE \A m \in 1..n : f[m] # i
  <2>1. \A m \in 1..n : f[m] \in 1..(i - 1)
    BY <1>1, <1>2
  <2>2. f \in Rules!Increasing(n, i - 1)
    BY <1>1, <2>1 DEF Rules!Increasing
  <2> QED
    BY <2>2 DEF Common
<1>3. CASE \A m \in 1..n : g[m] # j
  <2>1. \A m \in 1..n : g[m] \in 1..(j - 1)
    BY <1>1, <1>3
  <2>2. g \in Rules!Increasing(n, j - 1)
    BY <1>1, <2>1 DEF Rules!Increasing
  <2> QED
    BY <2>2 DEF Common
<1>4. ASSUME NEW l \in 1..n, NEW m \in 1..n, f[l] = i, g[m] = j PROVE FALSE
  <2>1. ~(l < m) /\ ~(m < l)
    BY <1>1, <1>4
  <2>2. l = m
    BY <2>1
  <2> QED
    BY <1>4, <2>2
<1> QED
  BY <1>2, <1>3, <1>4
\* What lcsLength computes, for the first i lines of the original's log and
\* the first j of the replay's.
Lcs(n, i, j) == Common(left, right, i, j, n) /\ ~Common(left, right, i, j, n + 1)

LEMMA LcsOfNothing ==
    ASSUME NEW i \in Nat, NEW j \in Nat, i = 0 \/ j = 0
    PROVE  /\ Lcs(0, i, j)
           /\ \A n \in Nat : Lcs(n, i, j) => n = 0
<1>1. \A n \in Nat : 0 + 1 \in Nat \ {0} /\ (n # 0 => n \in Nat \ {0})
  OBVIOUS
<1> QED
  BY <1>1, CommonNone DEF Lcs

\* The recurrence of the table.
LEMMA LcsStep ==
    ASSUME NEW i \in Nat \ {0}, NEW j \in Nat \ {0},
           NEW d \in Nat, NEW a \in Nat, NEW b \in Nat,
           Lcs(d, i - 1, j - 1), Lcs(a, i - 1, j), Lcs(b, i, j - 1)
    PROVE  Lcs(IF left[i] = right[j] THEN d + 1 ELSE Larger(a, b), i, j)
<1>0. /\ i - 1 \in Nat /\ j - 1 \in Nat /\ i \in Nat /\ j \in Nat /\ i - 1 <= i /\ j - 1 <= j
      /\ i <= i /\ j <= j
  OBVIOUS
<1>1. CASE left[i] = right[j]
  <2>1. Common(left, right, i, j, d + 1)
    BY <1>1, CommonExtended DEF Lcs
  <2>2. ~Common(left, right, i, j, d + 1 + 1)
    <3>1. d + 1 \in Nat
      OBVIOUS
    <3> QED
      BY <3>1, CommonShortened DEF Lcs
  <2> QED
    BY <1>1, <2>1, <2>2 DEF Lcs
<1>2. CASE left[i] # right[j]
  <2> DEFINE c == Larger(a, b)
  <2>1. /\ c \in Nat /\ c + 1 \in Nat /\ a + 1 \in Nat /\ b + 1 \in Nat
        /\ a <= c /\ b <= c /\ a + 1 <= c + 1 /\ b + 1 <= c + 1 /\ c \in {a, b}
    BY DEF Larger
  <2> HIDE DEF c
  <2>2. Common(left, right, i, j, c)
    <3>1. CASE c = a
      BY <1>0, <2>1, <3>1, CommonMonotone DEF Lcs
    <3>2. CASE c = b
      BY <1>0, <2>1, <3>2, CommonMonotone DEF Lcs
    <3> QED
      BY <2>1, <3>1, <3>2
  <2>3. ~Common(left, right, i, j, c + 1)
    <3> SUFFICES ASSUME Common(left, right, i, j, c + 1) PROVE FALSE
      OBVIOUS
    <3>1. Common(left, right, i - 1, j, c + 1) \/ Common(left, right, i, j - 1, c + 1)
      BY <1>2, <2>1, CommonWithout
    <3>2. Common(left, right, i - 1, j, a + 1) \/ Common(left, right, i, j - 1, b + 1)
      BY <1>0, <2>1, <3>1, CommonMonotone
    <3> QED
      BY <3>2 DEF Lcs
  <2>4. Lcs(c, i, j)
    BY <2>2, <2>3 DEF Lcs
  <2> QED
    BY <1>2, <2>4 DEF c
<1> QED
  BY <1>1, <1>2

\* The lines of the original cell k accounts for.
LinesOf(k) == IF k < index /\ line <= Len(left) THEN line ELSE line - 1

\* The row and the cell saved from it.
RowRight ==
    /\ \A k \in 0..Len(right) : Lcs(row[k], LinesOf(k), k)
    /\ line <= Len(left) => Lcs(diagonal, line - 1, index - 1)

LEMMA InitRow == Init => RowRight
<1> SUFFICES ASSUME Init PROVE RowRight
  OBVIOUS
<1>1. left \in Seq(Lines) /\ right \in Seq(Lines) /\ Len(left) \in Nat /\ Len(right) \in Nat
  BY InitRight DEF TypeOK, left, right, Originals, Replays
<1>2. ASSUME NEW k \in 0..Len(right) PROVE row[k] = 0 /\ LinesOf(k) \in Nat /\ k \in Nat
                                           /\ (LinesOf(k) = 0 \/ k = 0)
  BY <1>1, <1>2 DEF Init, LinesOf
<1>3. diagonal = 0 /\ line - 1 = 0 /\ index - 1 = 0
  BY DEF Init
<1> QED
  BY <1>2, <1>3, LcsOfNothing DEF RowRight

LEMMA NextRow == TypeOK /\ RowRight /\ [Next]_vars => RowRight'
<1> SUFFICES ASSUME TypeOK, RowRight, [Next]_vars PROVE RowRight'
  OBVIOUS
<1>0. /\ left \in Seq(Lines) /\ right \in Seq(Lines) /\ Len(left) \in Nat /\ Len(right) \in Nat
      /\ left' = left /\ right' = right /\ line \in Nat \ {0} /\ index \in Nat \ {0}
      /\ DOMAIN row = 0..Len(right)
  <2>1. left' = left /\ right' = right
    BY DEF Next, ReportRefusal, BeginLcs, CompareLine, NextLine, EndLcs, Measure, inputs, vars, left, right
  <2> QED
    BY <2>1 DEF TypeOK, left, right, Originals, Replays
<1>1. \A n, i, j : Lcs(n, i, j)' <=> Lcs(n, i, j)
  BY <1>0 DEF Lcs, Common
<1>2. CASE CompareLine
  <2>1. /\ line \in 1..Len(left) /\ index \in 1..Len(right) /\ index - 1 \in 0..Len(right)
        /\ index \in 0..Len(right)
        /\ line' = line /\ index' = index + 1 /\ diagonal' = row[index]
        /\ row' = [row EXCEPT ![index] = IF left[line] = right[index] THEN diagonal + 1
                                         ELSE Larger(row[index], row[index - 1])]
    BY <1>0, <1>2 DEF CompareLine, Extended
  <2>2. /\ diagonal \in Nat /\ row[index] \in Nat /\ row[index - 1] \in Nat
        /\ Lcs(diagonal, line - 1, index - 1)
        /\ Lcs(row[index], line - 1, index) /\ Lcs(row[index - 1], line, index - 1)
    <3>1. LinesOf(index) = line - 1 /\ LinesOf(index - 1) = line /\ line <= Len(left)
      BY <1>0, <2>1 DEF LinesOf
    <3>2. Lcs(row[index], LinesOf(index), index)
      BY <2>1 DEF RowRight
    <3>3. Lcs(row[index - 1], LinesOf(index - 1), index - 1)
      BY <2>1 DEF RowRight
    <3>4. Lcs(diagonal, line - 1, index - 1)
      BY <3>1 DEF RowRight
    <3>5. diagonal \in Nat /\ row[index] \in Nat /\ row[index - 1] \in Nat
      BY <2>1 DEF TypeOK
    <3> QED
      BY <3>1, <3>2, <3>3, <3>4, <3>5
  <2>3. Lcs(row'[index], line, index)
    <3>1. row'[index] = IF left[line] = right[index] THEN diagonal + 1
                        ELSE Larger(row[index], row[index - 1])
      BY <1>0, <2>1
    <3>2. line \in Nat \ {0} /\ index \in Nat \ {0}
      BY <1>0
    <3>3. Lcs(IF left[line] = right[index] THEN diagonal + 1
              ELSE Larger(row[index], row[index - 1]), line, index)
      BY <2>2, <3>2, LcsStep
    <3> QED
      BY <3>1, <3>3
  <2>4. ASSUME NEW k \in 0..Len(right) PROVE Lcs(row'[k], LinesOf(k)', k)
    <3>1. CASE k = index
      <4>1. LinesOf(k)' = line
        BY <1>0, <2>1, <3>1 DEF LinesOf
      <4> QED
        BY <2>3, <3>1, <4>1
    <3>2. CASE k # index
      <4>1. row'[k] = row[k]
        BY <1>0, <2>1, <3>2
      <4>2. LinesOf(k)' = LinesOf(k)
        BY <1>0, <2>1, <3>2 DEF LinesOf
      <4> QED
        BY <4>1, <4>2 DEF RowRight
    <3> QED
      BY <3>1, <3>2
  <2>5. Lcs(diagonal', line' - 1, index' - 1)
    <3>1. index + 1 - 1 = index
      BY <1>0
    <3> QED
      BY <2>1, <2>2, <3>1
  <2> QED
    BY <1>0, <1>1, <2>4, <2>5 DEF RowRight
<1>3. CASE NextLine
  <2>1. /\ line \in 1..Len(left) /\ line' = line + 1 /\ index' = 1 /\ diagonal' = 0 /\ row' = row
        /\ index > Len(right)
    BY <1>0, <1>3 DEF NextLine
  <2>2. ASSUME NEW k \in 0..Len(right) PROVE Lcs(row'[k], LinesOf(k)', k)
    <3>1. Lcs(row[k], line, k) /\ row[k] \in Nat
      BY <1>0, <2>1 DEF RowRight, LinesOf, TypeOK
    <3>2. CASE k = 0
      <4>1. row[0] = 0
        BY <1>0, <3>1, <3>2, LcsOfNothing
      <4>2. LinesOf(0)' \in Nat
        BY <1>0, <2>1 DEF LinesOf
      <4> QED
        BY <2>1, <3>2, <4>1, <4>2, LcsOfNothing
    <3>3. CASE k # 0
      <4>1. LinesOf(k)' = line
        BY <1>0, <2>1, <3>3 DEF LinesOf
      <4> QED
        BY <2>1, <3>1, <4>1
    <3> QED
      BY <3>2, <3>3
  <2>3. Lcs(diagonal', line' - 1, index' - 1)
    <3>1. line' - 1 \in Nat /\ index' - 1 = 0 /\ 0 \in Nat
      BY <1>0, <2>1
    <3> QED
      BY <2>1, <3>1, LcsOfNothing
  <2> QED
    BY <1>0, <1>1, <2>2, <2>3 DEF RowRight
<1>4. CASE ReportRefusal \/ BeginLcs \/ EndLcs \/ Measure \/ UNCHANGED vars
  <2>1. row' = row /\ diagonal' = diagonal /\ line' = line /\ index' = index
    BY <1>4 DEF ReportRefusal, BeginLcs, EndLcs, Measure, vars
  <2>2. \A k : LinesOf(k)' = LinesOf(k)
    BY <1>0, <2>1 DEF LinesOf
  <2> QED
    BY <1>0, <1>1, <2>1, <2>2 DEF RowRight
<1> QED
  BY <1>2, <1>3, <1>4 DEF Next

\* At every turn of the loop each cell of the row is the length of a longest
\* common subsequence of the prefixes it stands for, for all logs.
THEOREM RowIsRight == Spec => []RowIsLcs
<1>1. TypeOK /\ RowRight => RowIsLcs
  <2> SUFFICES ASSUME TypeOK, RowRight, NEW k \in 0..Len(right)
               PROVE  IsLcsLength(row[k], Prefix(left, LinesOf(k)), Prefix(right, k))
    BY DEF RowIsLcs, LinesOf
  <2>1. /\ left \in Seq(Lines) /\ right \in Seq(Lines) /\ LinesOf(k) \in 0..Len(left)
        /\ row[k] \in Nat /\ row[k] + 1 \in Nat
    BY DEF TypeOK, left, right, Originals, Replays, LinesOf
  <2> QED
    BY <2>1, CommonPrefixes DEF RowRight, Lcs, IsLcsLength
<1>2. Init => TypeOK /\ RowRight
  BY InitRight, InitRow
<1> QED
  BY <1>1, <1>2, NextTyped, NextRow, PTL DEF Spec
-----------------------------------------------------------------------------
(* Identical executions.                                                   *)

Least(i, j) == IF i < j THEN i ELSE j

\* With equal logs cell k holds the length of the shorter prefix.
Diagonal ==
    left = right =>
        /\ \A k \in 0..Len(right) : row[k] = Least(LinesOf(k), k)
        /\ line <= Len(left) => diagonal = Least(line - 1, index - 1)
        /\ line > Len(left) => index = 1
        /\ pc = "measure" => line > Len(left)

LEMMA InitDiagonal == Init => Diagonal
<1> SUFFICES ASSUME Init PROVE Diagonal
  OBVIOUS
<1>1. pc = "start" /\ Len(left) \in Nat /\ Len(right) \in Nat
  BY InitRight DEF TypeOK, left, right, Originals, Replays
<1>2. \A k \in 0..Len(right) : row[k] = Least(LinesOf(k), k)
  BY <1>1 DEF Init, LinesOf, Least
<1>3. diagonal = Least(line - 1, index - 1) /\ index = 1
  BY DEF Init, Least
<1> QED
  BY <1>1, <1>2, <1>3 DEF Diagonal

LEMMA NextDiagonal == TypeOK /\ Diagonal /\ [Next]_vars => Diagonal'
<1> SUFFICES ASSUME TypeOK, Diagonal, [Next]_vars PROVE Diagonal'
  OBVIOUS
<1>a. left' = left /\ right' = right
  BY DEF Next, ReportRefusal, BeginLcs, CompareLine, NextLine, EndLcs, Measure, inputs, vars, left, right
<1> SUFFICES ASSUME left = right PROVE Diagonal'
  BY <1>a DEF Diagonal
<1>0. /\ Len(right) \in Nat /\ left' = left /\ right' = right /\ DOMAIN row = 0..Len(right)
      /\ line \in Nat \ {0} /\ index \in Nat \ {0}
  BY <1>a DEF TypeOK, left, right, Originals, Replays
<1>1. CASE CompareLine
  <2>1. /\ line \in 1..Len(right) /\ index \in 1..Len(right) /\ index - 1 \in 0..Len(right)
        /\ line' = line /\ index' = index + 1 /\ diagonal' = row[index] /\ pc = "lcs" /\ pc' = "lcs"
        /\ row' = [row EXCEPT ![index] = IF left[line] = right[index] THEN diagonal + 1
                                         ELSE Larger(row[index], row[index - 1])]
    BY <1>0, <1>1 DEF CompareLine, Extended
  <2>2. /\ diagonal = Least(line - 1, index - 1) /\ row[index] = Least(line - 1, index)
        /\ row[index - 1] = Least(line, index - 1)
    <3>1. LinesOf(index) = line - 1 /\ LinesOf(index - 1) = line /\ line <= Len(left)
      BY <1>0, <2>1 DEF LinesOf
    <3> QED
      BY <1>0, <2>1, <3>1 DEF Diagonal
  <2>3. row'[index] = Least(line, index)
    <3>1. CASE left[line] = right[index]
      BY <1>0, <2>1, <2>2, <3>1 DEF Least
    <3>2. CASE left[line] # right[index]
      <4>1. line # index
        BY <3>2
      <4>2. row'[index] = Larger(row[index], row[index - 1])
        BY <1>0, <2>1, <3>2
      <4> QED
        BY <1>0, <2>2, <4>1, <4>2 DEF Least, Larger
    <3> QED
      BY <3>1, <3>2
  <2>4. ASSUME NEW k \in 0..Len(right) PROVE row'[k] = Least(LinesOf(k)', k)
    <3>1. CASE k = index
      <4>1. LinesOf(k)' = line
        BY <1>0, <2>1, <3>1 DEF LinesOf
      <4> QED
        BY <2>3, <3>1, <4>1
    <3>2. CASE k # index
      <4>1. row'[k] = row[k] /\ LinesOf(k)' = LinesOf(k)
        BY <1>0, <2>1, <3>2 DEF LinesOf
      <4> QED
        BY <4>1 DEF Diagonal
    <3> QED
      BY <3>1, <3>2
  <2>5. diagonal' = Least(line' - 1, index' - 1)
    <3>1. index + 1 - 1 = index
      BY <1>0
    <3> QED
      BY <2>1, <2>2, <3>1
  <2> QED
    BY <1>0, <2>1, <2>4, <2>5 DEF Diagonal
<1>2. CASE NextLine
  <2>1. /\ line \in 1..Len(right) /\ line' = line + 1 /\ index' = 1 /\ diagonal' = 0 /\ row' = row
        /\ index > Len(right) /\ pc' = "lcs"
    BY <1>0, <1>2 DEF NextLine
  <2>2. ASSUME NEW k \in 0..Len(right) PROVE row'[k] = Least(LinesOf(k)', k)
    <3>1. row[k] = Least(line, k)
      BY <1>0, <2>1 DEF Diagonal, LinesOf
    <3>2. LinesOf(k)' = line \/ (k = 0 /\ LinesOf(k)' = line + 1)
      BY <1>0, <2>1 DEF LinesOf
    <3> QED
      BY <1>0, <2>1, <3>1, <3>2 DEF Least
  <2>3. diagonal' = Least(line' - 1, index' - 1)
    BY <1>0, <2>1 DEF Least
  <2> QED
    BY <1>0, <2>1, <2>2, <2>3 DEF Diagonal
<1>3. CASE ReportRefusal \/ BeginLcs \/ EndLcs \/ Measure \/ UNCHANGED vars
  <2>1. row' = row /\ diagonal' = diagonal /\ line' = line /\ index' = index
    BY <1>3 DEF ReportRefusal, BeginLcs, EndLcs, Measure, vars
  <2>2. \A k : LinesOf(k)' = LinesOf(k)
    BY <1>0, <2>1 DEF LinesOf
  <2>3. pc' = "measure" => line > Len(left)
    <3>1. CASE BeginLcs
      <4>1. pc' = "measure" => left = << >>
        BY <3>1 DEF BeginLcs
      <4>2. left = << >> => Len(left) = 0
        OBVIOUS
      <4> QED
        BY <1>0, <4>1, <4>2
    <3>2. CASE EndLcs
      BY <3>2 DEF EndLcs
    <3>3. CASE ReportRefusal \/ Measure
      BY <3>3 DEF ReportRefusal, Measure
    <3>4. CASE UNCHANGED vars
      BY <3>4 DEF vars, Diagonal
    <3> QED
      BY <1>3, <3>1, <3>2, <3>3, <3>4
  <2> QED
    BY <1>0, <2>1, <2>2, <2>3 DEF Diagonal
<1> QED
  BY <1>1, <1>2, <1>3 DEF Next

\* The measurement of an identical execution.
LEMMA IdenticalMeasured ==
    ASSUME TypeOK, Diagonal, pc = "measure", Rules!SameState,
           original.success = replay.success,
           original.error = replay.error, original.error # Null => original.error.kind # "object",
           left = right, original.units = replay.units,
           ~original.inner, original.returnData = replay.returnData
    PROVE  Status = "EXACT"
<1>1. LogsExact
  <2>1. Len(right) \in Nat /\ line = Len(right) + 1 /\ Len(left) = Len(right)
    BY DEF TypeOK, Diagonal, right, Replays
  <2>2. row[Len(right)] = Len(right)
    BY <2>1 DEF Diagonal, LinesOf, Least
  <2> QED
    BY <2>1, <2>2 DEF LogsExact, Twice, Total
<1>2. ErrorExact
  BY DEF ErrorExact, CanonicalJson, CanonicalDebug
<1>3. BalancesExact
  <2> SUFFICES ASSUME NEW a \in original.writable PROVE PostLamports(a) = original.lamports[a]
    BY DEF BalancesExact
  <2>1. Rules!Lamports(a) = original.lamports[a]
    BY DEF Rules!SameState
  <2> QED
    BY <2>1 DEF PostLamports, Rules!Lamports
<1>4. TokenBalancesExact
  BY DEF Rules!SameState, TokenBalancesExact, PostAmount, Rules!Amount
<1> QED
  BY <1>1, <1>2, <1>3, <1>4 DEF Status, ResultExact, UnitsExact, InnerExact, ReturnDataExact

\* A replay that did all the original did is EXACT, whatever it did.
THEOREM IdenticalIsRight == Spec => []IdenticalIsExact
<1> DEFINE Inv == TypeOK /\ Diagonal /\ IdenticalIsExact /\ (replay.refused => pc \in {"start", "done"})
<1>1. Init => Inv
  <2> SUFFICES ASSUME Init PROVE Inv
    OBVIOUS
  <2>1. TypeOK /\ pc = "start"
    BY InitRight
  <2> QED
    BY <2>1, InitDiagonal DEF IdenticalIsExact
<1>2. Inv /\ [Next]_vars => Inv'
  <2> SUFFICES ASSUME Inv, [Next]_vars PROVE Inv'
    OBVIOUS
  <2>1. TypeOK' /\ Diagonal'
    BY NextTyped, NextDiagonal
  <2>2. replay.refused' => pc' \in {"start", "done"}
    BY DEF Next, ReportRefusal, BeginLcs, CompareLine, NextLine, EndLcs, Measure, inputs, vars
  <2>3. CASE Measure
    <3>1. /\ Rules!SameState' <=> Rules!SameState
          /\ UNCHANGED inputs /\ left' = left /\ right' = right
          /\ eligible => status' = Status
      BY <2>3 DEF Measure, inputs, Rules!SameState, Rules!Lamports, Rules!Amount, left, right
    <3>2. pc = "measure"
      BY <2>3 DEF Measure
    <3> QED
      BY <2>1, <2>2, <3>1, <3>2, IdenticalMeasured DEF IdenticalIsExact, inputs
  <2>4. CASE ReportRefusal
    <3>1. replay'.refused
      BY <2>4 DEF ReportRefusal, inputs
    <3> QED
      BY <2>1, <2>2, <3>1 DEF IdenticalIsExact
  <2>5. CASE BeginLcs \/ CompareLine \/ NextLine \/ EndLcs
    <3>1. pc' # "done"
      BY <2>5 DEF BeginLcs, CompareLine, NextLine, EndLcs
    <3> QED
      BY <2>1, <2>2, <3>1 DEF IdenticalIsExact
  <2>6. CASE UNCHANGED vars
    BY <2>1, <2>2, <2>6 DEF vars, inputs, IdenticalIsExact, Rules!SameState, Rules!Lamports, Rules!Amount, left, right
  <2> QED
    BY <2>3, <2>4, <2>5, <2>6 DEF Next
<1>3. Inv => IdenticalIsExact
  OBVIOUS
<1> HIDE DEF Inv
<1> QED
  BY <1>1, <1>2, <1>3, PTL DEF Spec
-----------------------------------------------------------------------------
(* The status is the verdict of the rules.                                 *)

\* The first k lines of both logs are the same.
SameStart(k) == \A m \in 1..k : left[m] = right[m]

\* A cell never counts more lines than either prefix has, and all of them
\* only when the prefixes are equal; so for the saved cell.
Matching ==
    /\ \A k \in 0..Len(right) :
         /\ row[k] <= k /\ row[k] <= LinesOf(k)
         /\ row[k] = k /\ LinesOf(k) = k => SameStart(k)
    /\ line <= Len(left) =>
         /\ diagonal <= line - 1 /\ diagonal <= index - 1
         /\ diagonal = line - 1 /\ diagonal = index - 1 => SameStart(diagonal)
    /\ pc = "measure" => line > Len(left)

LEMMA InitMatching == Init => Matching
<1> SUFFICES ASSUME Init PROVE Matching
  OBVIOUS
<1>1. pc = "start" /\ Len(left) \in Nat /\ Len(right) \in Nat
  BY InitRight DEF TypeOK, left, right, Originals, Replays
<1>2. ASSUME NEW k \in 0..Len(right) PROVE row[k] = 0 /\ LinesOf(k) \in Nat
  BY <1>1 DEF Init, LinesOf
<1>3. SameStart(0)
  BY DEF SameStart
<1>4. line - 1 = 0 /\ index - 1 = 0 /\ diagonal = 0
  BY DEF Init
<1> QED
  BY <1>1, <1>2, <1>3, <1>4 DEF Matching

LEMMA NextMatching == TypeOK /\ Matching /\ [Next]_vars => Matching'
<1> SUFFICES ASSUME TypeOK, Matching, [Next]_vars PROVE Matching'
  OBVIOUS
<1>0. /\ Len(left) \in Nat /\ Len(right) \in Nat /\ left' = left /\ right' = right
      /\ DOMAIN row = 0..Len(right) /\ line \in Nat \ {0} /\ index \in Nat \ {0}
  <2>1. left' = left /\ right' = right
    BY DEF Next, ReportRefusal, BeginLcs, CompareLine, NextLine, EndLcs, Measure, inputs, vars, left, right
  <2> QED
    BY <2>1 DEF TypeOK, left, right, Originals, Replays
<1>1. \A k : SameStart(k)' <=> SameStart(k)
  BY <1>0 DEF SameStart
<1>2. CASE CompareLine
  <2>1. /\ line \in 1..Len(left) /\ index \in 1..Len(right) /\ index - 1 \in 0..Len(right)
        /\ line' = line /\ index' = index + 1 /\ diagonal' = row[index] /\ pc' = "lcs"
        /\ row' = [row EXCEPT ![index] = IF left[line] = right[index] THEN diagonal + 1
                                         ELSE Larger(row[index], row[index - 1])]
    BY <1>0, <1>2 DEF CompareLine, Extended
  <2>2. /\ row[index] \in Nat /\ row[index] <= index /\ row[index] <= line - 1
        /\ row[index - 1] \in Nat /\ row[index - 1] <= index - 1 /\ row[index - 1] <= line
        /\ diagonal \in Nat /\ diagonal <= line - 1 /\ diagonal <= index - 1
        /\ row[index] = index /\ line - 1 = index => SameStart(index)
    <3>1. LinesOf(index) = line - 1 /\ LinesOf(index - 1) = line /\ line <= Len(left)
      <4>1. line <= Len(left) /\ ~(index < index) /\ index - 1 < index
        BY <1>0, <2>1
      <4> QED
        BY <4>1 DEF LinesOf
    <3>2. row[index] \in Nat /\ row[index - 1] \in Nat /\ diagonal \in Nat /\ index \in 0..Len(right)
      <4>1. row \in [0..Len(right) -> Nat] /\ diagonal \in Nat
        BY DEF TypeOK
      <4>2. index \in 0..Len(right) /\ index - 1 \in 0..Len(right)
        BY <1>0, <2>1
      <4> QED
        BY <4>1, <4>2
    <3>3. /\ row[index] <= index /\ row[index] <= line - 1
          /\ row[index] = index /\ line - 1 = index => SameStart(index)
      BY <3>1, <3>2 DEF Matching
    <3>4. row[index - 1] <= index - 1 /\ row[index - 1] <= line
      BY <2>1, <3>1 DEF Matching
    <3>5. diagonal <= line - 1 /\ diagonal <= index - 1
      BY <3>1 DEF Matching
    <3> QED
      BY <3>2, <3>3, <3>4, <3>5
  <2>3. row'[index] = IF left[line] = right[index] THEN diagonal + 1
                      ELSE Larger(row[index], row[index - 1])
    BY <1>0, <2>1
  <2>4. row'[index] <= index /\ row'[index] <= line
    BY <1>0, <2>2, <2>3 DEF Larger
  <2>5. ASSUME row'[index] = index, line = index PROVE SameStart(index)
    <3>1. left[index] = right[index] /\ diagonal = index - 1
      BY <1>0, <2>2, <2>3, <2>5 DEF Larger
    <3>2. SameStart(index - 1)
      BY <2>1, <2>5, <3>1 DEF Matching
    <3>3. \A m \in 1..index : m = index \/ m \in 1..(index - 1)
      BY <1>0
    <3> QED
      BY <3>1, <3>2, <3>3 DEF SameStart
  <2>6. ASSUME NEW k \in 0..Len(right)
        PROVE  /\ row'[k] <= k /\ row'[k] <= LinesOf(k)'
               /\ row'[k] = k /\ LinesOf(k)' = k => SameStart(k)
    <3>1. CASE k = index
      <4>1. LinesOf(k)' = line
        BY <1>0, <2>1, <3>1 DEF LinesOf
      <4> QED
        BY <2>4, <2>5, <3>1, <4>1
    <3>2. CASE k # index
      <4>1. row'[k] = row[k] /\ LinesOf(k)' = LinesOf(k)
        BY <1>0, <2>1, <3>2 DEF LinesOf
      <4> QED
        BY <4>1 DEF Matching
    <3> QED
      BY <3>1, <3>2
  <2>7. /\ diagonal' <= line' - 1 /\ diagonal' <= index' - 1
        /\ diagonal' = line' - 1 /\ diagonal' = index' - 1 => SameStart(diagonal')
    BY <1>0, <2>1, <2>2
  <2> QED
    BY <1>0, <1>1, <2>1, <2>6, <2>7 DEF Matching
<1>3. CASE NextLine
  <2>1. /\ line \in 1..Len(left) /\ line' = line + 1 /\ index' = 1 /\ diagonal' = 0 /\ row' = row
        /\ index > Len(right) /\ pc' = "lcs"
    BY <1>0, <1>3 DEF NextLine
  <2>2. ASSUME NEW k \in 0..Len(right)
        PROVE  /\ row'[k] <= k /\ row'[k] <= LinesOf(k)'
               /\ row'[k] = k /\ LinesOf(k)' = k => SameStart(k)
    <3>1. LinesOf(k) = line /\ row[k] \in Nat
      BY <1>0, <2>1 DEF LinesOf, TypeOK
    <3>2. LinesOf(k)' = line \/ (k = 0 /\ LinesOf(k)' = line + 1)
      BY <1>0, <2>1 DEF LinesOf
    <3>3. row[k] <= k /\ row[k] <= line /\ (row[k] = k /\ line = k => SameStart(k))
      BY <3>1 DEF Matching
    <3> QED
      BY <1>0, <2>1, <3>1, <3>2, <3>3
  <2>3. diagonal' <= line' - 1 /\ diagonal' <= index' - 1 /\ SameStart(0) /\ diagonal' = 0
    BY <1>0, <2>1 DEF SameStart
  <2> QED
    BY <1>0, <1>1, <2>1, <2>2, <2>3 DEF Matching
<1>4. CASE ReportRefusal \/ BeginLcs \/ EndLcs \/ Measure \/ UNCHANGED vars
  <2>1. row' = row /\ diagonal' = diagonal /\ line' = line /\ index' = index
    BY <1>4 DEF ReportRefusal, BeginLcs, EndLcs, Measure, vars
  <2>2. \A k : LinesOf(k)' = LinesOf(k)
    BY <1>0, <2>1 DEF LinesOf
  <2>3. pc' = "measure" => line > Len(left)
    <3>1. CASE BeginLcs
      <4>1. pc' = "measure" => left = << >>
        BY <3>1 DEF BeginLcs
      <4>2. left = << >> => Len(left) = 0
        OBVIOUS
      <4> QED
        BY <1>0, <4>1, <4>2
    <3>2. CASE EndLcs
      BY <3>2 DEF EndLcs
    <3>3. CASE ReportRefusal \/ Measure
      BY <3>3 DEF ReportRefusal, Measure
    <3>4. CASE UNCHANGED vars
      BY <3>4 DEF vars, Matching
    <3> QED
      BY <1>4, <3>1, <3>2, <3>3, <3>4
  <2> QED
    BY <1>0, <1>1, <2>1, <2>2, <2>3 DEF Matching
<1> QED
  BY <1>2, <1>3, <1>4 DEF Next

\* What holds of the loop when the status is decided.
VerdictInv ==
    /\ TypeOK /\ RowRight /\ Diagonal /\ Matching
    /\ pc # "done" => status = Null
    /\ pc \in {"lcs", "measure"} => ~replay.refused

\* The similarity is the one of the longest common subsequence.
LEMMA SimilarityRight ==
    ASSUME TypeOK, RowRight, Diagonal, Matching, pc = "measure"
    PROVE  /\ LogsExact <=> left = right
           /\ LogsSimilar <=> Rules!SimilarLogs
<1> DEFINE n == row[Len(right)]
<1>1. /\ left \in Seq(Lines) /\ right \in Seq(Lines) /\ Len(left) \in Nat /\ Len(right) \in Nat
      /\ MinSimilarity \in Nat
  BY DEF TypeOK, left, right, Originals, Replays
<1>2. LinesOf(Len(right)) = Len(left) /\ Len(right) \in 0..Len(right) /\ n \in Nat
  BY <1>1 DEF TypeOK, Matching, LinesOf
<1>3. n <= Len(left) /\ n <= Len(right)
  BY <1>1, <1>2 DEF Matching
<1>4. LogsExact => left = right
  <2> SUFFICES ASSUME LogsExact PROVE left = right
    OBVIOUS
  <2>1. n = Len(left) /\ n = Len(right)
    BY <1>1, <1>2, <1>3 DEF LogsExact, Twice, Total
  <2>2. SameStart(Len(right))
    BY <1>2, <2>1 DEF Matching
  <2>3. Len(left) = Len(right) /\ \A m \in 1..Len(right) : left[m] = right[m]
    BY <2>1, <2>2 DEF SameStart
  <2> HIDE DEF n
  <2> QED
    BY <1>1, <2>3
<1>5. left = right => LogsExact
  <2> SUFFICES ASSUME left = right PROVE LogsExact
    OBVIOUS
  <2>1. n = Len(right)
    BY <1>1, <1>2 DEF Diagonal, Least
  <2> QED
    BY <1>1, <2>1 DEF LogsExact, Twice, Total
<1>6. Prefix(left, Len(left)) = left /\ Prefix(right, Len(right)) = right
  BY <1>1 DEF Prefix
<1>7. ASSUME NEW m \in Nat
      PROVE  Rules!ShareLines(left, right, m) <=> Common(left, right, Len(left), Len(right), m)
  BY <1>1, <1>2, <1>6, CommonPrefixes
<1>8. Lcs(n, Len(left), Len(right))
  BY <1>2 DEF RowRight
<1>9. LogsSimilar => Rules!SimilarLogs
  <2> SUFFICES ASSUME LogsSimilar PROVE Rules!SimilarLogs
    OBVIOUS
  <2>1. n \in 0..Len(left) /\ Rules!ShareLines(left, right, n)
    BY <1>1, <1>2, <1>3, <1>7, <1>8 DEF Lcs
  <2>2. 100 * (n + n) >= MinSimilarity * (Len(left) + Len(right))
    BY <1>1, <1>2 DEF LogsSimilar, Twice, Total
  <2> HIDE DEF n
  <2> QED
    BY <2>1, <2>2 DEF Rules!SimilarLogs, left, right
<1>10. Rules!SimilarLogs => LogsSimilar
  <2> SUFFICES ASSUME Rules!SimilarLogs PROVE LogsSimilar
    OBVIOUS
  <2>1. PICK m \in 0..Len(left) :
          /\ 100 * (m + m) >= MinSimilarity * (Len(left) + Len(right))
          /\ Rules!ShareLines(left, right, m)
    BY DEF Rules!SimilarLogs, left, right
  <2>2. m \in Nat /\ Common(left, right, Len(left), Len(right), m)
    BY <1>1, <1>7, <2>1
  <2>3. m <= n
    <3> SUFFICES ASSUME n + 1 <= m PROVE FALSE
      BY <1>2, <2>2
    <3>1. Common(left, right, Len(left), Len(right), n + 1)
      BY <1>1, <1>2, <2>2, CommonMonotone
    <3> QED
      BY <1>8, <3>1 DEF Lcs
  <2>4. 100 * (m + m) <= 100 * (2 * n)
    BY <1>2, <2>2, <2>3
  <2>5. MinSimilarity * (Len(left) + Len(right)) \in Int
    BY <1>1
  <2> QED
    BY <1>1, <1>2, <2>1, <2>2, <2>4, <2>5 DEF LogsSimilar, Twice, Total
<1> QED
  BY <1>4, <1>5, <1>9, <1>10

\* The two forms of an error are equal for errors the comparison knows that
\* are the same, and for no others.
LEMMA OutcomeRight ==
    ASSUME TypeOK
    PROVE  (ResultExact /\ ErrorExact) <=> Rules!SameOutcome
<1>1. original.error \in Errors /\ replay.error \in Errors
  BY DEF TypeOK, Originals, Replays
<1>2. ErrorExact => original.error = replay.error
  BY <1>1, CanonicalFaithful DEF ErrorExact
<1>3. ASSUME ErrorExact, original.error # Null PROVE original.error.kind # "object"
  <2>1. replay.error = original.error
    BY <1>2, <1>3
  <2>2. CanonicalDebug(replay.error).form = "debug"
    BY <1>3, <2>1 DEF CanonicalDebug
  <2>3. original.error.kind = "object" => CanonicalJson(original.error).form = "json"
    BY <1>3 DEF CanonicalJson
  <2> QED
    BY <1>3, <2>2, <2>3 DEF ErrorExact
<1>4. Rules!SameOutcome => ErrorExact
  BY DEF Rules!SameOutcome, ErrorExact, CanonicalJson, CanonicalDebug
<1> QED
  BY <1>2, <1>3, <1>4 DEF ResultExact, Rules!SameOutcome

\* The checks of balances ask for the original's state and no more.
LEMMA StateRight ==
    ASSUME TypeOK
    PROVE  (BalancesExact /\ TokenBalancesExact) <=> Rules!SameState
<1>1. ASSUME Rules!SameState PROVE BalancesExact
  <2> SUFFICES ASSUME NEW a \in original.writable PROVE PostLamports(a) = original.lamports[a]
    BY DEF BalancesExact
  <2>1. Rules!Lamports(a) = original.lamports[a]
    BY <1>1 DEF Rules!SameState
  <2> QED
    BY <2>1 DEF PostLamports, Rules!Lamports
<1>2. Rules!SameState => TokenBalancesExact
  BY DEF Rules!SameState, TokenBalancesExact, PostAmount, Rules!Amount
<1> QED
  BY <1>1, <1>2, ExactChecks

\* A percentage is a bound on the difference both ways.
LEMMA UnitsRight ==
    ASSUME TypeOK
    PROVE  UnitsClose <=> Rules!CloseUnits
<1>1. NoPercentage => Rules!CloseUnits /\ UnitsClose
  BY DEF NoPercentage, Rules!CloseUnits, UnitsClose
<1>2. ASSUME ~NoPercentage PROVE UnitsClose <=> Rules!CloseUnits
  <2>1. original.units \in Nat /\ replay.units \in Nat /\ MaxCuChange \in Nat
    BY <1>2 DEF NoPercentage, TypeOK, Originals, Replays, Units
  <2>2. MaxCuChange * original.units \in Nat
    BY <2>1
  <2>3. UnitsClose <=> 100 * UnitsDistance <= MaxCuChange * original.units
    BY <1>2 DEF UnitsClose
  <2>4. Rules!CloseUnits <=>
          /\ 100 * (replay.units - original.units) <= MaxCuChange * original.units
          /\ 100 * (original.units - replay.units) <= MaxCuChange * original.units
    BY <1>2 DEF NoPercentage, Rules!CloseUnits
  <2>5. 100 * UnitsDistance <= MaxCuChange * original.units <=>
          /\ 100 * (replay.units - original.units) <= MaxCuChange * original.units
          /\ 100 * (original.units - replay.units) <= MaxCuChange * original.units
    <3> DEFINE most == MaxCuChange * original.units
    <3>1. most \in Nat
      BY <2>2
    <3> HIDE DEF most
    <3>2. 100 * UnitsDistance <= most <=>
            /\ 100 * (replay.units - original.units) <= most
            /\ 100 * (original.units - replay.units) <= most
      BY <2>1, <3>1 DEF UnitsDistance
    <3> QED
      BY <3>2 DEF most
  <2> QED
    BY <2>3, <2>4, <2>5
<1> QED
  BY <1>1, <1>2

\* What the last step reports is what the rules decide.
LEMMA VerdictRight ==
    ASSUME VerdictInv, pc = "measure"
    PROVE  (IF ~eligible /\ Status # "FAILED" THEN "UNSUPPORTED" ELSE Status) = Rules!Verdict
<1>1. TypeOK /\ ~replay.refused
  BY DEF VerdictInv
<1>2. /\ LogsExact <=> left = right
      /\ LogsSimilar <=> Rules!SimilarLogs
  BY SimilarityRight DEF VerdictInv
<1>3. (ResultExact /\ ErrorExact) <=> Rules!SameOutcome
  BY <1>1, OutcomeRight
<1>4. (BalancesExact /\ TokenBalancesExact) <=> Rules!SameState
  BY <1>1, StateRight
<1>5. UnitsClose <=> Rules!CloseUnits
  BY <1>1, UnitsRight
<1>6. Rules!Exact <=> (/\ LogsExact /\ UnitsExact /\ BalancesExact /\ TokenBalancesExact
                       /\ InnerExact /\ ReturnDataExact)
  BY <1>2, <1>4 DEF Rules!Exact, UnitsExact, InnerExact, ReturnDataExact, left, right
<1>7. Rules!HighFidelity <=> (/\ LogsSimilar /\ UnitsClose /\ BalancesExact /\ TokenBalancesExact
                              /\ InnerExact)
  BY <1>2, <1>4, <1>5 DEF Rules!HighFidelity, InnerExact
<1>8. CASE ~Rules!SameOutcome
  BY <1>1, <1>3, <1>8 DEF Status, Rules!Verdict
<1>9. CASE Rules!SameOutcome
  <2>1. Status = IF Rules!Exact THEN "EXACT"
                 ELSE IF Rules!HighFidelity THEN "HIGH_FIDELITY" ELSE "PARTIAL"
    BY <1>3, <1>6, <1>7, <1>9 DEF Status
  <2> QED
    BY <1>1, <1>9, <2>1 DEF Rules!Verdict
<1> QED
  BY <1>8, <1>9

\* Each step of the comparison decides the status as the rules do, or leaves
\* it undecided.
LEMMA VerdictStep == VerdictInv /\ [Next]_vars => [Rules!Judge]_Rules!verdictVars
<1> SUFFICES ASSUME VerdictInv, [Next]_vars PROVE [Rules!Judge]_Rules!verdictVars
  OBVIOUS
<1>1. UNCHANGED <<original, replay, eligible>>
  BY DEF Next, ReportRefusal, BeginLcs, CompareLine, NextLine, EndLcs, Measure, inputs, vars
<1>2. CASE ReportRefusal
  <2>1. status = Null /\ status' = "UNSUPPORTED" /\ replay.refused
    BY <1>2 DEF ReportRefusal, VerdictInv
  <2> QED
    BY <1>1, <2>1 DEF Rules!Judge, Rules!Verdict
<1>3. CASE BeginLcs \/ CompareLine \/ NextLine \/ EndLcs
  <2>1. status' = status
    BY <1>3 DEF BeginLcs, CompareLine, NextLine, EndLcs
  <2> QED
    BY <1>1, <2>1 DEF Rules!verdictVars
<1>4. CASE Measure
  <2>1. status = Null /\ status' = Rules!Verdict
    BY <1>4, VerdictRight DEF Measure, VerdictInv
  <2> QED
    BY <1>1, <2>1 DEF Rules!Judge
<1>5. CASE UNCHANGED vars
  BY <1>1, <1>5 DEF vars, Rules!verdictVars
<1> QED
  BY <1>2, <1>3, <1>4, <1>5 DEF Next

\* The comparison implements Verdict: for all logs, the status is the one
\* the rules give the two executions, decided once.
THEOREM Implements == Spec => ImplementsVerdict
<1>1. Init => VerdictInv
  <2> SUFFICES ASSUME Init PROVE VerdictInv
    OBVIOUS
  <2>1. TypeOK /\ status = Null /\ pc = "start"
    BY InitRight
  <2> QED
    BY <2>1, InitRow, InitDiagonal, InitMatching DEF VerdictInv
<1>2. VerdictInv /\ [Next]_vars => VerdictInv'
  <2> SUFFICES ASSUME VerdictInv, [Next]_vars PROVE VerdictInv'
    OBVIOUS
  <2>1. TypeOK' /\ RowRight' /\ Diagonal' /\ Matching'
    BY NextTyped, NextRow, NextDiagonal, NextMatching DEF VerdictInv
  <2>2. pc' # "done" => status' = Null
    BY DEF VerdictInv, Next, ReportRefusal, BeginLcs, CompareLine, NextLine, EndLcs, Measure, vars
  <2>3. pc' \in {"lcs", "measure"} => ~replay'.refused
    BY DEF VerdictInv, Next, ReportRefusal, BeginLcs, CompareLine, NextLine, EndLcs, Measure, inputs, vars
  <2> QED
    BY <2>1, <2>2, <2>3 DEF VerdictInv
<1>3. Init => Rules!Init
  BY InitRight DEF Init, Rules!Init, TypeOK
<1> QED
  BY <1>1, <1>2, <1>3, VerdictStep, PTL DEF Spec, ImplementsVerdict, Rules!Spec
=============================================================================
