----------------------------- MODULE Comparison -----------------------------
(***************************************************************************)
(* What compareReplay makes of an original execution and a replay of it:   *)
(* the similarity of their logs, computed in one row of counters, and the  *)
(* fidelity status.  The two executions never change; the control is the   *)
(* loop of lcsLength.                                                      *)
(***************************************************************************)
EXTENDS Integers, Sequences

CONSTANTS
    Accounts,
    Lines,          \* log lines
    Executions,     \* pairs of an original and a replay that may be compared
    MinSimilarity,  \* the log threshold of HIGH_FIDELITY, in percent
    MaxCuChange,    \* and the compute-unit threshold
    Null            \* no value; no comparison yet

\* An error as the RPC reports it.  Debug-printed by the backend, the first
\* four kinds come out in the form canonicalError gives the RPC's JSON, the
\* others (objects it does not know) in another one.
ErrorRecords == [kind : {"plain", "named", "custom", "rent", "object"}, detail : Nat]
Errors == ErrorRecords \cup {Null}

\* What canonicalError turns them into.
Canonical == [form : {"json", "debug"}, error : ErrorRecords]

Units == Nat \cup {Null}

\* original-execution.json and expected.json.
Originals ==
    [success : BOOLEAN, error : Errors, logs : Seq(Lines), units : Units,
     writable : SUBSET Accounts, lamports : [Accounts -> Nat],
     tokens : [Accounts -> Nat \cup {Null}],
     inner : BOOLEAN, returnData : Nat \cup {Null}]

\* replay.json: accounts are missing from it that do not exist, and the
\* amount is what bytes 64 to 71 hold, if there are as many.
PostAccounts == [lamports : Nat, amount : Nat \cup {Null}] \cup {Null}

Replays ==
    [refused : BOOLEAN, success : BOOLEAN, error : Errors, logs : Seq(Lines), units : Units,
     post : [Accounts -> PostAccounts], returnData : Nat \cup {Null}]

ASSUME ComparisonAssumption ==
    /\ Executions \subseteq Originals \X Replays
    /\ MinSimilarity \in 0..100 /\ MaxCuChange \in 0..100
    /\ Null \notin Nat \cup Canonical
    /\ Null \notin {"EXACT", "HIGH_FIDELITY", "PARTIAL", "FAILED", "UNSUPPORTED"}

VARIABLES
    original, replay,
    eligible,         \* what the manifest says
    pc,
    row, diagonal,    \* lcsLength's counters
    line, index,      \* its loop variables
    status            \* comparison.status

inputs == <<original, replay, eligible>>
vars == <<inputs, pc, row, diagonal, line, index, status>>

left == original.logs
right == replay.logs

Init ==
    /\ \E e \in Executions : original = e[1] /\ replay = e[2]
    /\ eligible \in BOOLEAN
    /\ pc = "start"
    /\ row = [k \in 0..Len(right) |-> 0]
    /\ diagonal = 0 /\ line = 1 /\ index = 1
    /\ status = Null

-----------------------------------------------------------------------------
(* logSimilarity.                                                          *)

ReportRefusal ==
    /\ pc = "start"
    /\ replay.refused
    /\ status' = "UNSUPPORTED"
    /\ pc' = "done"
    /\ UNCHANGED <<inputs, row, diagonal, line, index>>

BeginLcs ==
    /\ pc = "start"
    /\ ~replay.refused
    /\ pc' = IF left = << >> /\ right = << >> THEN "measure" ELSE "lcs"
    /\ UNCHANGED <<inputs, row, diagonal, line, index, status>>

Larger(m, n) == IF m > n THEN m ELSE n

\* Mutant: the cell that has just been overwritten counts as the diagonal one.
CountsTwice(previous) == row[index] + 1

\* A matching line extends what the prefixes without it have in common.
Extended(previous) == diagonal + 1

CompareLine ==
    /\ pc = "lcs"
    /\ line <= Len(left) /\ index <= Len(right)
    /\ LET previous == row[index] IN
         /\ row' = [row EXCEPT ![index] =
                      IF left[line] = right[index] THEN Extended(previous)
                      ELSE Larger(row[index], row[index - 1])]
         /\ diagonal' = previous
    /\ index' = index + 1
    /\ UNCHANGED <<inputs, pc, line, status>>

\* Mutant: the outer loop does not stop at the last line.
NextLineForever ==
    /\ pc = "lcs"
    /\ index > Len(right)
    /\ line' = line + 1
    /\ index' = 1
    /\ diagonal' = 0
    /\ UNCHANGED <<inputs, pc, row, status>>

NextLine ==
    /\ pc = "lcs"
    /\ line <= Len(left) /\ index > Len(right)
    /\ line' = line + 1
    /\ index' = 1
    /\ diagonal' = 0
    /\ UNCHANGED <<inputs, pc, row, status>>

EndLcs ==
    /\ pc = "lcs"
    /\ line > Len(left)
    /\ pc' = "measure"
    /\ UNCHANGED <<inputs, row, diagonal, line, index, status>>

\* The similarity is Twice lcs out of Total lines; no lines at all are alike.
Twice == 2 * row[Len(right)]
Total == Len(left) + Len(right)

\* Mutant: similarity as the share of the longer log.
SimilarToLonger == 100 * row[Len(right)] >= MinSimilarity * Larger(Len(left), Len(right))

LogsExact == Twice = Total
LogsSimilar == 100 * Twice >= MinSimilarity * Total

-----------------------------------------------------------------------------
(* The checks of compareReplay.                                            *)

\* canonicalError, of the RPC's JSON and of the backend's debug string.
CanonicalJson(e) ==
    IF e = Null THEN Null
    ELSE IF e.kind = "object" THEN [form |-> "json", error |-> e]
    ELSE [form |-> "debug", error |-> e]
CanonicalDebug(e) == IF e = Null THEN Null ELSE [form |-> "debug", error |-> e]

ResultExact == original.success = replay.success
ErrorExact == CanonicalJson(original.error) = CanonicalDebug(replay.error)

UnitsExact == original.units = replay.units

\* differencePercent is null when a count is missing or the original one zero.
NoPercentage == original.units = Null \/ replay.units = Null \/ original.units = 0

UnitsDistance ==
    IF replay.units > original.units
    THEN replay.units - original.units ELSE original.units - replay.units

UnitsClose == NoPercentage \/ 100 * UnitsDistance <= MaxCuChange * original.units

\* Mutants: a missing account is taken for whatever was expected; a missing
\* account always counts as null.
MissingAsExpected(a) ==
    IF replay.post[a] # Null THEN replay.post[a].lamports ELSE original.lamports[a]
MissingAsNull(a) ==
    IF replay.post[a] # Null THEN replay.post[a].lamports ELSE Null

PostLamports(a) ==
    IF replay.post[a] # Null THEN replay.post[a].lamports
    ELSE IF original.lamports[a] = 0 THEN 0 ELSE Null

BalancesExact == \A a \in original.writable : PostLamports(a) = original.lamports[a]

PostAmount(a) == IF replay.post[a] # Null THEN replay.post[a].amount ELSE Null

TokenBalancesExact ==
    \A a \in Accounts : original.tokens[a] # Null => PostAmount(a) = original.tokens[a]

\* The backend reports no inner instructions.
InnerExact == ~original.inner

ReturnDataExact == original.returnData = replay.returnData

Status ==
    IF ~ResultExact \/ ~ErrorExact THEN "FAILED"
    ELSE IF /\ LogsExact /\ UnitsExact /\ BalancesExact /\ TokenBalancesExact
            /\ InnerExact /\ ReturnDataExact
      THEN "EXACT"
    ELSE IF LogsSimilar /\ UnitsClose /\ BalancesExact /\ TokenBalancesExact /\ InnerExact
      THEN "HIGH_FIDELITY"
    ELSE "PARTIAL"

Measure ==
    /\ pc = "measure"
    /\ status' = IF ~eligible /\ Status # "FAILED" THEN "UNSUPPORTED" ELSE Status
    /\ pc' = "done"
    /\ UNCHANGED <<inputs, row, diagonal, line, index>>

Next == ReportRefusal \/ BeginLcs \/ CompareLine \/ NextLine \/ EndLcs \/ Measure

Spec == Init /\ [][Next]_vars

-----------------------------------------------------------------------------
(* Properties.                                                             *)

\* The meaning of a status, and what it is told by.
Rules == INSTANCE Verdict

IsLcsLength(n, s, t) == Rules!ShareLines(s, t, n) /\ ~Rules!ShareLines(s, t, n + 1)

Prefix(s, n) == SubSeq(s, 1, n)

\* The one row holds two: up to the cell the loop has reached, what the lines
\* read so far share with each prefix of the replay's log, and behind it what
\* the lines before this one share.
RowIsLcs ==
    pc # "start" =>
        \A k \in 0..Len(right) :
            LET lines == IF k < index /\ line <= Len(left) THEN line ELSE line - 1
            IN  IsLcsLength(row[k], Prefix(left, lines), Prefix(right, k))

\* Types.  The replay may hold fewer accounts than there are, the row one
\* counter more than there are lines.
TypeOK ==
    /\ original \in Originals /\ replay \in Replays /\ eligible \in BOOLEAN
    /\ pc \in {"start", "lcs", "measure", "done"}
    /\ line \in 1..(Len(left) + 1) /\ index \in 1..(Len(right) + 1)
    /\ row \in [0..Len(right) -> Nat] /\ diagonal \in Nat
    /\ status \in {"EXACT", "HIGH_FIDELITY", "PARTIAL", "FAILED", "UNSUPPORTED", Null}

\* A status assert accepts stands for a replay that ended as the original
\* did and in its state, also where accounts were closed on one side only.
AcceptedMeansSameState ==
    status \in {"EXACT", "HIGH_FIDELITY"} =>
        /\ eligible /\ ~replay.refused
        /\ original.success = replay.success /\ original.error = replay.error
        /\ Rules!SameState

\* A replay that did all the original did is EXACT: the two ways to print an
\* error, to leave out a closed account and to say nothing do not count as
\* differences.
IdenticalIsExact ==
    (/\ pc = "done" /\ eligible /\ ~replay.refused /\ Rules!SameState
     /\ original.success = replay.success
     /\ original.error = replay.error /\ (original.error # Null => original.error.kind # "object")
     /\ left = right /\ original.units = replay.units
     /\ ~original.inner /\ original.returnData = replay.returnData)
    => status = "EXACT"

\* The status is the verdict of the rules, decided once, whatever the logs:
\* one row of counters finds the longest common subsequence, only equal logs
\* are exact, and only what the rules tell apart makes a difference.
ImplementsVerdict == Rules!Spec

\* The rule compareReplay prints for HIGH_FIDELITY: the compute units differ
\* by at most one percent.
HighFidelityKeepsToItsRule ==
    (status = "HIGH_FIDELITY" /\ original.units # Null /\ replay.units # Null) =>
            100 * UnitsDistance <= MaxCuChange * original.units
=============================================================================
