------------------------------- MODULE Verdict -------------------------------
(***************************************************************************)
(* What a status of compareReplay means.  One step decides it, by rules    *)
(* that say what the two executions have in common and nothing of how the  *)
(* program finds out: no table of line counts, no error or balance brought *)
(* into another form.                                                      *)
(***************************************************************************)
EXTENDS Integers, Sequences

CONSTANTS
    Accounts,
    Originals,      \* all that may be known of an original execution
    Replays,        \* and of a replay
    MinSimilarity,  \* the part of all log lines the two must share, in percent
    MaxCuChange,    \* how much the compute units may differ, in percent
    Null

VARIABLES original, replay, eligible, status

verdictVars == <<original, replay, eligible, status>>

Init ==
    /\ original \in Originals
    /\ replay \in Replays
    /\ eligible \in BOOLEAN
    /\ status = Null

Increasing(n, m) == {f \in [1..n -> 1..m] : \A i, j \in 1..n : i < j => f[i] < f[j]}

\* The two sequences have a common subsequence of n lines.
ShareLines(s, t, n) ==
    \E f \in Increasing(n, Len(s)), g \in Increasing(n, Len(t)) :
        \A i \in 1..n : s[f[i]] = t[g[i]]

\* Enough lines come in the same order in both logs, others in between.
SimilarLogs ==
    \E n \in 0..Len(original.logs) :
        /\ 100 * (n + n) >= MinSimilarity * (Len(original.logs) + Len(replay.logs))
        /\ ShareLines(original.logs, replay.logs, n)

\* Errors the comparison knows from the RPC; of others it never says that
\* they are the same.
SameOutcome ==
    /\ original.success = replay.success
    /\ original.error = replay.error
    /\ original.error # Null => original.error.kind # "object"

\* Compute units are only held against a replay when both are known and the
\* original's are not zero.
CloseUnits ==
    (original.units # Null /\ replay.units # Null /\ original.units # 0) =>
        /\ 100 * (replay.units - original.units) <= MaxCuChange * original.units
        /\ 100 * (original.units - replay.units) <= MaxCuChange * original.units

Lamports(a) == IF replay.post[a] = Null THEN 0 ELSE replay.post[a].lamports
Amount(a) == IF replay.post[a] = Null THEN Null ELSE replay.post[a].amount

\* The replay ended in the state of the original: an account that is missing
\* and one without lamports are the same.
SameState ==
    /\ \A a \in original.writable : Lamports(a) = original.lamports[a]
    /\ \A a \in Accounts : original.tokens[a] # Null => Amount(a) = original.tokens[a]

Exact ==
    /\ SameState
    /\ original.logs = replay.logs
    /\ original.units = replay.units
    /\ original.returnData = replay.returnData
    /\ ~original.inner

\* Of what was returned nothing is asked here.
HighFidelity ==
    /\ SameState
    /\ SimilarLogs
    /\ CloseUnits
    /\ ~original.inner

\* A refused replay, and one of a bundle that is not eligible, have no
\* fidelity; but a different outcome is reported of the latter.
Verdict ==
    IF replay.refused THEN "UNSUPPORTED"
    ELSE IF ~SameOutcome THEN "FAILED"
    ELSE IF ~eligible THEN "UNSUPPORTED"
    ELSE IF Exact THEN "EXACT"
    ELSE IF HighFidelity THEN "HIGH_FIDELITY"
    ELSE "PARTIAL"

Judge ==
    /\ status = Null
    /\ status' = Verdict
    /\ UNCHANGED <<original, replay, eligible>>

Spec == Init /\ [][Judge]_verdictVars
=============================================================================
