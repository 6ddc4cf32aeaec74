------------------------------ MODULE MCCapture ------------------------------
(* Small instances of Capture for TLC.                                     *)
EXTENDS Capture, TLC

CONSTANTS k1, k2, k3, x1, x2, p1, p2

MCCalls == Processes \X {1, 2}
MCOneKey == <<k1>>
MCThreeKeys == <<k1, k2, k3>>

\* What an inspection leaves that ended at the slot of the transaction.
CompleteDirectory ==
    [f \in Artifacts \cup Programs |->
        CASE f \in Immutable -> "history"
          [] f = "accounts.json" ->
               [observed |-> [k \in Keys |-> TxSlot], capturedAt |-> TxSlot]
          [] f = "programs.json" -> [x \in Programs |-> TxSlot]
          [] f = "lookup-tables.json" -> IF HasLookups THEN TxSlot ELSE Null
          [] OTHER -> TxSlot]

\* The commands find the directory of an earlier inspection.
ReusedSpec ==
    /\ calls = [k \in Calls |-> Silent]
    /\ now = TxSlot
    /\ dir = CompleteDirectory
    /\ bundle = Null
    /\ pc = [p \in Processes |-> "idle"]
    /\ proc = [p \in Processes |-> NoLocals]
    /\ started = 0
    /\ [][Next]_vars

ProcessSymmetry == Permutations(Processes)
=============================================================================
