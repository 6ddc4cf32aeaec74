--------------------------- MODULE EvidenceProofs ---------------------------
(***************************************************************************)
(* Proofs about Evidence: what a SUPPORTED capture replays is a function   *)
(* of the transaction's metadata, and agrees with the past wherever the    *)
(* account kept its owner, for every set of accounts and every history of  *)
(* the ledger.                                                             *)
(***************************************************************************)
EXTENDS Evidence, TLAPS

USE AddressAssumption, StateAssumption, TransactionAssumption, BoundAssumption

-----------------------------------------------------------------------------
(* Labels.                                                                 *)

\* Every state a capture can meet or make up is a record of the right shape.
LEMMA Shapes ==
    /\ EmptyData \in Contents
    /\ Missing \in StateRecords
    /\ \A s \in States : s \in StateRecords
BY DEF EmptyData, Contents, Missing, StateRecords

\* What Executed says of the transfers SplClass lets through.
LEMMA SplParties ==
    ASSUME TypeOK, IsSpl
    PROVE  LET t == tx.token IN
           /\ t \in [source : Accounts, destination : Accounts, authority : Accounts,
                     mint : Accounts \cup {Nothing}]
           /\ \A a \in {t.source, t.destination} :
                /\ a \in Addresses /\ past[a].owner = Token
                /\ past[a].data.kind = "token" /\ past[a].data.value \in Balances
           /\ t.mint # Nothing =>
                /\ t.mint \in Addresses /\ past[t.mint].owner = Token
                /\ past[t.mint].data.kind = "mint" /\ past[t.mint].data.value = Nothing
<1>1. SplClass
  BY DEF IsSpl, TransactionClass
<1>2. tx.token # Nothing /\ ~tx.failed /\ tx \in TransactionRecords /\ Executed(tx, past)
  BY <1>1 DEF SplClass, TypeOK
<1>3. tx.token \in [source : Accounts, destination : Accounts, authority : Accounts,
                    mint : Accounts \cup {Nothing}]
  BY <1>2 DEF TransactionRecords
<1>4. past \in [Addresses -> States]
  BY DEF TypeOK
<1>5. \A a \in {tx.token.source, tx.token.destination} :
          a \in Addresses /\ past[a].owner = Token /\ past[a].data.kind = "token"
  BY <1>2, <1>3 DEF Executed, IsToken, Addresses
<1>6. \A a \in {tx.token.source, tx.token.destination} : past[a].data.value \in Balances
  BY <1>4, <1>5
<1>7. tx.token.mint # Nothing =>
          /\ tx.token.mint \in Addresses /\ past[tx.token.mint].owner = Token
          /\ past[tx.token.mint].data.kind = "mint" /\ past[tx.token.mint].data.value = Nothing
  BY <1>2, <1>3 DEF Executed, Addresses
<1> QED
  BY <1>3, <1>5, <1>6, <1>7

\* The state a label comes with is one an account can have.
LEMMA ProvenanceTyped ==
    ASSUME TypeOK, NEW a \in Addresses, NEW seen \in States
    PROVE  /\ Provenance(a, seen).label \in {"PROVEN", "INFERRED"} \cup Unsafe
           /\ Provenance(a, seen).input \in StateRecords \cup {Nothing}
<1>1. PreLamports(a) \in Nat /\ Token \in Programs
  BY DEF PreLamports, TypeOK, StateRecords
<1>2. ASSUME IsSpl, a \in {tx.token.source, tx.token.destination}
      PROVE  SyntheticToken(a) \in StateRecords
  BY <1>1, <1>2, SplParties DEF SyntheticToken, StateRecords, Contents
<1>3. SyntheticMint(a) \in StateRecords
  BY <1>1 DEF SyntheticMint, StateRecords, Contents
<1>4. Snapshot(a, seen) \in StateRecords
  BY <1>1 DEF Snapshot, StateRecords
<1> QED
  BY <1>2, <1>3, <1>4 DEF Provenance, Entry, Unsafe

\* A label that is not refused comes with the one input the metadata allow,
\* whatever was seen.
LEMMA LabelledInput ==
    ASSUME TypeOK, NEW a \in Involved, a \in Addresses, NEW seen \in States,
           Provenance(a, seen).label \notin Unsafe
    PROVE  HistoricalInput(a) = IF Provenance(a, seen).input # Nothing
                                THEN Provenance(a, seen).input ELSE Missing
<1>1. PreLamports(a) \in Nat /\ Token \in Programs
  BY DEF PreLamports, TypeOK, StateRecords
<1>2. CASE PinnedProgram(a)
  BY <1>2 DEF Provenance, HistoricalInput, Entry
<1>3. CASE ~PinnedProgram(a) /\ IsSpl /\ a \in {tx.token.source, tx.token.destination}
  <2>1. SyntheticToken(a) \in StateRecords
    BY <1>1, <1>3, SplParties DEF SyntheticToken, StateRecords, Contents
  <2> QED
    BY <1>3, <2>1 DEF Provenance, HistoricalInput, Entry
<1>4. CASE /\ ~PinnedProgram(a) /\ IsSpl /\ a = tx.token.mint
           /\ a \notin {tx.token.source, tx.token.destination}
  <2>1. SyntheticMint(a) \in StateRecords
    BY <1>1 DEF SyntheticMint, StateRecords, Contents
  <2> QED
    BY <1>4, <2>1 DEF Provenance, HistoricalInput, Entry
<1>5. CASE /\ ~PinnedProgram(a)
           /\ ~(IsSpl /\ a \in {tx.token.source, tx.token.destination})
           /\ ~(IsSpl /\ a = tx.token.mint)
  <2>1. HistoricalInput(a) = [owner |-> System, data |-> EmptyData, lamports |-> PreLamports(a)]
    BY <1>5 DEF HistoricalInput
  <2>2. CASE AbsentAuthority(a, seen)
    <3>1. Provenance(a, seen) = Entry("PROVEN", Nothing)
      BY <1>5, <2>2 DEF Provenance
    <3> QED
      BY <2>1, <2>2, <3>1 DEF AbsentAuthority, Missing, Entry
  <2>3. CASE ~AbsentAuthority(a, seen) /\ EmptyWallet(seen)
    <3>1. Provenance(a, seen) = Entry("PROVEN", Snapshot(a, seen))
      BY <1>5, <2>3 DEF Provenance
    <3>2. Snapshot(a, seen) = HistoricalInput(a)
      BY <2>1, <2>3 DEF Snapshot, EmptyWallet
    <3>3. Snapshot(a, seen) \in StateRecords
      BY <1>1 DEF Snapshot, StateRecords
    <3> QED
      BY <3>1, <3>2, <3>3 DEF Entry
  <2>4. CASE /\ ~AbsentAuthority(a, seen) /\ ~EmptyWallet(seen)
             /\ AbsentReadonly(a, seen)
    <3>1. Provenance(a, seen) = Entry("PROVEN", Nothing)
      BY <1>5, <2>4 DEF Provenance
    <3> QED
      BY <2>1, <2>4, <3>1 DEF AbsentReadonly, Missing, Entry
  <2>5. CASE /\ ~AbsentAuthority(a, seen) /\ ~EmptyWallet(seen)
             /\ ~AbsentReadonly(a, seen)
    <3>1. Provenance(a, seen) \in {Entry("UNKNOWN", Nothing), Entry("CURRENT_ONLY", Nothing)}
      BY <1>5, <2>5 DEF Provenance
    <3> QED
      BY <3>1 DEF Entry, Unsafe
  <2> QED
    BY <2>2, <2>3, <2>4, <2>5
<1> QED
  BY <1>2, <1>3, <1>4, <1>5

\* That input is the past where the account kept its owner, and whether it
\* holds data, until it was seen.
LEMMA LabelledPast ==
    ASSUME TypeOK, NEW a \in Involved \ RuntimePrograms, a \in Addresses, NEW seen \in States,
           Provenance(a, seen).label \notin Unsafe,
           SameShape(past[a], seen)
    PROVE  SameForReplay(HistoricalInput(a), past[a])
<1>0. past[a] \in States /\ ~PinnedProgram(a)
  BY DEF TypeOK, PinnedProgram
<1>1. CASE IsSpl /\ a \in {tx.token.source, tx.token.destination}
  <2>1. HistoricalInput(a) = SyntheticToken(a)
    BY <1>0, <1>1 DEF HistoricalInput
  <2>2. past[a].owner = Token /\ past[a].data.kind = "token"
    BY <1>1, SplParties
  <2> QED
    BY <2>1, <2>2 DEF SyntheticToken, SameForReplay, PreLamports
<1>2. CASE IsSpl /\ a = tx.token.mint /\ a \notin {tx.token.source, tx.token.destination}
  <2>1. HistoricalInput(a) = SyntheticMint(a)
    BY <1>0, <1>2 DEF HistoricalInput
  <2>2. a # Nothing
    BY DEF Involved, TypeOK, Addresses
  <2>3. past[a].owner = Token /\ past[a].data.kind = "mint" /\ past[a].data.value = Nothing
    BY <1>2, <2>2, SplParties
  <2> QED
    BY <2>1, <2>3 DEF SyntheticMint, SameForReplay, PreLamports
<1>3. CASE ~(IsSpl /\ a \in {tx.token.source, tx.token.destination}) /\ ~(IsSpl /\ a = tx.token.mint)
  <2>1. HistoricalInput(a) = [owner |-> System, data |-> EmptyData, lamports |-> past[a].lamports]
    BY <1>0, <1>3 DEF HistoricalInput, PreLamports
  <2>2. past[a].owner = System /\ past[a].data = EmptyData
    <3>1. CASE EmptyWallet(seen)
      BY <1>0, <3>1 DEF EmptyWallet, SameShape
    <3>2. CASE ~EmptyWallet(seen)
      <4>1. AbsentAuthority(a, seen) \/ AbsentReadonly(a, seen)
        BY <1>0, <1>3, <3>2 DEF Provenance, Entry, Unsafe
      <4>2. past[a].lamports = 0
        BY <4>1 DEF AbsentAuthority, AbsentReadonly, PreLamports
      <4> QED
        BY <1>0, <4>2 DEF Missing
    <3> QED
      BY <3>1, <3>2
  <2> QED
    BY <2>1, <2>2 DEF SameForReplay
<1> QED
  BY <1>1, <1>2, <1>3

-----------------------------------------------------------------------------
(* Invariance.                                                             *)

\* A capture that is accepted replays the inputs of the metadata, and its
\* labels are right wherever it was sure.
LEMMA CapturedRight ==
    ASSUME IInv, NEW dumped \in SUBSET (tx.programs \cap Upgradeable)
    PROVE  LET c == Captured(Entries, dumped) IN
           /\ c \in CaptureRecords
           /\ c.status = "SUPPORTED" =>
                /\ c.inputs = [a \in Addresses |-> HistoricalInput(a)]
                /\ \A a \in (c.sure \cap Involved) \ RuntimePrograms :
                       SameForReplay(HistoricalInput(a), past[a])
<1> DEFINE c == Captured(Entries, dumped)
<1>0. TypeOK /\ Involved \subseteq Addresses /\ observed \in [Addresses -> States]
  BY DEF IInv, TypeOK, Involved, TransactionRecords, Addresses
<1>1. \A a \in Addresses :
          /\ Entries[a] = Provenance(a, observed[a])
          /\ Entries[a].label \in {"PROVEN", "INFERRED"} \cup Unsafe
          /\ Entries[a].input \in StateRecords \cup {Nothing}
  BY <1>0, ProvenanceTyped DEF Entries
<1>2. c \in CaptureRecords
  <2>1. c.status \in {"SUPPORTED", "UNSUPPORTED"}
    BY DEF Captured, Eligibility
  <2>2. c.label \in [Addresses -> {"PROVEN", "INFERRED"} \cup Unsafe]
    BY <1>1 DEF Captured
  <2>3. c.inputs \in [Addresses -> StateRecords]
    BY <1>1, Shapes DEF Captured, InputsOf
  <2>4. c.sure \in SUBSET Addresses
    BY <1>0 DEF Captured, TypeOK
  <2> QED
    BY <2>1, <2>2, <2>3, <2>4 DEF Captured, CaptureRecords
<1>3. ASSUME c.status = "SUPPORTED"
      PROVE  /\ c.inputs = [a \in Addresses |-> HistoricalInput(a)]
             /\ \A a \in (c.sure \cap Involved) \ RuntimePrograms :
                    SameForReplay(HistoricalInput(a), past[a])
  <2>1. \A a \in Involved : Entries[a].label \notin Unsafe
    BY <1>3 DEF Captured, Eligibility
  <2>2. ASSUME NEW a \in Addresses
        PROVE  InputsOf(Entries)[a] = HistoricalInput(a)
    <3>1. CASE a \in Involved
      <4>1. HistoricalInput(a) = IF Entries[a].input # Nothing THEN Entries[a].input ELSE Missing
        BY <1>0, <1>1, <2>1, <3>1, LabelledInput
      <4> QED
        BY <3>1, <4>1 DEF InputsOf
    <3>2. CASE a \notin Involved
      BY <3>2 DEF InputsOf, HistoricalInput
    <3> QED
      BY <3>1, <3>2
  <2>3. c.inputs = [a \in Addresses |-> HistoricalInput(a)]
    BY <2>2 DEF Captured, InputsOf
  <2>4. ASSUME NEW a \in (c.sure \cap Involved) \ RuntimePrograms
        PROVE  SameForReplay(HistoricalInput(a), past[a])
    <3>1. SameShape(past[a], observed[a])
      BY DEF IInv, SureKeepShape, Captured
    <3>2. a \in Addresses /\ Provenance(a, observed[a]).label \notin Unsafe
      BY <1>0, <1>1, <2>1
    <3> QED
      BY <1>0, <3>1, <3>2, LabelledPast
  <2> QED
    BY <2>3, <2>4
<1> QED
  BY <1>2, <1>3

\* The metadata do not change, and what they determine does not.
LEMMA MetadataStay ==
    ASSUME UNCHANGED <<tx, past>>
    PROVE  /\ Involved' = Involved
           /\ \A a : HistoricalInput(a)' = HistoricalInput(a)
BY DEF HistoricalInput, Involved, PinnedProgram, IsSpl, TransactionClass, SystemClass,
    SplClass, HasTokenBalance, SyntheticToken, SyntheticMint, PreLamports

\* A step that captures nothing.
LEMMA CapturesStay ==
    ASSUME TypeOK, InputsComeFromMetadata, TrustedLabels, UNCHANGED <<tx, past, captures>>
    PROVE  InputsComeFromMetadata' /\ TrustedLabels'
<1>1. Supported' = Supported
  BY DEF Supported
<1>2. Involved' = Involved /\ \A a : HistoricalInput(a)' = HistoricalInput(a)
  BY MetadataStay
<1>3. InputsComeFromMetadata'
  BY <1>1, <1>2 DEF InputsComeFromMetadata
<1>4. TrustedLabels'
  BY <1>1, <1>2 DEF TrustedLabels, SameForReplay
<1> QED
  BY <1>3, <1>4

\* Before the first capture there is nothing to be wrong about.
LEMMA InitRight == Init => IInv
<1> SUFFICES ASSUME Init PROVE IInv
  OBVIOUS
<1>1. past \in [Addresses -> States] /\ Missing \in States
  BY DEF Init
<1>2. TypeOK
  BY <1>1 DEF Init, TypeOK
<1>3. captures = << >> /\ sure = {} /\ Supported = {}
  BY DEF Init, Supported
<1>4. SteadyKeepShape
  BY DEF Init, SteadyKeepShape, SameShape
<1> QED
  BY <1>2, <1>3, <1>4 DEF IInv, InputsComeFromMetadata, TrustedLabels, SureKeepShape

\* The inductive step.
LEMMA NextRight == IInv /\ [Next]_vars => IInv'
<1> SUFFICES ASSUME IInv, [Next]_vars PROVE IInv'
  OBVIOUS
<1> USE DEF IInv
<1>0. tx \in TransactionRecords /\ tx.accounts \subseteq Addresses
  BY DEF TypeOK, TransactionRecords, Addresses
<1>1. ASSUME NEW a \in tx.accounts, NEW s \in States, Change(a, s) PROVE IInv'
  <2>1. TypeOK'
    BY <1>0, <1>1 DEF Change, TypeOK
  <2>2. InputsComeFromMetadata' /\ TrustedLabels'
    BY <1>1, CapturesStay DEF Change
  <2>3. SteadyKeepShape'
    <3> SUFFICES ASSUME NEW b \in steady' PROVE SameShape(past[b], ledger'[b])
      BY <1>1 DEF Change, SteadyKeepShape
    <3>1. b \in steady /\ SameShape(past[b], ledger[b]) /\ ledger \in [Addresses -> States]
      BY <1>1 DEF Change, SteadyKeepShape, TypeOK
    <3>2. CASE b = a
      BY <1>1, <3>1, <3>2 DEF Change, SameShape, TypeOK
    <3>3. CASE b # a
      BY <1>1, <3>1, <3>3 DEF Change, TypeOK
    <3> QED
      BY <3>2, <3>3
  <2>4. SureKeepShape'
    BY <1>1 DEF Change, SureKeepShape
  <2> QED
    BY <2>1, <2>2, <2>3, <2>4
<1>2. ASSUME ReadChunk PROVE IInv'
  <2>1. read \in Nat /\ read + 1 \in DOMAIN Chunks /\ Chunks[read + 1] \subseteq Addresses
    BY <1>2 DEF ReadChunk, TypeOK
  <2>2. TypeOK'
    BY <1>2, <2>1 DEF ReadChunk, TypeOK
  <2>3. InputsComeFromMetadata' /\ TrustedLabels' /\ SteadyKeepShape'
    BY <1>2, CapturesStay DEF ReadChunk, SteadyKeepShape
  <2>4. SureKeepShape'
    BY <1>2, <2>1 DEF ReadChunk, SureKeepShape, SteadyKeepShape, TypeOK
  <2> QED
    BY <2>2, <2>3, <2>4
<1>3. ASSUME Classify PROVE IInv'
  <2>1. PICK dumped \in SUBSET (tx.programs \cap Upgradeable) :
            captures' = Append(captures, Captured(Entries, dumped))
    BY <1>3 DEF Classify
  <2> DEFINE c == Captured(Entries, dumped)
  <2>2. c \in CaptureRecords /\ captures \in Seq(CaptureRecords)
    BY CapturedRight DEF TypeOK
  <2>3. /\ DOMAIN captures' = 1..(Len(captures) + 1) /\ DOMAIN captures = 1..Len(captures)
        /\ captures'[Len(captures) + 1] = c
        /\ \A i \in DOMAIN captures : captures'[i] = captures[i]
        /\ captures' \in Seq(CaptureRecords)
    BY <2>1, <2>2
  <2>4. UNCHANGED <<tx, past, ledger, steady, changes>>
    BY <1>3 DEF Classify
  <2>5. TypeOK'
    BY <1>3, <2>3, <2>4 DEF Classify, Forget, TypeOK
  <2>6. Involved' = Involved /\ \A a : HistoricalInput(a)' = HistoricalInput(a)
    BY <2>4, MetadataStay
  <2>7. \A i \in Supported' : i \in Supported \/ (i = Len(captures) + 1 /\ c.status = "SUPPORTED")
    BY <2>3, <2>2 DEF Supported
  <2>8. InputsComeFromMetadata'
    BY <2>3, <2>6, <2>7, CapturedRight DEF InputsComeFromMetadata, Supported
  <2>9. TrustedLabels'
    BY <2>3, <2>4, <2>6, <2>7, CapturedRight DEF TrustedLabels, Supported
  <2>10. SteadyKeepShape' /\ SureKeepShape'
    BY <1>3, <2>4 DEF Classify, Forget, SteadyKeepShape, SureKeepShape
  <2> QED
    BY <2>5, <2>8, <2>9, <2>10
<1>4. ASSUME Abandon PROVE IInv'
  <2>1. TypeOK'
    BY <1>4 DEF Abandon, Forget, TypeOK
  <2>2. InputsComeFromMetadata' /\ TrustedLabels' /\ SteadyKeepShape' /\ SureKeepShape'
    BY <1>4, CapturesStay DEF Abandon, Forget, SteadyKeepShape, SureKeepShape
  <2> QED
    BY <2>1, <2>2
<1>5. CASE UNCHANGED vars
  <2>1. TypeOK'
    BY <1>5 DEF vars, TypeOK
  <2>2. InputsComeFromMetadata' /\ TrustedLabels' /\ SteadyKeepShape' /\ SureKeepShape'
    BY <1>5, CapturesStay DEF vars, SteadyKeepShape, SureKeepShape
  <2> QED
    BY <2>1, <2>2
<1> QED
  BY <1>1, <1>2, <1>3, <1>4, <1>5 DEF Next

\* The inductive invariant, of which the theorems are consequences.
LEMMA InvRight == Spec => []IInv
BY InitRight, NextRight, PTL DEF Spec

\* Every variable keeps its type, and what is captured has the form of a
\* capture.
THEOREM TypeCorrect == Spec => []TypeOK
<1>1. IInv => TypeOK
  BY DEF IInv
<1> QED
  BY <1>1, InvRight, PTL

\* Any two SUPPORTED captures of a transaction replay the same inputs,
\* whatever the ledger did between them.
THEOREM SameWheneverCaptured == Spec => []RecaptureIsStable
<1>1. IInv => RecaptureIsStable
  BY DEF IInv, InputsComeFromMetadata, RecaptureIsStable
<1> QED
  BY <1>1, InvRight, PTL

\* What a SUPPORTED capture replays is the past of every account that kept
\* its owner, and whether it holds data, until it was seen.
THEOREM SupportedIsHistorical == Spec => []SupportedInputsAreHistorical
<1>1. IInv => SupportedInputsAreHistorical
  <2> SUFFICES ASSUME IInv, NEW i \in Supported,
                      NEW a \in (captures[i].sure \cap Involved) \ RuntimePrograms
               PROVE  SameForReplay(captures[i].inputs[a], past[a])
    BY DEF SupportedInputsAreHistorical
  <2>1. a \in Addresses
    BY DEF IInv, TypeOK, Involved, TransactionRecords, Addresses
  <2>2. captures[i].inputs[a] = HistoricalInput(a)
    BY <2>1 DEF IInv, InputsComeFromMetadata
  <2> QED
    BY <2>2 DEF IInv, TrustedLabels
<1> QED
  BY <1>1, InvRight, PTL

-----------------------------------------------------------------------------
(* Nothing is refused without cause.                                       *)

\* The programs of a supported class come with the runtime.
LEMMA SupportedPrograms ==
    ASSUME TransactionClass # "UNSUPPORTED"
    PROVE  tx.programs \subseteq RuntimePrograms
BY DEF TransactionClass, SystemClass, SplClass

\* What is recoverable gets a label the gate takes.
LEMMA RecoverableLabel ==
    ASSUME TypeOK, NEW a \in Involved \ RuntimePrograms, a \in Addresses, NEW seen \in States,
           Recoverable(a, seen)
    PROVE  Provenance(a, seen).label \notin Unsafe
<1>0. ~PinnedProgram(a) /\ past[a] \in States /\ System \in Programs
  BY DEF TypeOK, PinnedProgram
<1>1. CASE IsSpl /\ a \in {tx.token.source, tx.token.destination, tx.token.mint}
  BY <1>0, <1>1 DEF Provenance, Entry, Unsafe
<1>2. CASE /\ past[a].owner = System /\ past[a].data = EmptyData
           /\ SameShape(past[a], seen) /\ ~IsNull(seen)
  <2>1. EmptyWallet(seen)
    BY <1>2 DEF SameShape, EmptyWallet, EmptyData
  <2> QED
    BY <1>0, <2>1 DEF Provenance, Entry, Unsafe
<1>3. CASE /\ IsNull(past[a]) /\ IsNull(seen)
           /\ a \notin tx.writable \/ (IsSpl /\ a = tx.token.authority)
  <2>1. PreLamports(a) = 0 /\ ~EmptyWallet(seen)
    BY <1>3 DEF PreLamports, IsNull, EmptyWallet
  <2>2. AbsentAuthority(a, seen) \/ AbsentReadonly(a, seen)
    BY <1>3, <2>1 DEF AbsentAuthority, AbsentReadonly
  <2> QED
    BY <1>0, <2>1, <2>2 DEF Provenance, Entry, Unsafe
<1> QED
  BY <1>1, <1>2, <1>3 DEF Recoverable

\* A capture is SUPPORTED whenever all its accounts were recoverable, for
\* every set of accounts and every order in which they were read.
THEOREM RefusesForCause == Spec => RecoverableIsSupported
<1> DEFINE New == \A i \in DOMAIN captures' \ DOMAIN captures :
         (/\ TransactionClass # "UNSUPPORTED" /\ ~tx.lookups
          /\ \A a \in Involved \ RuntimePrograms : Recoverable(a, observed[a]))
         => captures'[i].status = "SUPPORTED"
<1>1. IInv /\ [Next]_vars => [New]_vars
  <2> SUFFICES ASSUME IInv, Next, NEW i \in DOMAIN captures' \ DOMAIN captures,
                      TransactionClass # "UNSUPPORTED", ~tx.lookups,
                      \A a \in Involved \ RuntimePrograms : Recoverable(a, observed[a])
               PROVE  captures'[i].status = "SUPPORTED"
    OBVIOUS
  <2>1. captures' # captures
    OBVIOUS
  <2>2. Classify
    BY <2>1 DEF Next, Change, ReadChunk, Abandon
  <2>3. PICK dumped \in SUBSET (tx.programs \cap Upgradeable) :
            captures' = Append(captures, Captured(Entries, dumped))
    BY <2>2 DEF Classify
  <2>4. captures \in Seq(CaptureRecords) /\ Captured(Entries, dumped) \in CaptureRecords
    BY CapturedRight DEF IInv, TypeOK
  <2>5. captures'[i] = Captured(Entries, dumped)
    BY <2>3, <2>4
  <2>6. Involved \subseteq Addresses /\ observed \in [Addresses -> States] /\ TypeOK
    BY DEF IInv, TypeOK, Involved, TransactionRecords, Addresses
  <2>7. ASSUME NEW a \in Involved PROVE Entries[a].label \notin Unsafe
    <3>1. Entries[a] = Provenance(a, observed[a]) /\ observed[a] \in States /\ a \in Addresses
      BY <2>6 DEF Entries
    <3>2. CASE a \notin RuntimePrograms
      BY <2>6, <3>1, <3>2, RecoverableLabel
    <3>3. CASE a \in RuntimePrograms
      <4>1. PinnedProgram(a)
        BY <2>6, <3>3 DEF PinnedProgram, Involved, IInv, TypeOK, TransactionRecords
      <4> QED
        BY <3>1, <4>1 DEF Provenance, Entry, Unsafe
    <3> QED
      BY <3>2, <3>3
  <2>8. dumped \subseteq RuntimePrograms
    BY SupportedPrograms
  <2>9. Eligibility(Entries, dumped) = "SUPPORTED"
    BY <2>7, <2>8 DEF Eligibility
  <2> QED
    BY <2>5, <2>9 DEF Captured
<1> QED
  BY <1>1, InvRight, PTL DEF Spec, RecoverableIsSupported
=============================================================================
