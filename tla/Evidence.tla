------------------------------ MODULE Evidence ------------------------------
(***************************************************************************)
(* Which inputs of a past transaction solrepro is willing to replay.  A    *)
(* transaction executed once; its metadata records the lamports and the    *)
(* token balances its accounts held.  The ledger moves on.  A capture      *)
(* reads the accounts as they are now, in chunks at different slots, and   *)
(* labels each of them; evaluateEligibility decides whether the labels are *)
(* good enough.  `past` is the state the labels are about: the model keeps *)
(* it, the RPC does not.                                                   *)
(***************************************************************************)
EXTENDS Naturals, Sequences

CONSTANTS
    Accounts,         \* addresses of ordinary accounts
    Programs,         \* addresses of programs
    System, Token, ComputeBudget,  \* three of them
    RuntimePrograms,  \* those the pinned LiteSVM brings along
    Upgradeable,      \* those whose bytes a capture can dump
    Loader,           \* the owner of programs
    WrappedSol,       \* the mint the SPL class excludes
    Bytes,            \* what accounts that are not token accounts hold
    Nothing,          \* among them: no bytes; also no state, no instruction, no mint
    States,           \* account states on the ledger
    Ledgers,          \* the ledgers the transaction may have executed on
    Transactions,     \* what could have been executed
    Chunks,           \* the account addresses, as getMultipleAccounts groups them
    MaxChanges,       \* bound: changes of the ledger after the transaction
    MaxCaptures       \* bound: captures kept

Addresses == Accounts \cup Programs

\* What an account holds.  The transfers read the value; `extra` stands for
\* the fields of token accounts and mints that they do not read.
Balances == [mint : Accounts, holder : Accounts, amount : Nat]

Contents ==
    [kind : {"empty", "token", "mint", "other"}, value : Balances \cup Bytes,
     extra : {"normal", "used"}]

EmptyData == [kind |-> "empty", value |-> Nothing, extra |-> "normal"]

StateRecords == [owner : Programs \cup {Loader}, data : Contents, lamports : Nat]

\* An address without an account reads as an empty, system-owned account
\* without lamports; the RPC returns null for it.
Missing == [owner |-> System, data |-> EmptyData, lamports |-> 0]

IsNull(s) == s.lamports = 0

IsToken(s) == s.owner = Token /\ s.data.kind = "token"

TransactionRecords ==
    [accounts : SUBSET Accounts, programs : SUBSET Programs,
     writable : SUBSET Accounts, signers : SUBSET Accounts,
     failed : BOOLEAN, lookups : BOOLEAN, inner : BOOLEAN,
     systemTransfer : BOOLEAN,
     post : SUBSET Accounts, holders : SUBSET Accounts,
     token : [source : Accounts, destination : Accounts, authority : Accounts,
              mint : Accounts \cup {Nothing}] \cup {Nothing}]

ASSUME AddressAssumption ==
    /\ {System, Token, ComputeBudget} \subseteq RuntimePrograms
    /\ RuntimePrograms \subseteq Programs
    /\ Upgradeable \subseteq Programs
    /\ System # Token
    /\ Loader \notin RuntimePrograms
    /\ Accounts \cap Programs = {}
    /\ Nothing \in Bytes /\ Nothing \notin Addresses \cup Balances

\* Accounts without lamports do not exist, and only a token account keeps a
\* balance.
ASSUME StateAssumption ==
    /\ States \subseteq StateRecords
    /\ Nothing \notin StateRecords
    /\ \A s \in States :
         /\ s.lamports = 0 => s = Missing
         /\ s.data.kind = "empty" => s.data = EmptyData
         /\ s.data.kind = "token" <=> s.data.value \in Balances
    /\ Missing \in States
    /\ Ledgers \subseteq [Addresses -> States]

ASSUME TransactionAssumption ==
    /\ Transactions \subseteq TransactionRecords
    /\ Nothing \notin [source : Accounts, destination : Accounts, authority : Accounts,
                       mint : Accounts \cup {Nothing}]

ASSUME BoundAssumption ==
    /\ MaxChanges \in Nat /\ MaxCaptures \in Nat
    /\ Chunks \in Seq(SUBSET Addresses)
    /\ \A a \in Addresses : \E i \in DOMAIN Chunks : a \in Chunks[i]

VARIABLES
    tx,        \* the transaction
    past,      \* the ledger it executed on
    ledger,    \* the ledger now
    steady,    \* addresses that kept their owner, and whether they hold data
    read,      \* chunks the current capture has read
    observed,  \* [Addresses -> what it saw]
    sure,      \* addresses that were steady when it saw them
    captures,  \* captures made
    changes

vars == <<tx, past, ledger, steady, read, observed, sure, captures, changes>>

-----------------------------------------------------------------------------
(* The metadata getTransaction returns.                                    *)

Involved == tx.accounts \cup tx.programs

PreLamports(a) == past[a].lamports

\* preTokenBalances lists the account and names its holder, which old metadata
\* did not; postTokenBalances lists it too.
HasTokenBalance(a) == IsToken(past[a]) /\ a \in tx.holders /\ a \in tx.post

-----------------------------------------------------------------------------
(* classifyTransaction.                                                    *)

SystemClass ==
    /\ tx.programs # {}
    /\ tx.programs \subseteq {System, ComputeBudget}
    /\ tx.systemTransfer

\* One token instruction whose metadata determine both token accounts, signed
\* by the owner of the source.
SplClass ==
    /\ ~tx.failed /\ ~tx.lookups /\ ~tx.inner
    /\ tx.programs \subseteq {Token, ComputeBudget}
    /\ tx.token # Nothing
    /\ LET t == tx.token IN
         /\ HasTokenBalance(t.source) /\ HasTokenBalance(t.destination)
         /\ past[t.source].data.value.mint = past[t.destination].data.value.mint
         /\ past[t.source].data.value.mint # WrappedSol
         /\ t.authority \in tx.signers
         /\ past[t.source].data.value.holder = t.authority
         /\ t.mint \in {Nothing, past[t.source].data.value.mint}

TransactionClass ==
    IF SystemClass
    THEN IF tx.failed THEN "SUPPORTED_DETERMINISTIC_FAILURE" ELSE "SYSTEM_TRANSFER"
    ELSE IF SplClass THEN "CLASSIC_SPL_TRANSFER" ELSE "UNSUPPORTED"

-----------------------------------------------------------------------------
(* deriveAccountProvenance.  An entry is a label and the state to replay.  *)

Entry(label, input) == [label |-> label, input |-> input]

\* The fields the transfer reads come from preTokenBalances; the others are
\* normalised.
SyntheticToken(a) ==
    [owner |-> Token,
     data |-> [kind |-> "token", value |-> past[a].data.value, extra |-> "normal"],
     lamports |-> PreLamports(a)]

SyntheticMint(a) ==
    [owner |-> Token, data |-> [kind |-> "mint", value |-> Nothing, extra |-> "normal"],
     lamports |-> PreLamports(a)]

\* Mutant: the snapshot keeps the lamports of now.
SnapshotOfNow(a, seen) == seen

\* currentSnapshot: what was seen, with the recorded lamports.
Snapshot(a, seen) == [owner |-> seen.owner, data |-> seen.data, lamports |-> PreLamports(a)]

PinnedProgram(a) == a \in tx.programs \cap RuntimePrograms

IsSpl == TransactionClass = "CLASSIC_SPL_TRANSFER"

AbsentAuthority(a, seen) ==
    IsSpl /\ a = tx.token.authority /\ PreLamports(a) = 0 /\ IsNull(seen)

\* Mutant: the owner alone is taken for proof of an empty account.
SystemOwned(seen) == ~IsNull(seen) /\ seen.owner = System

EmptyWallet(seen) == ~IsNull(seen) /\ seen.owner = System /\ seen.data.kind = "empty"

\* Mutant: the check of the role is inverted.
AbsentWritable(a, seen) == IsNull(seen) /\ PreLamports(a) = 0 /\ a \in tx.writable

AbsentReadonly(a, seen) == IsNull(seen) /\ PreLamports(a) = 0 /\ a \notin tx.writable

Provenance(a, seen) ==
    IF PinnedProgram(a) THEN Entry("PROVEN", Nothing)
    ELSE IF IsSpl /\ a \in {tx.token.source, tx.token.destination}
      THEN Entry("INFERRED", SyntheticToken(a))
    ELSE IF IsSpl /\ a = tx.token.mint THEN Entry("INFERRED", SyntheticMint(a))
    ELSE IF AbsentAuthority(a, seen) THEN Entry("PROVEN", Nothing)
    ELSE IF EmptyWallet(seen) THEN Entry("PROVEN", Snapshot(a, seen))
    ELSE IF AbsentReadonly(a, seen) THEN Entry("PROVEN", Nothing)
    ELSE IF IsNull(seen) THEN Entry("UNKNOWN", Nothing)
    ELSE Entry("CURRENT_ONLY", Nothing)

-----------------------------------------------------------------------------
(* evaluateEligibility.                                                    *)

Unsafe == {"CURRENT_ONLY", "UNKNOWN"}

Eligibility(entries, dumped) ==
    IF /\ TransactionClass # "UNSUPPORTED"
       /\ ~tx.lookups
       /\ \A a \in Involved : entries[a].label \notin Unsafe
       /\ dumped \subseteq RuntimePrograms
    THEN "SUPPORTED" ELSE "UNSUPPORTED"

\* Mutant: the backend skips no account.
InputsWithHoles(entries) == [a \in Addresses |-> entries[a].input]

\* What the backend starts from: an account that is not set is missing.
InputsOf(entries) ==
    [a \in Addresses |-> IF a \in Involved /\ entries[a].input # Nothing
                         THEN entries[a].input ELSE Missing]

-----------------------------------------------------------------------------
(* The ledger.                                                             *)

\* An executed transaction: its programs were there and its payer had
\* lamports; a token transfer that succeeded had two accounts of one mint,
\* and that mint.
Executed(t, l) ==
    /\ \A p \in t.programs : ~IsNull(l[p])
    /\ \E a \in t.signers \cap t.writable : l[a].owner = System /\ ~IsNull(l[a])
    /\ (t.token # Nothing /\ ~t.failed) =>
           /\ IsToken(l[t.token.source]) /\ IsToken(l[t.token.destination])
           /\ l[t.token.source].data.value.mint = l[t.token.destination].data.value.mint
           /\ t.token.mint # Nothing =>
                 l[t.token.mint].owner = Token /\ l[t.token.mint].data.kind = "mint"
                                              /\ l[t.token.mint].data.value = Nothing

\* Any other transaction.  A program can empty what it owns and hand it on at
\* once, and whoever gets an empty account fills it; what System and the loader
\* keep in an account (a nonce, code) goes only with the account.
LegalChange(old, new) ==
    \/ new = Missing
    \/ old.data = EmptyData
    \/ old.owner \notin {System, Loader}
    \/ new.owner = old.owner /\ new.data # EmptyData

SameShape(s, t) == s.owner = t.owner /\ (s.data.kind = "empty" <=> t.data.kind = "empty")

Change(a, s) ==
    /\ changes < MaxChanges
    /\ s # ledger[a]
    /\ LegalChange(ledger[a], s)
    /\ ledger' = [ledger EXCEPT ![a] = s]
    /\ steady' = IF SameShape(ledger[a], s) THEN steady ELSE steady \ {a}
    /\ changes' = changes + 1
    /\ UNCHANGED <<tx, past, read, observed, sure, captures>>

-----------------------------------------------------------------------------
(* A capture.                                                              *)

\* getAccountsAtSlot: one RPC call after the other, each at its own slot.
ReadChunk ==
    /\ read < Len(Chunks)
    /\ LET chunk == Chunks[read + 1] IN
         /\ observed' = [a \in Addresses |-> IF a \in chunk THEN ledger[a] ELSE observed[a]]
         /\ sure' = (sure \ chunk) \cup (chunk \cap steady)
    /\ read' = read + 1
    /\ UNCHANGED <<tx, past, ledger, steady, captures, changes>>

\* The capture process is over.
Forget ==
    /\ read' = 0
    /\ observed' = [a \in Addresses |-> Missing]
    /\ sure' = {}

Entries == [a \in Addresses |-> Provenance(a, observed[a])]

Captured(entries, dumped) ==
    [status |-> Eligibility(entries, dumped),
     label |-> [a \in Addresses |-> entries[a].label],
     inputs |-> InputsOf(entries),
     sure |-> sure]

\* createBundle labels the observed accounts.  A program is dumped if its
\* ProgramData was there and well formed.
Classify ==
    /\ read = Len(Chunks)
    /\ Len(captures) < MaxCaptures
    /\ \E dumped \in SUBSET (tx.programs \cap Upgradeable) :
         captures' = Append(captures, Captured(Entries, dumped))
    /\ Forget
    /\ UNCHANGED <<tx, past, ledger, steady, changes>>

\* An RPC call gives up and the capture with it.
Abandon ==
    /\ read \in 1..Len(Chunks)
    /\ Forget
    /\ UNCHANGED <<tx, past, ledger, steady, captures, changes>>

Init ==
    /\ tx \in Transactions
    /\ past \in Ledgers
    /\ Executed(tx, past)
    /\ ledger = past
    /\ steady = Addresses
    /\ read = 0
    /\ observed = [a \in Addresses |-> Missing]
    /\ sure = {}
    /\ captures = << >>
    /\ changes = 0

Next ==
    \/ \E a \in tx.accounts, s \in States : Change(a, s)
    \/ ReadChunk
    \/ Classify
    \/ Abandon

Spec == Init /\ [][Next]_vars

-----------------------------------------------------------------------------
(* Properties.                                                             *)

CaptureRecords ==
    [status : {"SUPPORTED", "UNSUPPORTED"},
     label : [Addresses -> {"PROVEN", "INFERRED"} \cup Unsafe],
     inputs : [Addresses -> StateRecords],
     sure : SUBSET Addresses]

\* Types, for the whole module.  What a capture replays is an account state,
\* though not always one the ledger ever held.
TypeOK ==
    /\ tx \in Transactions /\ past \in Ledgers /\ Executed(tx, past)
    /\ ledger \in [Addresses -> States] /\ observed \in [Addresses -> States]
    /\ steady \subseteq Addresses /\ sure \subseteq Addresses
    /\ read \in 0..Len(Chunks) /\ changes \in 0..MaxChanges
    /\ captures \in Seq(CaptureRecords)

Supported == {i \in DOMAIN captures : captures[i].status = "SUPPORTED"}

\* Equal in all a transfer reads: the synthesised accounts normalise the rest.
SameForReplay(s, t) ==
    /\ s.owner = t.owner /\ s.lamports = t.lamports
    /\ s.data.kind = t.data.kind /\ s.data.value = t.data.value

\* The inputs of a SUPPORTED capture are what the transaction found, for every
\* account that kept its owner until it was seen: neither the lamports and
\* data of now, nor a hole where an account was closed, gets into a replay.
SupportedInputsAreHistorical ==
    \A i \in Supported : \A a \in (captures[i].sure \cap Involved) \ RuntimePrograms :
        SameForReplay(captures[i].inputs[a], past[a])

\* When a transaction is captured does not matter: any two SUPPORTED captures
\* of it replay the same inputs, whatever happened to the accounts meanwhile.
RecaptureIsStable ==
    \A i, j \in Supported : captures[i].inputs = captures[j].inputs

\* Accounts whose past the rules can tell: the parties of a token transfer,
\* whatever became of them; an empty wallet, as long as it is one; and what
\* did not exist, as long as it does not, unless it may have been written.
Recoverable(a, seen) ==
    \/ IsSpl /\ a \in {tx.token.source, tx.token.destination, tx.token.mint}
    \/ /\ past[a].owner = System /\ past[a].data = EmptyData
       /\ SameShape(past[a], seen) /\ ~IsNull(seen)
    \/ /\ IsNull(past[a]) /\ IsNull(seen)
       /\ a \notin tx.writable \/ (IsSpl /\ a = tx.token.authority)

\* The gate refuses for cause: a transaction of a supported class without
\* lookups, all of whose accounts were recoverable when they were seen, at
\* whatever slots, is SUPPORTED, however they changed before or since.
RecoverableIsSupported ==
    [][\A i \in DOMAIN captures' \ DOMAIN captures :
         (/\ TransactionClass # "UNSUPPORTED" /\ ~tx.lookups
          /\ \A a \in Involved \ RuntimePrograms : Recoverable(a, observed[a]))
         => captures'[i].status = "SUPPORTED"]_vars

\* README: current state is never mislabeled as historical state.  An account
\* labelled PROVEN with a state to replay had that state.
ProvenIsHistorical ==
    \A i \in DOMAIN captures : \A a \in Involved \ RuntimePrograms :
        captures[i].label[a] = "PROVEN" => SameForReplay(captures[i].inputs[a], past[a])
-----------------------------------------------------------------------------
(* What makes them hold.                                                   *)

\* The one state a SUPPORTED capture can give an address: pieced together from
\* the metadata alone.
HistoricalInput(a) ==
    IF a \notin Involved \/ PinnedProgram(a) THEN Missing
    ELSE IF IsSpl /\ a \in {tx.token.source, tx.token.destination} THEN SyntheticToken(a)
    ELSE IF IsSpl /\ a = tx.token.mint THEN SyntheticMint(a)
    ELSE [owner |-> System, data |-> EmptyData, lamports |-> PreLamports(a)]

InputsComeFromMetadata ==
    \A i \in Supported : captures[i].inputs = [a \in Addresses |-> HistoricalInput(a)]

\* Where a label was trusted, an account that kept its shape had that input.
TrustedLabels ==
    \A i \in Supported : \A a \in (captures[i].sure \cap Involved) \ RuntimePrograms :
        SameForReplay(HistoricalInput(a), past[a])

SteadyKeepShape == \A a \in steady : SameShape(past[a], ledger[a])

SureKeepShape == \A a \in sure : SameShape(past[a], observed[a])

IInv ==
    /\ TypeOK
    /\ InputsComeFromMetadata
    /\ TrustedLabels
    /\ SteadyKeepShape
    /\ SureKeepShape
=============================================================================
