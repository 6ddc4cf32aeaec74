# SolanaRepro: models, checks and proofs

`solrepro` captures a Solana mainnet transaction into a *bundle* (a directory
of JSON evidence with a SHA-256 index), decides whether its inputs can be
defended, replays it in a pinned LiteSVM through a Rust backend, compares the
outcome with the original and turns the result into a regression assertion.
Its promise is about trust: what it reports as reproduced was reproduced, from
inputs that are historical. This directory holds TLA+ models of the code that
has to keep that promise, the TLC runs that check them and the TLAPS proofs
about them. Paths below are relative to the repository.

## 1. Inventory

| component | state | operations | interacts with |
|---|---|---|---|
| CLI dispatch (`src/cli.js`) | none; one process per command | `capture`, `bundle`, `inspect`, `replay`, `compare`, `assert`, research commands | calls everything below; `compare` replays first if the replay is missing |
| Inspection and capture (`src/inspect.js`, `src/capture.js`) | the artifact directory | RPC reads one after another, program bytes written between them, six artifacts written at once at the end | provider; the bundle writer reads what it leaves |
| Historical state provider (`src/historical-state-provider.js`) | none | `getTransaction`, `getAccountsAtSlot` in groups of 100, `getAccountAtSlot`, `getBlock` | JSON-RPC client |
| JSON-RPC client (`src/rpc.js`) | per call: attempt, pause | `call` with a timeout and retries; `batch`, which nobody calls | the RPC node |
| Transaction classifier (`src/transaction-class.js`) | none | `classifyTransaction` | bundle writer |
| Account provenance (`src/provenance.js`) | none | `deriveAccountProvenance` | bundle writer |
| Eligibility (`src/eligibility.js`) | none | `evaluateEligibility`, `runtimeCompatibility` | bundle writer, validation, replay gate |
| Bundle writer (`src/bundle.js`, `src/io.js`) | the bundle directory | `createBundle` | classifier, provenance, eligibility, integrity |
| Integrity and validation (`src/integrity.js`, `src/bundle-validation.js`) | reads the directory | `buildIntegrityIndex`, `verifyIntegrity`, `validateBundle` | every command that uses a bundle |
| Replay gate (`src/replay.js`) | `replay.json` | `replayBundle`: validate, gate, spawn with a timeout | validation, backend |
| Rust backend (`crates/repro-replay`) | a process of its own | load transaction and accounts, execute, write the output | the directory, after node validated it |
| Comparator (`src/compare.js`) | `comparison.json` | `compareReplay` | validation, `replay.json` |
| Assertion (`src/assert.js`) | none | `assertBundle`: validate, replay if needed, compare, accept | all of the above |
| Bundle inspection (`src/bundle-inspect.js`) | none | a validation that reports | validation |
| Base58 (`src/base58.js`), presentation, discovery, historical probe, scripts | none | pure functions, reports, research | - |

What is hard about it:

- **No lock and no atomic write.** `writeJson` truncates and writes; there is
  no temporary file, no rename, no `fsync`. Commands are processes which share
  one directory, and any of them can be killed between two files.
- **Stale remains.** `createBundle` never empties the directory it writes into;
  `replay.json` survives a new build.
- **Check, then use.** Node validates; the backend process opens the files again.
- **Hung backend.** `spawnSync` waits; only its timeout ends the command.
- **Now for then.** The RPC serves accounts as they are now. The labels
  `PROVEN` and `INFERRED` are claims about the past made from a mixture of
  immutable metadata and current observation, read in several RPC calls.
- **Nodes that lag, fail or say nothing.** One inspection is a dozen calls,
  each sent up to five times, answered by nodes at different slots; it writes
  into a directory it may share with the remains of another one before it
  knows that it will end.

The correctness properties per component are those of section 3; the hazards
behind them are listed, line by line, in `PROJECT.json`.

## 2. Modules

| module | models |
|---|---|
| `Bundle` | one directory and the concurrent commands `bundle`, `inspect <dir>`, `replay`, `compare`, `assert` with `--out`, `--fresh` and a replay file; crashes, torn writes, the backend process, its failure and its timeout |
| `BundleStore` | what a bundle directory promises to its users: no bundle or one, spoiled at most while a build is at work, and passes that are about what it holds. `Bundle` implements it |
| `MCBundle` | instances of `Bundle` for TLC |
| `BundleProofs` | type correctness and "what validates is whole", proved |
| `BundleUseProofs` | what publishing, validating, refusing, replaying and passing are worth, and that every step leaves less to do, proved |
| `BundleStoreProofs` | the refinement, proved |
| `RpcClient` | `RpcClient.call`: attempts, timeouts, pauses, kinds of error; `chunks` |
| `Capture` | processes that inspect a transaction (`inspectTransaction`, `captureTransaction`) into one artifact directory, on top of `RpcClient`, and `createBundle`'s reads of that directory; lagging nodes and crashes |
| `MCCapture` | its instances for TLC |
| `CaptureProofs` | type correctness and "observed after the execution", proved |
| `CaptureUseProofs` | why an inspection gives up, what one that ends leaves, that `programs.json` names no missing file, and that every step leaves less to do, proved |
| `Evidence` | `classifyTransaction`, `deriveAccountProvenance`, `evaluateEligibility`, over a ledger that keeps changing between and during captures |
| `MCEvidence` | its instances for TLC |
| `EvidenceProofs` | type correctness, what a `SUPPORTED` capture replays and what is not refused, proved |
| `Comparison` | `compareReplay`'s measurement: the one-row LCS of `logSimilarity` cell by cell, the checks, the status |
| `Verdict` | what the statuses of a comparison stand for, decided in one step. `Comparison` implements it |
| `MCComparison` | its instances for TLC |
| `ComparisonProofs` | that the loop computes the longest common subsequence, what an accepted status stands for, what is EXACT, and the refinement of `Verdict`, proved |

`Bundle`, `Evidence` and `Comparison` meet in their constants: `EligibilityOf`
of `Bundle` is the `status` of `Evidence`'s captures, and the status
`Bundle!CompareReplay` picks freely is the one `Comparison` computes.
`Capture` ends where the other two begin: what its `MakeBundle` has read is a
capture of `Bundle`, and the observations whose slots it records are what
`Evidence` labels.

### RpcClient and Capture

`calls` has a record for each call that can be under way: its attempt and
whether it waits for an answer, pauses, resolved or was rejected. A process
has two of them, because `inspectTransaction` fetches the transaction in two
encodings at once; every other read waits for the one before it. `Replies` are
the HTTP statuses and bodies the code tells apart; a timeout and a network
failure are one action, because the code treats them alike. An answer that
comes after its timeout finds nobody listening and changes nothing.

The ledger is told by its slots. `now` grows; a node answers a question about
an account with the state at some slot up to `now` that is not before the
`minContextSlot` of the request, and an RPC error if it has none. What was
observed is the slot it was observed at. What `getTransaction` answers does
not depend on when it is asked, so `transaction.json`, `metadata.json` and
`logs.txt` hold one value (the time and the block noted in `metadata.json` are
left out). `dir` is the artifact directory of the transaction, one for all
processes as `inspect <signature>` and `capture` with the same `--out` have
it; `bundle` is what the last `createBundle` run was made from.

| action | code |
|---|---|
| `Answer`, `AttemptTimesOut`, `NextAttempt` | the loop of `RpcClient.call` |
| `TransactionArrives`, `AccountsArrive`, `LookupsArrive`, `BlockSettled`, `GiveUp` | the reads of `inspectTransaction` and what it does without |
| `ProgramArrives`, `WriteExecutable` | `collectPrograms` |
| `OpenArtifact`, `WriteArtifact`, `FinishInspection` | the `Promise.all` of six writes, and the return; `capture` goes on |
| `ReadArtifact`, `PlanBundle`, `CopyExecutable`, `ReadLogs`, `MakeBundle` | what `createBundle` reads, in its order; its writes are in `Bundle` |
| `ReportFailure`, `Crash` | `main` reports an error; the process dies |

`Apart` says whether the users start an inspection of the transaction only
when no other is at work. `troubles` and `denied` are history variables: how
many attempts failed, and whether the node said no, since an inspection began.

### BundleStore

Four variables: the bundle the manifest describes, whether the directory would
be accepted as that bundle, the build at work, the users whose assertion
passes. `Bundle!Store` maps `Bundle` to it: `described` is what `manifest.json`
says, `usable` is `Valid`, a function of all files at once that no command ever
evaluates; `passing` are the processes at `passed`. So the refinement says that
validation file by file, replays, timeouts, crashes and builds that die between
two files cannot be told from a directory that goes from one whole bundle to
the next, and that `Pass` is taken only while the directory holds a usable,
supported bundle.

### Bundle

`disk` maps each path to its content. A file's content is the capture it was
generated from, or the signature where the transaction alone determines it, so
equal SHA-256 means equal content; `Torn` is a file that is truncated and not
yet written. `pc` and `proc` are the control point and the locals of each
process. The actions follow the code in its order:

| action | code |
|---|---|
| `OpenFile`, `WriteFile`, `EndPhase` | the write loops and the `Promise.all` of `createBundle` |
| `WalkBundle`, `HashFile` | `buildIntegrityIndex` |
| `OpenManifest`, `WriteManifest` | the last `writeJson` of `createBundle` |
| `ReadManifest`, `CheckFileSet`, `VerifyFile`, `ReadDocuments` | `validateBundle` and `verifyIntegrity` |
| `GateReplay`, `RefuseReplay` | `replayBundle` before the spawn |
| `LoadTransaction`, `ListAccounts`, `LoadAccount`, `OpenOutput`, `EmitReplay` | `main` of the backend, a process of its own; a build may fall between any two of its reads |
| `BackendFails` | a failed start, an error exit, the kill after the timeout |
| `CompareReplay`, `WriteComparison` | `compareReplay` |
| `ChooseReplay`, `Accept`, `ReportPass` | `assertBundle` |
| `Crash` | the process dies, or a file operation throws |

How closely a replay matches is a free choice here (`CompareReplay`;
`Comparison` computes it): no property of this module depends on the
measurement, only on what is done with it.

`Exclusion` says what the users keep apart, since the code has no lock: nothing
(`"none"`), builds from builds (`"builds"`), or a build from everything
(`"alone"`). Every property names, through its run, the weakest one it needs.
A property checked with `"alone"` (`ValidationVouches`, `ValidBundleIsNotRefused`,
`ReplaysRunEligibleCaptures`, `PassJudgedAnEligibleRun`, `ImplementsStore` among
them) says nothing of a build that begins while a validation or a replay is
under way: that is the run `bundle_replaced`, where the code does not keep the
docs' word. Nothing is stated of the bundle two overlapping builds mix.

### Evidence

`past` is the ledger the transaction executed on, which the tool never sees
whole: it sees the lamports and the token balances the metadata recorded.
`ledger` is the ledger now, and `Change` lets any account the transaction names
be changed, closed or funded again. `ReadChunk` is one `getMultipleAccounts`
call; changes may fall between two of them. `Classify` is `createBundle` up to
its eligibility verdict; `Abandon` is a capture whose RPC gives up. `steady` and
`sure` are history variables: the addresses that, since the transaction (up to
the moment they were seen), kept their owner and whether they hold data.

The metadata record token balances before (`past`) and after (`post`) the
transaction; `holders` are the accounts whose record names its owner, as old
metadata did not. A transfer is recognised only if both of its accounts have
all of that, as in `classicSplDetails`.
`LegalChange` is what one transaction may make of an account: any account may
go; one without data may become anything; a program may write, empty and hand on
what it owns; the data of System (a nonce) and of the loader (code) go only with
the account.

A state is an owner, a content and lamports; token accounts hold a mint, a
holder and an amount, and `extra` stands for the fields no transfer reads
(delegate, close authority, supply), which the code normalises.

### Comparison

An original and a replay are chosen once; the state is the loop of `lcsLength`
(`row`, `diagonal` and its two loop variables) and the status. `CompareLine` is
one turn of the inner loop, `NextLine` the head of the outer one, `Measure` the
checks and the classification, with the override for ineligible bundles.
`CanonicalJson` and `CanonicalDebug` are `canonicalError` on the RPC's JSON and
on the backend's debug string; they agree on all errors but the objects the
function does not know. A missing account of `replay.json` is `Null`, as in
`postBalanceChecks`. Return data are compared as values.

### Verdict

The same original and replay, and one step that sets the status by rules which
mention no table, no canonical form and no default for a missing account: two
logs are similar if they share enough lines in the same order (`ShareLines`),
two outcomes are the same if their errors are and the comparison knows their
kind (`SameOutcome`), two states if every writable account has the original's
lamports and every recorded token account its amount. The order of the rules
(`Verdict`) is part of what users see: a different outcome is `FAILED` also for
an ineligible bundle, a refusal is `UNSUPPORTED` whatever it says. Compute units
are held against a replay only if the original's are not zero, as the code
has it; that its printed rule says otherwise is the run `comparison_zero`.
`Comparison!ImplementsVerdict` maps the loop to stutters and `Measure` to
`Judge`.

## 3. What is checked

| run | instance | shows |
|---|---|---|
| `bundle_rebuild` | 2 captures of different transactions, 2 processes, 3 commands out of {build c1, build c3, inspect}, `"builds"` | `TypeOK`; `ValidBundleIsWhole`: a directory that validates holds every file of its capture with the content of one complete build, over any remains; `PublishedBundleValidates`: a build that ends leaves a bundle that validates |
| `bundle_use` | 3 captures, one ineligible, 2 runtimes, 2 processes, 3 commands out of 2 builds, assert, assert `--fresh` with a `--replay` file or with `--out`, replay `--out`, `"alone"` | `ValidationVouches`: the file-by-file validation means as much as one look at the whole; `ValidBundleIsNotRefused`: nor does it refuse what that look would accept; `ReplaysRunEligibleCaptures`; `PassIsSupported`; `FreshPassRanThisBundle`; `PassJudgedAnEligibleRun`: whatever file is judged, a pass is about a run of an eligible capture; `OutputsKeepBundleValid`; `ImplementsStore`: the directory implements `BundleStore` |
| `bundle_ends` | 2 processes, 2 commands out of a build and every command that waits for the backend, `"alone"` | `CommandsEnd`, under the fairness below; `CommandsMoveOn`: every step leaves a command less to do |
| `bundle_leftovers` | one process, two builds one after the other, then a replay | the code violates `LoadedAccountsAreLabelled` |
| `bundle_replaced` | one replay beside one build | the code violates `BackendReadsValidatedData` |
| `capture` | 2 processes, 2 commands out of {inspect, bundle}, one account, one program, nodes at 2 slots after the execution and earlier ones, no retries, `Apart` | `TypeOK`; `ObservedAfterExecution`: nothing the artifacts or a bundle hold was observed before the transaction executed; `NamedProgramsAreThere`: no file that `programs.json` names is missing, on disk or from what a bundle takes, whatever inspection it is of; `FinishedCaptureIsWhole`: an inspection that ends has replaced all that a bundle takes from the directory |
| `capture_reads` | one `capture`, 4 retries as in the code, 3 accounts in groups of 2, a program, a lookup table | `CapturedSlotIsLatest`; `GivesUpForCause`: transient failures do not end an inspection; `CommandsMoveOn`: no retry, group or program is gone through twice; `CommandsEnd`, though nodes do not answer |
| `capture_logs` | one process, 2 commands, in the complete directory of an inspection that ended (`ReusedSpec`): an inspection killed and a bundle after it | the code violates `BundledLogsAreWhole` |
| `evidence` | 12 transactions, 8 pasts, 2 captures in 2 chunks, 2 changes | `TypeOK`; `SupportedInputsAreHistorical`; `RecaptureIsStable`; `RecoverableIsSupported`: a transaction of a supported class whose accounts could all be recovered is not refused |
| `evidence_mislabel` | the same, 1 capture | the code violates `ProvenIsHistorical` |
| `comparison` | all pairs of logs of up to 4 lines over 2 lines; all pairs of 3 errors and 5 unit counts; 10 states of an account against 8 originals | `TypeOK`; `RowIsLcs`: at every turn of the loop each cell is the length of a longest common subsequence of the right prefixes; `AcceptedMeansSameState`; `IdenticalIsExact`; `ImplementsVerdict`: the code's way to a status implements `Verdict` |
| `comparison_zero` | the same, logs of up to 2 lines, the thresholds of the code (95 % of the lines, 1 % of the units); the trace has equal logs | the code violates `HighFidelityKeepsToItsRule` |

**Bounds.** `MaxCommands` = 3 lets one build crash, a second one run over its
remains while a third command looks on. Two processes are enough for every
interleaving of a writer and a reader, and of two readers that write outputs;
three would add only commands that do not write what the others read. Two
accounts and one executable give captures with different file sets (c3 needs
fewer files than c1), so remains are files the new build does not write.
In `Capture` two commands in two processes let an inspection overlap with a
bundle or with the remains of one that died; slots before, at and after the
transaction's let every node lag; the retries have an instance of their own
because they multiply with everything else and only the reads depend on them.
Three accounts in groups of two make a last group that is smaller, and a node
that answers it from an earlier slot than the first.
In `Evidence` two changes take an account from one owner through closure to
another, which is the longest history a label can confuse; two chunks put a
change between the observations of one capture; two captures are what
`RecaptureIsStable` compares. `MCTransactions` has one transaction for each
way through the classifier, among them an unknown program, a lookup table, a
failed and a CPI-bearing token transfer; the token accounts can be of the
wrapped SOL mint. In `Comparison` four lines give every pattern of a match
after matches and mismatches in both directions; `MinSimilarity` is 60 instead
of 95 percent in `comparison`, so that short logs fall on both sides of it
(`comparison_zero`, which is about the code's own thresholds, has 95); logs, outcomes and
states are varied one after the other because the checks on them are
independent of each other.

**Fairness.** `FairSpec` asks weak fairness of each process's own steps
(`NodeStep`): node runs a command's code to its end. It asks none of the
backend's steps: the backend may hang for ever. `WF(BackendFails)` is the
`timeout` of `spawnSync` (120 s, `src/src/replay.js`), which fires while the
backend still runs. Nobody has to start or kill a command. In `Capture`, weak fairness
of each process's own steps (`Step`) covers its timers: `AbortSignal.timeout`
ends an attempt that waits and `setTimeout` ends a pause. `Answer` is not among
them: a node need never answer, and the command ends all the same because the
attempts run out.

**Where the code and its documents disagree.**

- `LoadedAccountsAreLabelled`: with a reused `--out` directory the account files
  of the earlier bundle are indexed, validated and loaded by the backend, with
  no label in the new `provenance.json` (`docs/limitations.md:32`).
- `BackendReadsValidatedData`: files replaced between the validation and the
  backend's reads are executed unseen (`docs/architecture.md:35`).
- `ProvenIsHistorical`: an account that held data or that another program
  owned, and that was closed and funded again or handed to the System program
  empty before the capture, is `PROVEN` as the wallet it has become
  (`README.md:11`, `README.md:83`). In the trace it is another program's.
- `HighFidelityKeepsToItsRule`: when the original recorded zero compute units,
  as older transfers did, any count of a replay with equal logs is HIGH_FIDELITY
  (`compare.js:107` against the rule printed at `compare.js:142`).
- `BundledLogsAreWhole`: an inspection killed while it writes `logs.txt` into the
  directory of one that ended, where the run starts, leaves an empty file beside
  whole JSON documents;
  `createBundle` refuses truncated JSON but takes the empty logs for the
  original's (`bundle.js:95` against `README.md:79`).

Two more are plain from the text and have no run: `docs/bundle-format.md:16-18`
names outcomes (`SEMANTIC_MATCH`, `DIVERGENT`) the code does not have, and a
conflict of state effects that is `DIVERGENT` there is `PARTIAL` in the code.

## 4. What is proved

For every value of the constants that satisfies the modules' assumptions
(distinct kinds of paths; what a file holds is not one of the markers for no
content; accounts without lamports do not exist; groups are not empty and a
transaction has an account). A theorem that needs the users to keep commands
apart says so in its hypothesis; the others hold whatever overlaps.

- `BundleProofs!TypeCorrect`: `Spec => []TypeOK`. The type invariant alone is
  not inductive: a process that reports a comparison must have one, and a
  process in a build must have been given a `bundle` command line. `RunsItsJob`
  adds that.
- `BundleProofs!ValidMeansWhole`: if builds are kept apart, `Spec =>
  []ValidBundleIsWhole`. Validity says only that the files match the index of
  the manifest on disk; the step to *whole* is `ManifestCoversCapture`, a fact
  about the manifest alone, which therefore survives any later change to the
  files, torn writes and crashes included: a manifest, if it is readable,
  indexes every file of its capture with the content that capture gives it. It
  is inductive with `OneBuilder`, `BuildProgress` (what a build is done with
  has its final content) and `HashProgress` (so have the hashes it took). The
  steps of every other command are dealt with at once (`QuietStep`): they
  change no fixture, no manifest and no build.
- `BundleUseProofs!PassesAreSupported`: `Spec => []PassIsSupported`, whatever
  overlaps. `PassInv` follows the manifest an assertion has read to the verdict:
  only builds write manifests, with the pinned runtime (`PinStays`), a status
  assert accepts was classified against an eligible one (`AcceptedIsEligible`).
- `BundleUseProofs!OutputsAreHarmless`: `Spec => OutputsKeepBundleValid`, from
  the type invariant: no step but a build's touches what `Valid` looks at.
- `BundleUseProofs!PublishedIsValid`: if builds are kept apart, `Spec =>
  PublishedBundleValidates`. `HashInv` adds to the invariant of
  `ValidMeansWhole` that the hashes a build has taken are still those of the
  files (`HashesMatchDisk`), which nobody else changes.
- `BundleUseProofs!ValidationIsWorthIt`, `ReplaysAreEligible`,
  `FreshPassesAreOfThisBundle`: if a build is kept apart from everything else,
  `Spec => []ValidationVouches`, `[]ReplaysRunEligibleCaptures` and
  `[]FreshPassRanThisBundle`. `UseInv` says what a command knows at each of its
  steps: the manifest it holds is on disk, the files it has verified match it,
  and once it trusts the directory the directory is valid. `RunInv` carries
  that through the backend (`LoadedSoFar`) and into the replay that is judged
  (`FreshIsCurrent`).
- `BundleUseProofs!RefusalsAreRight`: under the same exclusion, `Spec =>
  ValidBundleIsNotRefused`, from `UseInv`: what a validation has in hand when it
  refuses is still on disk. Without the exclusion it is false: a build that
  starts meanwhile makes a validation fail.
- `BundleUseProofs!PassesJudgeEligibleRuns`: under the same exclusion, `Spec =>
  []PassJudgedAnEligibleRun`. `JudgedIsEligible` says of the file a command
  has judged that, if it holds a replay, an eligible capture was executed; it
  is inductive with `RunInv`, which says that of every path a replay can be at,
  since `--replay` and `--fresh --out` choose which of them is judged. That an
  accepted status was given to a replay is in `AcceptedIsEligible`: a refusal is
  always UNSUPPORTED.
- `BundleUseProofs!StepsMoveOn`: `Spec => CommandsMoveOn`, whatever overlaps.
  `MovesOn` compares a command before and after a step: the function that
  called `validateBundle`, the stage within it, the files left to do, the files
  open. Each component can only decrease a bounded number of times, so a
  command takes finitely many steps; what is left of `CommandsEnd` is that some
  step can be taken, which is where the fairness comes in.
- `BundleStoreProofs!Implements`: under the same hypothesis, `Spec =>
  ImplementsStore`. `InitStore` maps the initial states; `StartStore`,
  `BuildStore` and `UseStore` map each kind of step to a step of the store or
  to none, in the states of `HashInv /\ RunInv`.
- `CaptureProofs!TypeCorrect`: `Spec => []TypeOK`, and
  `CaptureProofs!ObservationsAreLater`: `Spec => []ObservedAfterExecution`,
  whatever overlaps. Both follow from `Typed`, in which the sets an observation
  is drawn from start at the slot of the transaction; that the record of an
  inspection that is done reading lacks no account is `GroupsCover`, about the
  division in `chunks`.
- `CaptureUseProofs!GivesUpRightly`: `Spec => []GivesUpForCause`, whatever
  overlaps. `CauseInv` relates the attempt of each call to the troubles of its
  process.
- `CaptureUseProofs!EndedIsWhole`: if inspections are kept apart, `Spec =>
  FinishedCaptureIsWhole`. `OnDisk` says which of an inspection's results are
  in the directory at each of its steps, `OneInspector` that nobody replaces
  them.
- `CaptureUseProofs!NamedAreThere`: `Spec => []NamedProgramsAreThere`, whatever
  overlaps: two inspections may write into the directory and a bundle read it at
  once. `NamedInv` follows the list of programs from the record of an inspection
  to `programs.json` and to what a bundle command has read: whoever holds it,
  the file of each program it names has been opened, and nothing deletes a file.
- `CaptureUseProofs!SlotIsLatest`: if no account is listed twice (`Distinct`; a
  message that lists one twice is not a transaction), `Spec =>
  []CapturedSlotIsLatest`. `GroupsPartition` says that every account is in one
  group and no group is empty, so no observation that set the slot is
  overwritten (`GroupLatest`).
- `CaptureUseProofs!StepsMoveOn`: `Spec => CommandsMoveOn`, whatever overlaps
  and whatever the nodes answer. `CallMove` is about the attempts of one call,
  `MoveStep` about the stages of a process; `OnlyNotes` and `OthersUnchanged`
  say what a step leaves alone.
- `EvidenceProofs!TypeCorrect`: `Spec => []TypeOK`.
- `EvidenceProofs!SameWheneverCaptured`: `Spec => []RecaptureIsStable`, and
  `EvidenceProofs!SupportedIsHistorical`: `Spec =>
  []SupportedInputsAreHistorical`. The heart is the lemma `LabelledInput`:
  whatever an account looks like now, a label that eligibility does not refuse
  comes with `HistoricalInput`, a function of the metadata alone; `LabelledPast`
  adds that this is the past if the account kept its shape. The invariant
  carries both over all captures, and `SteadyKeepShape`, `SureKeepShape` give
  the history variables their meaning.
- `EvidenceProofs!RefusesForCause`: `Spec => RecoverableIsSupported`, the other
  direction: `RecoverableLabel` goes through the label of every account,
  `SupportedPrograms` through the programs of the two classes. Without it a
  gate that refuses everything would satisfy the theorems above.
- `ComparisonProofs!TypeCorrect` and `AcceptedIsSound`: `Spec => []TypeOK`
  and `Spec => []AcceptedMeansSameState`. Only `Measure` sets an accepted
  status; `CanonicalFaithful` shows that two errors that print alike in the
  canonical form are the same, `ExactChecks` that the reading of missing
  accounts hides no difference. `NextTyped` shows that the loop stays within
  its row.
- `ComparisonProofs!RowIsRight`: `Spec => []RowIsLcs`, for all logs of every
  length. The invariant `RowRight` says which cells already belong to the
  current line and which to the one before, and what `diagonal` holds; it is
  inductive because the lengths of common subsequences of prefixes satisfy the
  recurrence of the loop (`LcsStep`), which is proved from the definition of a
  common subsequence, without an induction (`CommonExtended`,
  `CommonShortened`, `CommonWithout`).
- `ComparisonProofs!IdenticalIsRight`: `Spec => []IdenticalIsExact`. For equal
  logs the loop's diagonal counts the lines (`Diagonal`).
- `ComparisonProofs!Implements`: `Spec => ImplementsVerdict`. `Verdict` asks for
  EXACT that the logs are equal, the code that their similarity is 1. The invariant `Matching` bounds every
  cell by the lines compared so far and says that where the bound is reached
  the lines are equal; it is inductive along the loop and needs no induction
  over sequences. Each rule is then matched with the check that decides it
  (`SimilarityRight`, `OutcomeRight`, `StateRight`, `UnitsRight`), and
  `VerdictStep` maps every step to `Judge` or to none.

Only model-checked: the two liveness properties `CommandsEnd` of `Bundle` and
of `Capture` (fairness and `ENABLED` are out of the prover's reach; `StepsMoveOn` in both is the
part of them that needs neither), and the counterexamples of the runs that expect one.

## 5. What is not modelled

- Symbolic links, paths that leave the directory and size limits in
  `validateBundle` and the backend: they only add refusals.
- `--accept` of `assert`, and `--out` naming a file inside the bundle directory.
- A backend that outlives its killed parent; the directory reads of one
  `readdir`, and of one JSON document, are atomic, as are the `lstat`s of the
  required files together with the read of the manifest, the runtime check of
  `validateBundle` with the four documents it reads after it (`ReadDocuments`),
  and `compareReplay`'s three reads together with the truncation of its output.
  Where a build is kept apart from validations nothing that a validation reads
  changes meanwhile, so one step stands for all; in `bundle_replaced`, where a
  build may come in between, one atomic step only leaves out counterexamples of
  a property that is refuted already.
- LiteSVM: a replay is the symbolic outcome of its inputs.
- Formatting, reports and the reason lists of eligibility.
- `RpcClient.batch`, which nothing calls; `FixtureProvider` and
  `SnapshotProvider`, which look an answer up in an object (tests inject them);
  a node that has no account and answers null for it, which changes what an
  observation says and not when it was made.
- Which accounts are program-data accounts: `Programs` is the set of the
  upgradeable programs among those the transaction names, and the answer of the
  node says whether it holds bytes.
- The bundle directory within `Capture`: what `createBundle` writes is one
  step there (`MakeBundle`), as its writes are `Bundle`.
- Base58, discovery, the historical probe, presentation and the scripts: pure
  functions, reports and research commands without state that another part
  relies on. That the carry loops of `base58.js` invert each other for every
  length is an induction over data, which the prover cannot do.

## 6. Plan

Done: `Bundle`, `BundleStore`, `Evidence`, `Comparison`, `Verdict`, `RpcClient`,
`Capture` and their proofs; every safety and action property and both
refinements the passing runs check are proved. Left, should the code grow:

1. `replay --out`, whose file the comparison overwrites (`cli.js:76`), and which
   replay `assert --fresh --out` should judge (`assert.js:14`), once the documents
   say so. What the latter may pass is covered (`PassJudgedAnEligibleRun`).
2. A provider that serves historical state: `Evidence` with labels that come
   from it, and `Capture` with a slot that is asked for and not only bounded.
3. `Base58`: encoder and decoder with explicit carries over small radices,
   checked against the positional value.
4. Discovery, if its candidates are ever captured without a person looking.
