------------------------------- MODULE Bundle -------------------------------
(***************************************************************************)
(* One bundle directory and the solrepro commands that work on it: what    *)
(* `bundle` writes and in which order, what `inspect`, `replay`, `compare` *)
(* and `assert` check before they trust it, and what the Rust backend      *)
(* reads from it.  Commands are operating-system processes: they           *)
(* interleave at every file they touch, and any of them can die between    *)
(* two steps.                                                              *)
(*                                                                         *)
(* A file's content is the capture it was generated from (or the           *)
(* signature, for a file the transaction alone determines), so two files   *)
(* have the same SHA-256 iff they have the same content.  A write          *)
(* truncates the file (Torn) and completes in a later step.                *)
(***************************************************************************)
EXTENDS Naturals

CONSTANTS
    Captures,       \* artifact directories `bundle` can be given
    Signatures,
    SignatureOf,    \* [Captures -> Signatures]
    EligibilityOf,  \* what evaluateEligibility says of a capture
    AccountFiles,   \* paths under accounts/
    ProgramFiles,   \* paths under programs/
    AccountsOf,     \* the accounts/ files a capture's roles call for
    ProgramsOf,     \* the programs/ files of its executables
    OutFiles,       \* paths outside the bundle that --out or --replay names
    Runtimes,       \* runtime pins found in manifests
    PinnedRuntime,  \* the one this tool was built with
    Processes,
    Jobs,           \* the command lines the users type
    MaxCommands,    \* bound: commands started in a behaviour
    Exclusion,      \* what the users keep apart: "none", "builds" or "alone"
    Default,        \* --out not given
    Absent, Torn,   \* no such file; a file truncated and not yet written
    None            \* nothing read, or no command

Documents == {"transaction.json", "original-execution.json", "expected.json",
              "provenance.json", "lookup-tables/index.json"}

\* The documents that depend on the transaction alone; the other files also
\* depend on the account state the capture observed.
SignatureDocuments == Documents \ {"provenance.json"}

Fixtures == AccountFiles \cup ProgramFiles \cup Documents \cup {"README.md"}

\* Mutants: the comparison, or the manifest itself, taken for evidence.
ComparisonIsEvidence == {"manifest.json", "replay.json"}
ManifestIsEvidence == {"replay.json", "comparison.json"}

MutableOutputs == {"manifest.json", "replay.json", "comparison.json"}

BundleFiles == Fixtures \cup {"manifest.json", "replay.json", "comparison.json"}

Files == BundleFiles \cup OutFiles

Outputs == {"replay.json", "comparison.json"} \cup OutFiles

\* What walk() returns once the mutable outputs are filtered out of it.
Indexable == BundleFiles \ MutableOutputs

Required == {"manifest.json", "transaction.json", "original-execution.json",
             "expected.json", "provenance.json", "README.md"}

FilesOf(c) == AccountsOf[c] \cup ProgramsOf[c] \cup Documents \cup {"README.md"}

Produces(f, c) == IF f \in SignatureDocuments THEN SignatureOf[c] ELSE c

Blank == [f \in Indexable |-> Absent]

Manifest(c, r, index) == [capture |-> c, runtime |-> r, index |-> index]

\* replay.json: a refusal, or the outcome of executing some inputs.
Refusal == [kind |-> "refusal"]
Replay(inputs) == [kind |-> "replay", inputs |-> inputs]
Comparison(s) == [kind |-> "comparison", status |-> s]

Measured == {"EXACT", "HIGH_FIDELITY", "PARTIAL", "FAILED"}
Fidelity == Measured \cup {"UNSUPPORTED"}

Builds == [command : {"bundle"}, capture : Captures]
Commands == [command : {"inspect", "replay", "compare", "assert"},
             out : OutFiles \cup {Default},
             replayFile : OutFiles \cup {"replay.json"},
             fresh : BOOLEAN]
UserJobs == Builds \cup Commands

ASSUME DataAssumption ==
    /\ SignatureOf \in [Captures -> Signatures]
    /\ EligibilityOf \in [Captures -> {"SUPPORTED", "UNSUPPORTED"}]
    /\ AccountsOf \in [Captures -> SUBSET AccountFiles]
    /\ ProgramsOf \in [Captures -> SUBSET ProgramFiles]
    /\ PinnedRuntime \in Runtimes
    /\ Jobs \subseteq UserJobs
    /\ MaxCommands \in Nat
    /\ Exclusion \in {"none", "builds", "alone"}

\* Paths of different kinds are different paths.
ASSUME PathAssumption ==
    /\ AccountFiles \cap ProgramFiles = {}
    /\ (AccountFiles \cup ProgramFiles) \cap
         (Documents \cup MutableOutputs \cup {"README.md"} \cup OutFiles) = {}
    /\ OutFiles \cap (Documents \cup MutableOutputs \cup {"README.md"}) = {}

Contents == Captures \cup Signatures \cup {Torn}
Indexes == [Indexable -> Contents \cup {Absent}]
Manifests == [capture : Captures, runtime : Runtimes, index : Indexes]
Reports == [kind : {"refusal"}] \cup [kind : {"replay"}, inputs : Indexes] \cup
           [kind : {"comparison"}, status : Fidelity]

\* Absent and Torn are no content at all; None is no comparison, no capture
\* and no bundle.
ASSUME ContentAssumption ==
    /\ Absent # Torn
    /\ {Absent, Torn} \cap (Captures \cup Signatures) = {}
    /\ None \notin [replay : Reports, status : Fidelity]
    /\ None \notin Captures \cup [capture : Captures, runtime : Runtimes]
    /\ \A v \in {Absent, Torn} : v \notin Manifests \cup Reports

VARIABLES
    disk,    \* [Files -> content]
    pc,      \* what each process does next
    proc,    \* the local variables of each process
    started  \* commands started so far

vars == <<disk, pc, proc, started>>

NoLocals ==
    [job |-> None,        \* the command line
     routine |-> None,    \* the function that called validateBundle
     seen |-> None,       \* the manifest it returned
     todo |-> {},         \* files still to write, hash, verify or load
     open |-> {},         \* files this process has truncated
     gathered |-> Blank,  \* hashes taken, or inputs loaded, so far
     judged |-> None]     \* the replay compared and the status it got

BuildPhases == {"accounts", "programs", "documents", "readme", "walk", "hash", "publish"}

Building(p) == pc[p] \in BuildPhases
Backend(p) == pc[p] \in {"transaction", "listing", "load", "emit"}

Present == {f \in Indexable : disk[f] # Absent}

WholeBundle(c, r) ==
    LET content(f) == IF f \in FilesOf(c) THEN Produces(f, c) ELSE Absent
    IN  [f \in Files |->
           IF f = "manifest.json"
           THEN Manifest(c, r, [g \in Indexable |-> content(g)])
           ELSE content(f)]

\* Either nobody has used the directory yet, or it holds a bundle this tool
\* or one with another runtime pin created.
Init ==
    /\ \/ disk = [f \in Files |-> Absent]
       \/ \E c \in Captures, r \in Runtimes : disk = WholeBundle(c, r)
    /\ pc = [p \in Processes |-> "idle"]
    /\ proc = [p \in Processes |-> NoLocals]
    /\ started = 0

-----------------------------------------------------------------------------
(* A command begins and ends.                                              *)

Return(p) ==
    /\ pc' = [pc EXCEPT ![p] = "idle"]
    /\ proc' = [proc EXCEPT ![p] = NoLocals]

Goto(p, l) == pc' = [pc EXCEPT ![p] = l]

\* What the users of the directory keep apart.
MayStart(j) ==
    CASE Exclusion = "none" -> TRUE
      [] Exclusion = "builds" ->
           j.command = "bundle" => \A q \in Processes : ~Building(q)
      [] Exclusion = "alone" ->
           IF j.command = "bundle"
           THEN \A q \in Processes : pc[q] = "idle"
           ELSE \A q \in Processes : ~Building(q)

\* `compare` runs the bundle first when the replay it is given is missing.
FirstRoutine(j) ==
    IF j.command = "compare" /\ disk[j.replayFile] = Absent
    THEN "replay" ELSE j.command

StartCommand(p, j) ==
    /\ pc[p] = "idle"
    /\ started < MaxCommands
    /\ MayStart(j)
    /\ started' = started + 1
    /\ IF j.command = "bundle"
       THEN /\ Goto(p, "accounts")
            /\ proc' = [proc EXCEPT ![p].job = j, ![p].todo = AccountsOf[j.capture]]
       ELSE /\ Goto(p, "manifest")
            /\ proc' = [proc EXCEPT ![p].job = j, ![p].routine = FirstRoutine(j)]
    /\ UNCHANGED disk

\* The process is killed, or a file operation throws: what it wrote stays.
Crash(p) ==
    /\ pc[p] # "idle"
    /\ Return(p)
    /\ UNCHANGED <<disk, started>>

-----------------------------------------------------------------------------
(* createBundle.                                                           *)

PhaseFiles(phase, c) ==
    CASE phase = "accounts" -> AccountsOf[c]
      [] phase = "programs" -> ProgramsOf[c]
      [] phase = "documents" -> Documents
      [] phase = "readme" -> {"README.md"}
      [] OTHER -> {}

\* Mutant: the index is built before README.md is written.
NextPhaseSkipsReadme(phase) ==
    CASE phase = "accounts" -> "programs"
      [] phase = "programs" -> "documents"
      [] phase = "documents" -> "walk"
      [] OTHER -> phase

NextPhase(phase) ==
    CASE phase = "accounts" -> "programs"
      [] phase = "programs" -> "documents"
      [] phase = "documents" -> "readme"
      [] phase = "readme" -> "walk"
      [] OTHER -> phase

\* One file at a time, except for the documents: Promise.all writes those at
\* once.
OpenFile(p) ==
    /\ pc[p] \in {"accounts", "programs", "documents", "readme"}
    /\ pc[p] = "documents" \/ proc[p].open = {}
    /\ \E f \in proc[p].todo :
         /\ disk' = [disk EXCEPT ![f] = Torn]
         /\ proc' = [proc EXCEPT ![p].todo = @ \ {f}, ![p].open = @ \cup {f}]
    /\ UNCHANGED <<pc, started>>

WriteFile(p) ==
    /\ pc[p] \in {"accounts", "programs", "documents", "readme"}
    /\ \E f \in proc[p].open :
         /\ disk' = [disk EXCEPT ![f] = Produces(f, proc[p].job.capture)]
         /\ proc' = [proc EXCEPT ![p].open = @ \ {f}]
    /\ UNCHANGED <<pc, started>>

EndPhase(p) ==
    /\ pc[p] \in {"accounts", "programs", "documents", "readme"}
    /\ proc[p].todo = {}
    /\ proc[p].open = {}
    /\ Goto(p, NextPhase(pc[p]))
    /\ proc' = [proc EXCEPT ![p].todo = PhaseFiles(NextPhase(pc[p]), proc[p].job.capture)]
    /\ UNCHANGED <<disk, started>>

\* buildIntegrityIndex indexes what it finds on disk.
WalkBundle(p) ==
    /\ pc[p] = "walk"
    /\ Goto(p, "hash")
    /\ proc' = [proc EXCEPT ![p].todo = Present]
    /\ UNCHANGED <<disk, started>>

HashFile(p) ==
    /\ pc[p] = "hash"
    /\ \E f \in proc[p].todo :
         proc' = [proc EXCEPT ![p].todo = @ \ {f}, ![p].gathered[f] = disk[f]]
    /\ UNCHANGED <<disk, pc, started>>

OpenManifest(p) ==
    /\ pc[p] = "hash"
    /\ proc[p].todo = {}
    /\ disk' = [disk EXCEPT !["manifest.json"] = Torn]
    /\ Goto(p, "publish")
    /\ UNCHANGED <<proc, started>>

WriteManifest(p) ==
    /\ pc[p] = "publish"
    /\ disk' = [disk EXCEPT !["manifest.json"] =
                  Manifest(proc[p].job.capture, PinnedRuntime, proc[p].gathered)]
    /\ Return(p)
    /\ UNCHANGED started

-----------------------------------------------------------------------------
(* validateBundle, called by every other command.                          *)

\* Mutant: a truncated manifest is read all the same.
ManifestThere == \A f \in Required : disk[f] # Absent

ManifestReadable ==
    /\ \A f \in Required : disk[f] # Absent
    /\ disk["manifest.json"] # Torn

Indexed(m) == {f \in Indexable : m.index[f] # Absent}

\* Mutants: only the file set is compared; a file is compared with what its
\* capture generated, not with the index.
IsIndexed(f, m) == m.index[f] # Absent
IsGenerated(f, m) == disk[f] = Produces(f, m.capture)

SameHash(f, m) == disk[f] = m.index[f]

\* The lstat of the required files and the read of the manifest.
ReadManifest(p) ==
    /\ pc[p] = "manifest"
    /\ IF ManifestReadable
       THEN /\ proc' = [proc EXCEPT ![p].seen = disk["manifest.json"]]
            /\ Goto(p, "files")
       ELSE Return(p)
    /\ UNCHANGED <<disk, started>>

CheckFileSet(p) ==
    /\ pc[p] = "files"
    /\ IF Present = Indexed(proc[p].seen)
       THEN /\ proc' = [proc EXCEPT ![p].todo = Present]
            /\ Goto(p, "verify")
       ELSE Return(p)
    /\ UNCHANGED <<disk, started>>

\* The files are hashed in one fixed order (the code sorts the paths).
VerifyFile(p) ==
    /\ pc[p] = "verify"
    /\ proc[p].todo # {}
    /\ LET f == CHOOSE g \in proc[p].todo : TRUE
       IN  IF SameHash(f, proc[p].seen)
           THEN /\ proc' = [proc EXCEPT ![p].todo = @ \ {f}]
                /\ UNCHANGED pc
           ELSE Return(p)
    /\ UNCHANGED <<disk, started>>

\* A truncated document does not parse; two of them repeat the signature.
DocumentsAgree(m) ==
    /\ \A d \in {"transaction.json", "original-execution.json",
                 "expected.json", "provenance.json"} : disk[d] # Torn
    /\ disk["transaction.json"] = SignatureOf[m.capture]
    /\ disk["original-execution.json"] = SignatureOf[m.capture]

\* Only assertBundle itself insists on the runtime pin here.
RuntimeAccepted(p) ==
    proc[p].routine = "assert" => proc[p].seen.runtime = PinnedRuntime

AfterValidation(routine) ==
    CASE routine = "replay" -> "gate"
      [] routine = "compare" -> "compare"
      [] routine = "assert" -> "choose"
      [] OTHER -> "idle"

ReadDocuments(p) ==
    /\ pc[p] = "verify"
    /\ proc[p].todo = {}
    /\ IF /\ RuntimeAccepted(p)
          /\ DocumentsAgree(proc[p].seen)
          /\ proc[p].routine # "inspect"
       THEN Goto(p, AfterValidation(proc[p].routine)) /\ UNCHANGED proc
       ELSE Return(p)
    /\ UNCHANGED <<disk, started>>

-----------------------------------------------------------------------------
(* replayBundle and the Rust backend.                                      *)

Eligible(m) == EligibilityOf[m.capture] = "SUPPORTED"

\* Mutant: the gate forgets the eligibility.
RuntimeMatches(m) == m.runtime = PinnedRuntime

Replayable(m) == m.runtime = PinnedRuntime /\ Eligible(m)

ReplayOut(j) == IF j.out = Default THEN "replay.json" ELSE j.out

GateReplay(p) ==
    /\ pc[p] = "gate"
    /\ IF Replayable(proc[p].seen)
       THEN Goto(p, "transaction") /\ UNCHANGED disk
       ELSE /\ Goto(p, "refuse")
            /\ disk' = [disk EXCEPT ![ReplayOut(proc[p].job)] = Torn]
    /\ UNCHANGED <<proc, started>>

\* Mutant: the caller of replayBundle begins again.
BeginAgain(p) ==
    /\ Goto(p, "manifest")
    /\ proc' = [proc EXCEPT ![p].routine = proc[p].job.command, ![p].gathered = Blank]

\* What the caller of replayBundle does next: `assert` judges the bundle's
\* own replay.json from here on.
CompareNext(p) ==
    /\ Goto(p, "manifest")
    /\ proc' = [proc EXCEPT ![p].routine = "compare",
                            ![p].gathered = Blank,
                            ![p].job.replayFile =
                               IF proc[p].job.command = "assert" THEN "replay.json" ELSE @]

RefuseReplay(p) ==
    /\ pc[p] = "refuse"
    /\ disk' = [disk EXCEPT ![ReplayOut(proc[p].job)] = Refusal]
    /\ IF proc[p].job.command = "replay" THEN Return(p) ELSE CompareNext(p)
    /\ UNCHANGED started

LoadTransaction(p) ==
    /\ pc[p] = "transaction"
    /\ IF disk["transaction.json"] = Torn
       THEN Return(p)
       ELSE /\ proc' = [proc EXCEPT
                 ![p].gathered["transaction.json"] = disk["transaction.json"]]
            /\ Goto(p, "listing")
    /\ UNCHANGED <<disk, started>>

\* read_dir: every accounts/*.json there is, whatever the manifest lists.
ListAccounts(p) ==
    /\ pc[p] = "listing"
    /\ Goto(p, "load")
    /\ proc' = [proc EXCEPT ![p].todo = {f \in AccountFiles : disk[f] # Absent}]
    /\ UNCHANGED <<disk, started>>

\* In the order read_dir gives them.
LoadAccount(p) ==
    /\ pc[p] = "load"
    /\ \E f \in proc[p].todo :
         IF disk[f] = Torn
         THEN Return(p)
         ELSE /\ proc' = [proc EXCEPT ![p].todo = @ \ {f}, ![p].gathered[f] = disk[f]]
              /\ UNCHANGED pc
    /\ UNCHANGED <<disk, started>>

OpenOutput(p) ==
    /\ pc[p] = "load"
    /\ proc[p].todo = {}
    /\ disk' = [disk EXCEPT ![ReplayOut(proc[p].job)] = Torn]
    /\ Goto(p, "emit")
    /\ UNCHANGED <<proc, started>>

EmitReplay(p) ==
    /\ pc[p] = "emit"
    /\ disk' = [disk EXCEPT ![ReplayOut(proc[p].job)] = Replay(proc[p].gathered)]
    /\ CompareNext(p)
    /\ UNCHANGED started

\* Mutant: no timeout, so a backend that hangs while it executes is waited for.
BackendFailsToWrite(p) ==
    /\ pc[p] = "emit"
    /\ Return(p)
    /\ UNCHANGED <<disk, started>>

\* The backend cannot start, exits with an error, or is killed after the
\* timeout of spawnSync; replayBundle throws.
BackendFails(p) ==
    /\ Backend(p)
    /\ Return(p)
    /\ UNCHANGED <<disk, started>>

-----------------------------------------------------------------------------
(* compareReplay and assertBundle.                                         *)

CompareOut(j) ==
    IF j.command = "assert" \/ j.out = Default THEN "comparison.json" ELSE j.out

\* Mutant: the match counts whatever the eligibility.
AsMeasured(m, measured) == measured

\* An ineligible bundle keeps no status better than FAILED.
Classified(m, measured) ==
    IF ~Eligible(m) /\ measured # "FAILED" THEN "UNSUPPORTED" ELSE measured

\* Mutant: a refusal is compared like a replay.
StatusesOfAny(content, m) ==
    IF content \in {Absent, Torn} THEN {}
    ELSE IF content.kind # "comparison" THEN {Classified(m, s) : s \in Measured}
    ELSE {"UNSUPPORTED"} \cap {content.status}

\* The statuses the file read as a replay can get; none when compareReplay
\* throws on it (no file, no JSON, or a comparison instead of a replay).
StatusesOf(content, m) ==
    IF content \in {Absent, Torn} THEN {}
    ELSE IF content.kind = "replay" THEN {Classified(m, s) : s \in Measured}
    ELSE IF content.kind = "refusal" THEN {"UNSUPPORTED"}
    ELSE {"UNSUPPORTED"} \cap {content.status}

\* The three reads, the classification and the truncation of the output.
CompareReplay(p) ==
    LET content == disk[proc[p].job.replayFile] IN
    /\ pc[p] = "compare"
    /\ IF \/ StatusesOf(content, proc[p].seen) = {}
          \/ disk["expected.json"] = Torn
          \/ disk["original-execution.json"] = Torn
       THEN Return(p) /\ UNCHANGED disk
       ELSE \E s \in StatusesOf(content, proc[p].seen) :
              /\ proc' = [proc EXCEPT ![p].judged = [replay |-> content, status |-> s]]
              /\ disk' = [disk EXCEPT ![CompareOut(proc[p].job)] = Torn]
              /\ Goto(p, "report")
    /\ UNCHANGED started

WriteComparison(p) ==
    /\ pc[p] = "report"
    /\ disk' = [disk EXCEPT ![CompareOut(proc[p].job)] = Comparison(proc[p].judged.status)]
    /\ IF proc[p].job.command = "assert"
       THEN Goto(p, "accept") /\ UNCHANGED proc
       ELSE Return(p)
    /\ UNCHANGED started

\* Mutant: --fresh is forgotten.
ReplayMissing(j) == disk[j.replayFile] = Absent

NeedsReplay(j) == disk[j.replayFile] = Absent \/ j.fresh

ChooseReplay(p) ==
    /\ pc[p] = "choose"
    /\ Goto(p, "manifest")
    /\ proc' = [proc EXCEPT ![p].routine =
                  IF NeedsReplay(proc[p].job) THEN "replay" ELSE "compare"]
    /\ UNCHANGED <<disk, started>>

Accepted == {"EXACT", "HIGH_FIDELITY"}

\* assertBundle reads the replay once more before it reports the pass.
Accept(p) ==
    /\ pc[p] = "accept"
    /\ IF /\ proc[p].judged.status \in Accepted
          /\ disk[proc[p].job.replayFile] # Torn
       THEN Goto(p, "passed") /\ UNCHANGED proc
       ELSE Return(p)
    /\ UNCHANGED <<disk, started>>

ReportPass(p) ==
    /\ pc[p] = "passed"
    /\ Return(p)
    /\ UNCHANGED <<disk, started>>

-----------------------------------------------------------------------------

BuildStep(p) ==
    \/ OpenFile(p) \/ WriteFile(p) \/ EndPhase(p)
    \/ WalkBundle(p) \/ HashFile(p) \/ OpenManifest(p) \/ WriteManifest(p)

ValidateStep(p) ==
    ReadManifest(p) \/ CheckFileSet(p) \/ VerifyFile(p) \/ ReadDocuments(p)

BackendStep(p) ==
    \/ LoadTransaction(p) \/ ListAccounts(p) \/ LoadAccount(p)
    \/ OpenOutput(p) \/ EmitReplay(p)

JudgeStep(p) ==
    \/ GateReplay(p) \/ RefuseReplay(p) \/ CompareReplay(p) \/ WriteComparison(p)
    \/ ChooseReplay(p) \/ Accept(p) \/ ReportPass(p)

NodeStep(p) == BuildStep(p) \/ ValidateStep(p) \/ JudgeStep(p)

Next ==
    \E p \in Processes :
        \/ \E j \in Jobs : StartCommand(p, j)
        \/ NodeStep(p)
        \/ BackendStep(p)
        \/ BackendFails(p)
        \/ Crash(p)

Spec == Init /\ [][Next]_vars

\* A node process that can move does; the backend may hang for ever, but
\* spawnSync's timeout then fires.  Nobody has to start or to kill a command.
FairSpec == Spec /\ \A p \in Processes : WF_vars(NodeStep(p)) /\ WF_vars(BackendFails(p))

-----------------------------------------------------------------------------
(* Properties.                                                             *)

\* Every variable has its type: in particular a process that has left
\* "manifest" holds a whole manifest, and each path holds its kind of data.
Locals ==
    [job : UserJobs \cup {None},
     routine : {"inspect", "replay", "compare", "assert", None},
     seen : Manifests \cup {None},
     todo : SUBSET Fixtures,
     open : SUBSET Fixtures,
     gathered : Indexes,
     judged : [replay : Reports, status : Fidelity] \cup {None}]

Labels == BuildPhases \cup
    {"idle", "manifest", "files", "verify", "gate", "refuse", "transaction", "listing",
     "load", "emit", "compare", "report", "choose", "accept", "passed"}

DiskTypeOK ==
    /\ DOMAIN disk = Files
    /\ \A f \in Fixtures : disk[f] \in Contents \cup {Absent}
    /\ disk["manifest.json"] \in Manifests \cup {Absent, Torn}
    /\ \A f \in Outputs : disk[f] \in Reports \cup {Absent, Torn}

TypeOK ==
    /\ DiskTypeOK
    /\ pc \in [Processes -> Labels]
    /\ proc \in [Processes -> Locals]
    /\ started \in 0..MaxCommands

\* What an undisturbed validateBundle would accept.
Valid ==
    /\ ManifestReadable
    /\ Present = Indexed(disk["manifest.json"])
    /\ \A f \in Present : disk[f] = disk["manifest.json"].index[f]
    /\ DocumentsAgree(disk["manifest.json"])

\* A bundle that validates is the work of one complete createBundle run:
\* every file its capture calls for is there with the content that run gave
\* it, whatever earlier runs left behind and wherever they died.
ValidBundleIsWhole ==
    Valid => LET c == disk["manifest.json"].capture
             IN  \A f \in FilesOf(c) : disk[f] = Produces(f, c)

\* createBundle's last write makes the bundle valid: a run that ends is never
\* refused by the next command, even over the remains of a run that crashed.
PublishedBundleValidates ==
    [][\A p \in Processes : WriteManifest(p) => Valid']_vars

\* Commands that only read a bundle never spoil it: while nobody builds, a
\* valid bundle stays valid whatever replays, comparisons and crashes happen.
OutputsKeepBundleValid ==
    [][(Valid /\ \A p \in Processes : ~Building(p)) => Valid']_vars

\* validateBundle, file by file and beside other commands, refuses only what
\* is wrong as a whole: not a bundle with files of an earlier build that its
\* index lists, nor one whose outputs somebody is writing.
ValidBundleIsNotRefused ==
    [][\A p \in Processes :
         (/\ pc'[p] = "idle"
          /\ \/ ReadManifest(p) \/ CheckFileSet(p) \/ VerifyFile(p)
             \/ ReadDocuments(p) /\ RuntimeAccepted(p) /\ AfterValidation(proc[p].routine) # "idle")
         => ~Valid]_vars

\* Until the command acts on it, a bundle that passed the step-by-step
\* validation is one a single look at the whole directory would accept, and
\* the manifest the command holds is still the one on disk.
ValidationVouches ==
    \A p \in Processes : pc[p] \in {"gate", "transaction", "listing", "load", "compare", "choose"} =>
        Valid /\ proc[p].seen = disk["manifest.json"]

\* What the backend executes is what some eligible capture recorded: its
\* transaction with each of its account fixtures, none missing or swapped.
RanCapture(inputs, c) ==
    /\ inputs["transaction.json"] = SignatureOf[c]
    /\ \A f \in AccountsOf[c] : inputs[f] = Produces(f, c)

ReplaysRunEligibleCaptures ==
    \A f \in Outputs :
        (disk[f] \notin {Absent, Torn} /\ disk[f].kind = "replay") =>
            \E c \in Captures : EligibilityOf[c] = "SUPPORTED" /\ RanCapture(disk[f].inputs, c)

\* assert never passes an ineligible bundle or one pinned to another runtime,
\* even when an accidental match of an old replay.json measures EXACT.
PassIsSupported ==
    \A p \in Processes : pc[p] = "passed" => Replayable(proc[p].seen)

\* Whatever file an assertion judges - the replay --fresh made, an older
\* replay.json that --fresh --out left in place, or the --replay path - it
\* passes only on an execution of what one eligible capture recorded, never on
\* a refusal, a comparison or a mixture.
PassJudgedAnEligibleRun ==
    \A p \in Processes : pc[p] = "passed" =>
        LET replay == proc[p].judged.replay
        IN  /\ replay.kind = "replay"
            /\ \E c \in Captures : EligibilityOf[c] = "SUPPORTED" /\ RanCapture(replay.inputs, c)

\* assert --fresh passes only on a run of the bundle it reports on, never on
\* a replay of what the directory held before.
FreshPassRanThisBundle ==
    \A p \in Processes :
        (pc[p] = "passed" /\ proc[p].job.fresh /\ proc[p].job.out = Default) =>
            RanCapture(proc[p].judged.replay.inputs, proc[p].seen.capture)

\* What the directory is to somebody who sees only whole bundles.
Described ==
    IF disk["manifest.json"] \in {Absent, Torn} THEN None
    ELSE [capture |-> disk["manifest.json"].capture, runtime |-> disk["manifest.json"].runtime]

BuiltCapture ==
    IF \E p \in Processes : Building(p)
    THEN proc[CHOOSE p \in Processes : Building(p)].job.capture ELSE None

Store == INSTANCE BundleStore WITH
    Supported <- {c \in Captures : EligibilityOf[c] = "SUPPORTED"},
    Users <- Processes,
    described <- Described,
    usable <- Valid,
    building <- BuiltCapture,
    passing <- {p \in Processes : pc[p] = "passed"}

\* Commands that hash, load and judge file by file, and builds that write file
\* by file and die anywhere, are to their users a directory that changes from
\* one whole bundle to the next, and an assertion that passes is about the
\* one it holds.
ImplementsStore == Store!Spec

\* How far a command is: the function that called validateBundle, in the
\* order in which an assertion calls them, and the place in it.
Round(routine) ==
    CASE routine = "replay" -> 1
      [] routine = "compare" -> 2
      [] OTHER -> 0

Stage(label) ==
    CASE label \in {"accounts", "manifest"} -> 0
      [] label \in {"programs", "files"} -> 1
      [] label \in {"documents", "verify"} -> 2
      [] label \in {"readme", "gate", "compare", "choose"} -> 3
      [] label \in {"walk", "refuse", "transaction", "report"} -> 4
      [] label \in {"hash", "listing", "accept"} -> 5
      [] label \in {"publish", "load", "passed"} -> 6
      [] label = "emit" -> 7

Shrinks(S, T) == T \subseteq S /\ T # S

MovesOn(p) ==
    LET l == proc[p]
        m == proc'[p]
    IN  \/ pc'[p] = "idle"
        \/ Round(l.routine) < Round(m.routine)
        \/ m.routine = l.routine /\ Stage(pc[p]) < Stage(pc'[p])
        \/ /\ m.routine = l.routine /\ pc'[p] = pc[p]
           /\ Shrinks(l.todo, m.todo) \/ (m.todo = l.todo /\ Shrinks(l.open, m.open))

Changes(p) == pc'[p] # pc[p] \/ proc'[p] # proc[p]

\* Every step starts a command or brings one nearer to its end, whatever it
\* finds on disk: the functions that call one another, and the files each of
\* them goes through, never lead a command back to where it was.
CommandsMoveOn ==
    [][/\ \E p \in Processes : Changes(p)
       /\ \A p \in Processes : (pc[p] # "idle" /\ Changes(p)) => MovesOn(p)]_vars

\* Every command ends, even when the backend hangs.
CommandsEnd ==
    \A p \in Processes : pc[p] # "idle" ~> pc[p] = "idle"

-----------------------------------------------------------------------------
(* What holds between the steps, for the proofs.                           *)

\* A process runs the code of its own command, and has a comparison in hand
\* when it reports one.
RunsItsJob ==
    \A p \in Processes :
        /\ Building(p) => proc[p].job \in Builds
        /\ (pc[p] # "idle" /\ ~Building(p)) => proc[p].job \in Commands
        /\ pc[p] \in {"report", "accept", "passed"} => proc[p].judged # None

OneBuilder ==
    \A p, q \in Processes : Building(p) /\ Building(q) => p = q

\* The files that phases after this one write.
Later(phase, c) ==
    CASE phase = "accounts" -> ProgramsOf[c] \cup Documents \cup {"README.md"}
      [] phase = "programs" -> Documents \cup {"README.md"}
      [] phase = "documents" -> {"README.md"}
      [] OTHER -> {}

Pending(p) ==
    IF pc[p] \in {"accounts", "programs", "documents", "readme"}
    THEN proc[p].todo \cup proc[p].open \cup Later(pc[p], proc[p].job.capture)
    ELSE {}

\* What a build is done with has its final content.
BuildProgress ==
    \A p \in Processes : Building(p) =>
        \A f \in FilesOf(proc[p].job.capture) \ Pending(p) :
            disk[f] = Produces(f, proc[p].job.capture)

\* And so have the hashes it took.
HashProgress ==
    \A p \in Processes : pc[p] \in {"hash", "publish"} =>
        \A f \in FilesOf(proc[p].job.capture) :
            \/ pc[p] = "hash" /\ f \in proc[p].todo
            \/ proc[p].gathered[f] = Produces(f, proc[p].job.capture)

\* A whole manifest indexes every file of its capture with the content that
\* capture gives it, even while the files themselves are being replaced.
ManifestCoversCapture ==
    LET m == disk["manifest.json"]
    IN  m \notin {Absent, Torn} =>
            \A f \in FilesOf(m.capture) : m.index[f] = Produces(f, m.capture)

-----------------------------------------------------------------------------
(* What the documents say and the code does not do.                        *)

\* Every account the backend loads has a label in provenance.json.
LoadedAccountsAreLabelled ==
    \A p \in Processes : pc[p] = "emit" =>
        \A f \in AccountFiles : proc[p].gathered[f] # Absent =>
            f \in AccountsOf[proc[p].seen.capture]

\* The backend receives only what validateBundle checked.
BackendReadsValidatedData ==
    \A p \in Processes : pc[p] = "emit" =>
        \A f \in AccountFiles \cup {"transaction.json"} :
            proc[p].gathered[f] = proc[p].seen.index[f]
=============================================================================
