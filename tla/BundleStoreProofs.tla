--------------------------- MODULE BundleStoreProofs ---------------------------
(***************************************************************************)
(* The directory implements BundleStore, while builds are kept apart from  *)
(* everything else: one lemma per kind of step, each of which is a step of *)
(* the store or changes nothing the store shows.                           *)
(***************************************************************************)
EXTENDS BundleUseProofs

USE DEF Goto, Return

\* What holds between two steps of the directory.
StoreInv == HashInv /\ RunInv

\* The capture of the build under way, if there is one.
LEMMA BuiltFacts ==
    ASSUME OneBuilder
    PROVE  /\ \A b \in Processes : Building(b) => BuiltCapture = proc[b].job.capture
           /\ (\A b \in Processes : ~Building(b)) => BuiltCapture = None
<1>1. ASSUME NEW b \in Processes, Building(b) PROVE BuiltCapture = proc[b].job.capture
  <2>1. (CHOOSE q \in Processes : Building(q)) = b
    BY <1>1 DEF OneBuilder
  <2> QED BY <1>1, <2>1 DEF BuiltCapture
<1>2. ASSUME \A b \in Processes : ~Building(b) PROVE BuiltCapture = None
  BY <1>2 DEF BuiltCapture
<1> QED BY <1>1, <1>2

LEMMA BuiltFactsNext ==
    ASSUME OneBuilder'
    PROVE  /\ \A b \in Processes : Building(b)' => BuiltCapture' = proc'[b].job.capture
           /\ (\A b \in Processes : ~Building(b)') => BuiltCapture' = None
<1>1. ASSUME NEW b \in Processes, Building(b)' PROVE BuiltCapture' = proc'[b].job.capture
  <2>1. (CHOOSE q \in Processes : Building(q)') = b
    BY <1>1 DEF OneBuilder
  <2> QED BY <1>1, <2>1 DEF BuiltCapture
<1>2. ASSUME \A b \in Processes : ~Building(b)' PROVE BuiltCapture' = None
  BY <1>2 DEF BuiltCapture
<1> QED BY <1>1, <1>2

LEMMA ValidIsBoolean == Valid \in BOOLEAN /\ Valid' \in BOOLEAN
BY DEF Valid

\* No bundle is described by a manifest that is not there or not readable.
LEMMA NothingDescribed ==
    /\ Described = None => ~Valid \/ disk["manifest.json"] \notin Manifests
    /\ disk["manifest.json"] \in {Absent, Torn} => ~Valid
    /\ disk'["manifest.json"] \in {Absent, Torn} => ~Valid'
<1>1. /\ disk["manifest.json"] \in {Absent, Torn} => ~Valid
      /\ disk'["manifest.json"] \in {Absent, Torn} => ~Valid'
  BY DEF Valid, ManifestReadable, Required
<1>2. disk["manifest.json"] \in Manifests =>
        [capture |-> disk["manifest.json"].capture, runtime |-> disk["manifest.json"].runtime] # None
  BY ContentAssumption DEF Manifests
<1> QED BY <1>1, <1>2 DEF Described

\* The store's variables, as the directory shows them.
Passing == {p \in Processes : pc[p] = "passed"}

LEMMA InitStore == Init => Store!Init
<1> SUFFICES ASSUME Init PROVE Store!Init
  OBVIOUS
<1>1. BuiltCapture = None /\ Passing = {}
  BY DEF Init, BuiltCapture, Building, BuildPhases, Passing
<1>2. CASE disk = [f \in Files |-> Absent]
  <2>1. disk["manifest.json"] = Absent
    BY <1>2, PathFacts
  <2> QED BY <1>1, <2>1, NothingDescribed, ValidIsBoolean DEF Store!Init, Described, Passing
<1>3. CASE \E c \in Captures, r \in Runtimes : disk = WholeBundle(c, r)
  <2> PICK c \in Captures, r \in Runtimes : disk = WholeBundle(c, r)
    BY <1>3
  <2> DEFINE content(f) == IF f \in FilesOf(c) THEN Produces(f, c) ELSE Absent
             index == [g \in Indexable |-> content(g)]
  <2>1. /\ disk["manifest.json"] = Manifest(c, r, index)
        /\ \A f \in Indexable : disk[f] = content(f)
    BY PathFacts DEF WholeBundle
  <2>2. Manifest(c, r, index) \in Manifests
    BY <2>1, InitTyped, FilesOfFacts DEF Manifest, Manifests, Indexes
  <2>3. \A f \in FilesOf(c) : disk[f] = Produces(f, c) /\ disk[f] \notin {Absent, Torn}
    BY <2>1, FilesOfFacts, ContentFacts, PathFacts
  <2>4. Documents \cup {"README.md"} \subseteq FilesOf(c)
    BY DEF FilesOf
  <2>5. ManifestReadable
    BY <2>1, <2>2, <2>3, <2>4, ContentAssumption DEF ManifestReadable, Required, Documents
  <2>6. Present = Indexed(disk["manifest.json"])
    BY <2>1 DEF Present, Indexed, Manifest
  <2>7. \A f \in Present : disk[f] = disk["manifest.json"].index[f]
    BY <2>1 DEF Present, Manifest
  <2>8. DocumentsAgree(disk["manifest.json"])
    <3>1. \A f \in Documents : disk[f] = Produces(f, c) /\ disk[f] # Torn
      BY <2>3, <2>4
    <3> QED BY <2>1, <3>1 DEF DocumentsAgree, Documents, Produces, SignatureDocuments, Manifest
  <2>9. Valid
    BY <2>5, <2>6, <2>7, <2>8 DEF Valid
  <2>10. Described = [capture |-> c, runtime |-> r]
    BY <2>1, <2>2, ContentAssumption DEF Described, Manifest
  <2> QED BY <1>1, <2>9, <2>10, ValidIsBoolean DEF Store!Init, Store!Bundles, Passing
<1> QED BY <1>2, <1>3 DEF Init

\* A build begins, alone.
LEMMA StartStore ==
    ASSUME Exclusion = "alone", StoreInv, StoreInv', NEW p \in Processes, NEW j \in Jobs, StartCommand(p, j)
    PROVE  [Store!Next]_Store!storeVars
<1> USE DEF StoreInv, RunInv, UseInv, Typed, TypeOK
<1>1. /\ disk' = disk /\ pc[p] = "idle"
      /\ \A q \in Processes : q # p => pc'[q] = pc[q] /\ proc'[q] = proc[q]
      /\ pc'[p] # "passed"
  BY DEF StartCommand
<1>2. /\ Passing' = Passing /\ Described' = Described /\ Valid' = Valid
  <2>1. Valid' <=> Valid
    BY <1>1, SameDirectory
  <2> QED BY <1>1, <2>1, ValidIsBoolean DEF Passing, Described
<1>3. CASE j.command = "bundle"
  <2>1. /\ \A q \in Processes : pc[q] = "idle"
        /\ pc'[p] = "accounts" /\ proc'[p].job = j
        /\ j.capture \in Captures
    BY <1>3, DataAssumption, JobKinds DEF StartCommand, MayStart, Locals
  <2>2. BuiltCapture = None
    BY <2>1, BuiltFacts DEF WholeInv, Building, BuildPhases
  <2>3. BuiltCapture' = j.capture
    BY <2>1, BuiltFactsNext DEF WholeInv, Building, BuildPhases
  <2>4. Store!BeginBuild(j.capture)
    BY <1>2, <2>1, <2>2, <2>3 DEF Store!BeginBuild, Passing
  <2> QED BY <2>1, <2>4 DEF Store!Next
<1>4. CASE j.command # "bundle"
  <2>1. pc'[p] = "manifest" /\ \A q \in Processes : ~Building(q)
    BY <1>4, DataAssumption DEF StartCommand, MayStart
  <2>2. BuiltCapture = None /\ BuiltCapture' = None
    BY <1>1, <2>1, BuiltFacts, BuiltFactsNext DEF WholeInv, Building, BuildPhases
  <2> QED BY <1>2, <2>2 DEF Store!storeVars, Passing
<1> QED BY <1>3, <1>4

\* A build writes a file, publishes or goes on; it is alone in the directory.
LEMMA BuildStore ==
    ASSUME StoreInv, StoreInv', NEW p \in Processes, BuildStep(p)
    PROVE  [Store!Next]_Store!storeVars
<1> USE DEF StoreInv, RunInv, UseInv, Typed, TypeOK
<1> DEFINE c == proc[p].job.capture
<1>1. /\ Building(p) /\ c \in Captures
      /\ \A q \in Processes : q # p => pc[q] = "idle" /\ pc'[q] = "idle"
  <2>1. Building(p)
    BY DEF BuildStep, OpenFile, WriteFile, EndPhase, WalkBundle, HashFile, OpenManifest, WriteManifest,
       Building, BuildPhases
  <2> QED BY <2>1, OthersKeep, JobKinds DEF Act, NodeStep, RunsItsJob, BuildsAlone
<1>2. BuiltCapture = c /\ c # None
  BY <1>1, BuiltFacts, ContentAssumption DEF WholeInv
<1>3. Passing = {} /\ Passing' = {}
  <2>1. pc'[p] # "passed"
    <3>1. CASE EndPhase(p)
      BY <3>1 DEF EndPhase, NextPhase
    <3> QED BY <3>1 DEF BuildStep, OpenFile, WriteFile, WalkBundle, HashFile, OpenManifest, WriteManifest
  <2> QED BY <1>1, <2>1 DEF Passing, Building, BuildPhases
<1>4. CASE WriteManifest(p)
  <2>1. disk'["manifest.json"] = Manifest(c, PinnedRuntime, proc[p].gathered) /\ Valid'
    BY <1>4, WriteMakesValid
  <2>2. disk'["manifest.json"] \notin {Absent, Torn}
    BY <2>1, NothingDescribed
  <2>3. Described' = [capture |-> c, runtime |-> PinnedRuntime]
    BY <2>1, <2>2 DEF Described, Manifest
  <2>4. BuiltCapture' = None
    <3>1. \A q \in Processes : ~Building(q)'
      BY <1>1, <1>4 DEF WriteManifest, Building, BuildPhases
    <3> QED BY <3>1, BuiltFactsNext DEF WholeInv
  <2> QED BY <1>2, <1>3, <2>1, <2>3, <2>4, ValidIsBoolean DEF Store!Publish, Store!Next, Passing
<1>5. CASE ~WriteManifest(p)
  <2>1. Building(p)' /\ proc'[p].job = proc[p].job
    <3>1. CASE EndPhase(p)
      BY <3>1 DEF EndPhase, NextPhase, Building, BuildPhases, Locals
    <3>2. CASE OpenFile(p)
      BY <3>2 DEF OpenFile, Building, BuildPhases, Locals
    <3>3. CASE WriteFile(p)
      BY <3>3 DEF WriteFile, Building, BuildPhases, Locals
    <3>4. CASE WalkBundle(p) \/ HashFile(p) \/ OpenManifest(p)
      BY ZenonT(60), <3>4 DEF WalkBundle, HashFile, OpenManifest, Building, BuildPhases, Locals
    <3> QED BY <1>5, <3>1, <3>2, <3>3, <3>4 DEF BuildStep
  <2>2. BuiltCapture' = c
    BY <2>1, BuiltFactsNext DEF WholeInv
  <2>3. CASE OpenManifest(p)
    <3>1. disk'["manifest.json"] = Torn
      BY <2>3, PathFacts DEF OpenManifest, DiskTypeOK
    <3>2. Described' = None /\ ~Valid'
      BY <3>1, NothingDescribed DEF Described
    <3> QED BY <1>2, <1>3, <2>2, <3>2, ValidIsBoolean DEF Store!Withdraw, Store!Next, Passing
  <2>4. CASE ~OpenManifest(p)
    <3>1. disk'["manifest.json"] = disk["manifest.json"]
      <4>1. CASE OpenFile(p) \/ WriteFile(p)
        <5> PICK f \in Fixtures : \E v : disk' = [disk EXCEPT ![f] = v]
          BY <4>1 DEF OpenFile, WriteFile, Locals
        <5> QED BY PathFacts DEF DiskTypeOK
      <4>2. CASE EndPhase(p) \/ WalkBundle(p) \/ HashFile(p)
        BY <4>2 DEF EndPhase, WalkBundle, HashFile
      <4> QED BY <1>5, <2>4, <4>1, <4>2 DEF BuildStep
    <3>2. Described' = Described
      BY <3>1 DEF Described
    <3>3. CASE Described = None
      <4>1. disk["manifest.json"] \in {Absent, Torn}
        BY <3>3, NothingDescribed, ContentAssumption DEF DiskTypeOK, Described, Manifests
      <4>2. ~Valid /\ ~Valid'
        BY <3>1, <4>1, NothingDescribed
      <4> QED BY <1>2, <1>3, <2>2, <3>2, <4>2, ValidIsBoolean DEF Store!storeVars, Passing
    <3>4. CASE Described # None
      BY <1>2, <1>3, <2>2, <3>2, <3>4, ValidIsBoolean DEF Store!Disturb, Store!Next, Passing
    <3> QED BY <3>3, <3>4
  <2> QED BY <2>3, <2>4
<1> QED BY <1>4, <1>5

\* A build dies, or another command goes on, passes or ends.
LEMMA UseStore ==
    ASSUME StoreInv, StoreInv', NEW p \in Processes, Act(p), ~BuildStep(p)
    PROVE  [Store!Next]_Store!storeVars
<1> USE DEF StoreInv, RunInv, UseInv, Typed, TypeOK
<1>1. \A q \in Processes : q # p => pc'[q] = pc[q] /\ proc'[q] = proc[q]
  BY OthersKeep
<1>2. /\ ValidateStep(p) \/ BackendStep(p) \/ JudgeStep(p) \/ BackendFails(p) \/ Crash(p)
      /\ \A f \in Fixtures \cup {"manifest.json"} : disk'[f] = disk[f]
  <2>1. ValidateStep(p) \/ BackendStep(p) \/ JudgeStep(p) \/ BackendFails(p) \/ Crash(p)
    BY DEF Act, NodeStep
  <2> QED BY <2>1, OthersAreQuiet
<1>3. Described' = Described /\ Valid' = Valid
  <2>1. Valid' <=> Valid
    BY <1>2, SameDirectory
  <2> QED BY <1>2, <2>1, ValidIsBoolean DEF Described
<1>4. CASE Building(p)
  <2>1. Crash(p)
    BY <1>2, <1>4 DEF ValidateStep, BackendStep, JudgeStep, ReadManifest, CheckFileSet, VerifyFile,
       ReadDocuments, LoadTransaction, ListAccounts, LoadAccount, OpenOutput, EmitReplay, BackendFails,
          Backend,
       GateReplay, RefuseReplay, CompareReplay, WriteComparison, ChooseReplay, Accept, ReportPass,
       Building, BuildPhases
  <2>2. \A q \in Processes : pc'[q] = "idle" /\ (q # p => pc[q] = "idle")
    BY <1>4, <2>1 DEF Crash, BuildsAlone
  <2>3. proc[p].job.capture \in Captures
    BY <1>4, JobKinds DEF RunsItsJob
  <2>4. BuiltCapture # None
    BY <1>4, <2>3, BuiltFacts, ContentAssumption DEF WholeInv
  <2>5. BuiltCapture' = None
    BY <2>2, BuiltFactsNext DEF WholeInv, Building, BuildPhases
  <2>6. Passing = {} /\ Passing' = {}
    BY <1>4, <2>2 DEF Passing, Building, BuildPhases
  <2> QED BY <1>3, <2>4, <2>5, <2>6 DEF Store!Abandon, Store!Next, Passing
<1>5. CASE ~Building(p)
  <2>1. pc[p] # "idle"
    BY <1>2 DEF ValidateStep, BackendStep, JudgeStep, ReadManifest, CheckFileSet, VerifyFile,
       ReadDocuments, LoadTransaction, ListAccounts, LoadAccount, OpenOutput, EmitReplay, BackendFails,
          Backend, Crash,
       GateReplay, RefuseReplay, CompareReplay, WriteComparison, ChooseReplay, Accept, ReportPass
  <2>2. \A q \in Processes : ~Building(q) /\ ~Building(q)'
    <3>1. \A q \in Processes : ~Building(q)
      BY <1>5, <2>1 DEF BuildsAlone
    <3>2. \A q \in Processes : Building(q)' => pc'[q] = pc[q]
      BY <1>2, OthersAreQuiet
    <3> QED BY <3>1, <3>2 DEF Building
  <2>3. BuiltCapture = None /\ BuiltCapture' = None
    BY <2>2, BuiltFacts, BuiltFactsNext DEF WholeInv
  <2>4. CASE pc'[p] # "passed"
    <3>1. Passing' = Passing \ {p}
      BY <1>1, <2>4 DEF Passing
    <3> QED BY <1>3, <2>3, <3>1 DEF Store!EndPass, Store!Next, Passing
  <2>5. CASE pc'[p] = "passed"
    <3>1. Accept(p)
      <4>1. ~ValidateStep(p)
        BY <2>5 DEF ValidateStep, ReadManifest, CheckFileSet, VerifyFile, ReadDocuments, AfterValidation
      <4>2. ~BackendStep(p) /\ ~BackendFails(p) /\ ~Crash(p)
        BY <2>5 DEF BackendStep, LoadTransaction, ListAccounts, LoadAccount, OpenOutput, EmitReplay,
           CompareNext,
           BackendFails, Crash
      <4>3. JudgeStep(p) => Accept(p)
        BY <2>5 DEF JudgeStep, GateReplay, RefuseReplay, CompareReplay, WriteComparison, ChooseReplay,
           ReportPass, CompareNext
      <4> QED BY <1>2, <4>1, <4>2, <4>3
    <3>2. pc[p] = "accept" /\ proc[p].judged.status \in Accepted
      BY <2>5, <3>1 DEF Accept
    <3>3. Valid /\ proc[p].seen = disk["manifest.json"]
      BY <3>2 DEF SeenIsCurrent, TrustedIsValid, Holding, Trusting
    <3>4. proc[p].seen.runtime = PinnedRuntime
      BY <3>2 DEF PassInv, PinStays, Stages, Settled, Running, Holding, Trusting
    <3>5. Eligible(proc[p].seen)
      BY <3>2 DEF PassInv, AcceptedIsEligible
    <3>6. disk["manifest.json"] \in Manifests
      BY <3>3, NothingDescribed DEF DiskTypeOK
    <3>7. /\ Described.runtime = PinnedRuntime
          /\ Described.capture \in {c \in Captures : EligibilityOf[c] = "SUPPORTED"}
      BY <3>3, <3>4, <3>5, <3>6, NothingDescribed DEF Described, Eligible, Manifests
    <3>8. Passing' = Passing \cup {p}
      BY <1>1, <2>5 DEF Passing
    <3> QED BY <1>3, <2>3, <3>3, <3>7, <3>8, ValidIsBoolean DEF Store!Pass, Store!Next, Passing
  <2> QED BY <2>4, <2>5
<1> QED BY <1>4, <1>5

LEMMA NextStore ==
    ASSUME Exclusion = "alone", StoreInv, StoreInv', [Next]_vars
    PROVE  [Store!Next]_Store!storeVars
<1>1. CASE UNCHANGED vars
  <2>1. Passing' = Passing /\ Described' = Described /\ BuiltCapture' = BuiltCapture
    BY <1>1 DEF vars, Passing, Described, BuiltCapture, Building
  <2>2. Valid' <=> Valid
    BY <1>1, SameDirectory DEF vars, StoreInv, RunInv, UseInv
  <2> QED BY <2>1, <2>2, ValidIsBoolean DEF Store!storeVars, Passing
<1> QED BY <1>1, NextCases, StartStore, BuildStore, UseStore DEF Act, NodeStep

\* Step by step, torn files, crashes and all, the directory does what
\* BundleStore promises.
THEOREM Implements ==
    ASSUME Exclusion = "alone"
    PROVE  Spec => ImplementsStore
<1>1. Exclusion = "alone" /\ Exclusion # "none"
  OBVIOUS
<1>2. Init => StoreInv
  BY InitHash, InitRun DEF StoreInv
<1>3. StoreInv /\ [Next]_vars => StoreInv'
  BY <1>1, NextHash, NextRun DEF StoreInv
<1>4. StoreInv /\ StoreInv' /\ [Next]_vars => [Store!Next]_Store!storeVars
  BY <1>1, NextStore
<1> QED BY <1>2, <1>3, <1>4, InitStore, PTL DEF Spec, ImplementsStore, Store!Spec
=============================================================================
