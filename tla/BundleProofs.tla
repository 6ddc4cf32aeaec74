---------------------------- MODULE BundleProofs ----------------------------
(***************************************************************************)
(* Proofs about Bundle, for every set of captures, files, processes and    *)
(* command lines.                                                          *)
(***************************************************************************)
EXTENDS Bundle, TLAPS

USE DEF Goto, Return

-----------------------------------------------------------------------------
(* Paths.                                                                  *)

\* The paths createBundle writes are indexed, and no command's output is one
\* of them, nor the manifest.
LEMMA PathFacts ==
    /\ Fixtures \subseteq Indexable
    /\ Fixtures \subseteq Files
    /\ Outputs \subseteq Files
    /\ "manifest.json" \in Files
    /\ "manifest.json" \notin Fixtures
    /\ "manifest.json" \notin Outputs
    /\ Fixtures \cap Outputs = {}
    /\ Indexable = Fixtures
    /\ Documents \subseteq Fixtures
BY PathAssumption DEF Fixtures, Indexable, Files, Outputs, BundleFiles, MutableOutputs, Documents

LEMMA FilesOfFacts ==
    \A c \in Captures :
        /\ FilesOf(c) \subseteq Fixtures
        /\ AccountsOf[c] \subseteq AccountFiles
        /\ ProgramsOf[c] \subseteq ProgramFiles
        /\ \A f : Produces(f, c) \in Contents /\ Produces(f, c) # Torn
BY DataAssumption, ContentAssumption DEF FilesOf, Fixtures, Produces, Contents, SignatureDocuments

LEMMA ContentFacts ==
    /\ Absent \notin Contents
    /\ Torn \in Contents
BY ContentAssumption DEF Contents

LEMMA OutFacts ==
    \A j \in Commands : ReplayOut(j) \in Outputs /\ CompareOut(j) \in Outputs
BY DEF Commands, ReplayOut, CompareOut, Outputs

LEMMA JobKinds ==
    /\ \A j \in UserJobs : IF j.command = "bundle" THEN j \in Builds ELSE j \in Commands
    /\ \A j \in Builds : j.command = "bundle" /\ j.capture \in Captures
    /\ \A j \in Commands : j.command # "bundle"
BY DEF UserJobs, Builds, Commands

-----------------------------------------------------------------------------
(* Types.                                                                  *)

Typed == TypeOK /\ RunsItsJob

LEMMA NoLocalsType == NoLocals \in Locals
BY DEF NoLocals, Locals, Blank, Indexes

\* A command that ends leaves a well-typed process behind.
LEMMA ReturnTyped ==
    ASSUME Typed, NEW p \in Processes, Return(p), DiskTypeOK', UNCHANGED started
    PROVE  Typed'
BY NoLocalsType DEF Typed, TypeOK, RunsItsJob, Labels, Building, BuildPhases

\* So does a replay that hands over to the comparison.
LEMMA CompareNextTyped ==
    ASSUME Typed, NEW p \in Processes, CompareNext(p), DiskTypeOK', UNCHANGED started,
           proc[p].job \in Commands
    PROVE  Typed'
<1>1. Blank \in Indexes
  BY DEF Blank, Indexes
<1> DEFINE job == [proc[p].job EXCEPT !.replayFile =
                     IF proc[p].job.command = "assert" THEN "replay.json" ELSE @]
<1>2. job \in Commands
  BY DEF Commands
<1>3. proc' = [proc EXCEPT ![p].routine = "compare", ![p].gathered = Blank, ![p].job = job]
  BY DEF CompareNext, Typed, TypeOK, Locals
<1> DEFINE l == [proc[p] EXCEPT !.routine = "compare", !.gathered = Blank, !.job = job]
<1>4. l \in Locals
  <2> HIDE DEF job
  <2> QED BY <1>1, <1>2 DEF Typed, TypeOK, Locals, UserJobs
<1>5. proc' = [proc EXCEPT ![p] = l] /\ l.job = job
  <2> HIDE DEF job
  <2> QED BY <1>3 DEF Typed, TypeOK, Locals
<1>6. pc' = [pc EXCEPT ![p] = "manifest"]
  BY DEF CompareNext
<1> HIDE DEF job, l
<1> QED BY <1>2, <1>4, <1>5, <1>6, JobKinds
        DEF Typed, TypeOK, RunsItsJob, Locals, Labels, Building, BuildPhases, UserJobs

\* A write of a fixture, of the manifest or of an output keeps the types of
\* the directory.
LEMMA WriteTyped ==
    ASSUME DiskTypeOK,
           NEW f, NEW v, disk' = [disk EXCEPT ![f] = v],
           \/ f \in Fixtures /\ v \in Contents
           \/ f = "manifest.json" /\ v \in Manifests \cup {Torn}
           \/ f \in Outputs /\ v \in Reports \cup {Torn}
    PROVE  DiskTypeOK'
BY PathFacts DEF DiskTypeOK

LEMMA InitTyped == Init => Typed
<1> SUFFICES ASSUME Init PROVE Typed
  OBVIOUS
<1>1. DiskTypeOK
  <2>1. CASE disk = [f \in Files |-> Absent]
    BY <2>1, PathFacts DEF DiskTypeOK
  <2>2. CASE \E c \in Captures, r \in Runtimes : disk = WholeBundle(c, r)
    <3> PICK c \in Captures, r \in Runtimes : disk = WholeBundle(c, r)
      BY <2>2
    <3> DEFINE content(f) == IF f \in FilesOf(c) THEN Produces(f, c) ELSE Absent
    <3>1. \A f : content(f) \in Contents \cup {Absent}
      BY FilesOfFacts
    <3>2. disk = [f \in Files |-> IF f = "manifest.json"
                    THEN Manifest(c, r, [g \in Indexable |-> content(g)]) ELSE content(f)]
      BY DEF WholeBundle
    <3>3. Manifest(c, r, [g \in Indexable |-> content(g)]) \in Manifests
      <4> HIDE DEF content
      <4> QED BY <3>1 DEF Manifest, Manifests, Indexes
    <3>4. \A f \in Outputs : content(f) = Absent
      BY FilesOfFacts, PathFacts
    <3> HIDE DEF content
    <3> QED BY <3>1, <3>2, <3>3, <3>4, PathFacts DEF DiskTypeOK
  <2> QED BY <2>1, <2>2 DEF Init
<1>2. pc \in [Processes -> Labels] /\ proc \in [Processes -> Locals] /\ started \in 0..MaxCommands
  BY NoLocalsType, DataAssumption DEF Init, Labels
<1>3. RunsItsJob
  BY DEF Init, RunsItsJob, Building, BuildPhases
<1> QED BY <1>1, <1>2, <1>3 DEF Typed, TypeOK

LEMMA NextTyped == Typed /\ [Next]_vars => Typed'
<1> SUFFICES ASSUME Typed, [Next]_vars PROVE Typed'
  OBVIOUS
<1> USE DEF TypeOK, RunsItsJob, Building, BuildPhases
<1>1. CASE UNCHANGED vars
  BY <1>1 DEF Typed, vars, DiskTypeOK
<1>2. ASSUME NEW p \in Processes, NEW j \in Jobs, StartCommand(p, j) PROVE Typed'
  <2>1. j \in UserJobs
    BY DataAssumption
  <2>2. started' \in 0..MaxCommands
    BY <1>2, DataAssumption DEF StartCommand, Typed
  <2>3. DiskTypeOK'
    BY <1>2 DEF StartCommand, Typed, DiskTypeOK
  <2>4. CASE j.command = "bundle"
    <3>1. j \in Builds /\ AccountsOf[j.capture] \subseteq Fixtures
      BY <2>1, <2>4, JobKinds, FilesOfFacts DEF Fixtures
    <3> QED BY <1>2, <2>1, <2>2, <2>3, <2>4, <3>1 DEF StartCommand, Typed, Locals, Labels
  <2>5. CASE j.command # "bundle"
    <3>1. j \in Commands /\ FirstRoutine(j) \in {"inspect", "replay", "compare", "assert"}
      BY <2>1, <2>5, JobKinds DEF FirstRoutine, Commands
    <3> QED BY SMTT(30), <1>2, <2>1, <2>2, <2>3, <2>5, <3>1 DEF StartCommand, Typed, Locals, Labels
  <2> QED BY <2>4, <2>5
<1>3. ASSUME NEW p \in Processes, BuildStep(p) PROVE Typed'
  <2>0. proc[p].job \in Builds /\ proc[p].job.capture \in Captures
    BY <1>3, JobKinds DEF BuildStep, OpenFile, WriteFile, EndPhase, WalkBundle, HashFile,
         OpenManifest, WriteManifest, Typed
  <2>1. CASE OpenFile(p)
    <3>1. PICK f \in proc[p].todo :
            /\ disk' = [disk EXCEPT ![f] = Torn]
            /\ proc' = [proc EXCEPT ![p].todo = @ \ {f}, ![p].open = @ \cup {f}]
      BY <2>1 DEF OpenFile
    <3>2. f \in Fixtures
      BY DEF Typed, Locals
    <3>3. DiskTypeOK'
      BY <3>1, <3>2, WriteTyped, ContentFacts DEF Typed
    <3> DEFINE l == [proc[p] EXCEPT !.todo = @ \ {f}, !.open = @ \cup {f}]
    <3>4. l \in Locals /\ l.job = proc[p].job /\ l.judged = proc[p].judged
      BY <3>2 DEF Typed, Locals
    <3>5. proc' = [proc EXCEPT ![p] = l]
      BY <3>1 DEF Typed, Locals
    <3>6. UNCHANGED <<pc, started>>
      BY <2>1 DEF OpenFile
    <3> HIDE DEF l
    <3> QED BY <3>3, <3>4, <3>5, <3>6 DEF Typed
  <2>2. CASE WriteFile(p)
    <3> PICK f \in proc[p].open :
          /\ disk' = [disk EXCEPT ![f] = Produces(f, proc[p].job.capture)]
          /\ proc' = [proc EXCEPT ![p].open = @ \ {f}]
      BY <2>2 DEF WriteFile
    <3>1. f \in Fixtures
      BY DEF Typed, Locals
    <3>2. DiskTypeOK'
      BY <2>0, <3>1, WriteTyped, FilesOfFacts DEF Typed
    <3> QED BY SMTT(30), <2>2, <3>1, <3>2 DEF WriteFile, Typed, Locals
  <2>3. CASE EndPhase(p)
    <3>1. PhaseFiles(NextPhase(pc[p]), proc[p].job.capture) \subseteq Fixtures
      BY <2>0, FilesOfFacts DEF PhaseFiles, Fixtures
    <3>2. NextPhase(pc[p]) \in BuildPhases
      BY <2>3 DEF EndPhase, NextPhase
    <3> QED BY <2>3, <3>1, <3>2 DEF EndPhase, Typed, DiskTypeOK, Locals, Labels
  <2>4. CASE WalkBundle(p)
    BY <2>4, PathFacts DEF WalkBundle, Present, Typed, DiskTypeOK, Locals, Labels
  <2>5. CASE HashFile(p)
    <3>1. PICK f \in proc[p].todo :
            proc' = [proc EXCEPT ![p].todo = @ \ {f}, ![p].gathered[f] = disk[f]]
      BY <2>5 DEF HashFile
    <3>2. disk[f] \in Contents \cup {Absent}
      BY DEF Typed, Locals, DiskTypeOK
    <3> DEFINE l == [proc[p] EXCEPT !.todo = @ \ {f}, !.gathered[f] = disk[f]]
    <3>3. l \in Locals /\ l.job = proc[p].job /\ l.judged = proc[p].judged
      BY <3>2 DEF Typed, Locals, Indexes
    <3>4. proc' = [proc EXCEPT ![p] = l]
      BY <3>1 DEF Typed, Locals
    <3>5. UNCHANGED <<disk, pc, started>>
      BY <2>5 DEF HashFile
    <3> HIDE DEF l
    <3> QED BY <3>3, <3>4, <3>5 DEF Typed, DiskTypeOK
  <2>6. CASE OpenManifest(p)
    <3>1. DiskTypeOK'
      BY <2>6, WriteTyped DEF OpenManifest, Typed
    <3> QED BY <2>6, <3>1 DEF OpenManifest, Typed, Labels
  <2>7. CASE WriteManifest(p)
    <3>1. Manifest(proc[p].job.capture, PinnedRuntime, proc[p].gathered) \in Manifests
      BY <2>0, DataAssumption DEF Manifest, Manifests, Typed, Locals
    <3>2. DiskTypeOK'
      BY <2>7, <3>1, WriteTyped DEF WriteManifest, Typed
    <3> QED BY <2>7, <3>2, ReturnTyped DEF WriteManifest
  <2> QED BY <1>3, <2>1, <2>2, <2>3, <2>4, <2>5, <2>6, <2>7 DEF BuildStep
<1>4. ASSUME NEW p \in Processes, ValidateStep(p) PROVE Typed'
  <2>0. DiskTypeOK'
    BY <1>4 DEF ValidateStep, ReadManifest, CheckFileSet, VerifyFile, ReadDocuments, Typed, DiskTypeOK
  <2>1. CASE ReadManifest(p)
    <3>1. CASE ManifestReadable
      <4>1. disk["manifest.json"] \in Manifests
        BY <3>1 DEF ManifestReadable, Required, Typed, DiskTypeOK
      <4> QED BY SMTT(30), <2>0, <2>1, <3>1, <4>1 DEF ReadManifest, Typed, Locals, Labels
    <3>2. CASE ~ManifestReadable
      BY <2>0, <2>1, <3>2, ReturnTyped DEF ReadManifest
    <3> QED BY <3>1, <3>2
  <2>2. CASE CheckFileSet(p)
    <3>1. CASE Present = Indexed(proc[p].seen)
      BY <2>0, <2>2, <3>1, PathFacts DEF CheckFileSet, Present, Typed, Locals, Labels
    <3>2. CASE Present # Indexed(proc[p].seen)
      BY <2>0, <2>2, <3>2, ReturnTyped DEF CheckFileSet
    <3> QED BY <3>1, <3>2
  <2>3. CASE VerifyFile(p)
    <3> DEFINE f == CHOOSE g \in proc[p].todo : TRUE
    <3>1. CASE SameHash(f, proc[p].seen)
      BY <2>0, <2>3, <3>1 DEF VerifyFile, Typed, Locals
    <3>2. CASE ~SameHash(f, proc[p].seen)
      BY <2>0, <2>3, <3>2, ReturnTyped DEF VerifyFile
    <3> QED BY <3>1, <3>2
  <2>4. CASE ReadDocuments(p)
    <3> DEFINE ok == RuntimeAccepted(p) /\ DocumentsAgree(proc[p].seen) /\ proc[p].routine # "inspect"
    <3>1. CASE ok
      <4>1. AfterValidation(proc[p].routine) \in {"gate", "compare", "choose", "idle"}
        BY DEF AfterValidation
      <4> QED BY <2>0, <2>4, <3>1, <4>1 DEF ReadDocuments, Typed, Labels
    <3>2. CASE ~ok
      BY <2>0, <2>4, <3>2, ReturnTyped DEF ReadDocuments
    <3> QED BY <3>1, <3>2
  <2> QED BY <1>4, <2>1, <2>2, <2>3, <2>4 DEF ValidateStep
<1>5. ASSUME NEW p \in Processes, BackendStep(p) PROVE Typed'
  <2>0. proc[p].job \in Commands
    BY <1>5 DEF BackendStep, LoadTransaction, ListAccounts, LoadAccount, OpenOutput, EmitReplay, Typed
  <2>1. CASE LoadTransaction(p)
    <3>1. disk["transaction.json"] \in Contents \cup {Absent} /\ "transaction.json" \in Indexable
      BY PathFacts DEF Typed, DiskTypeOK, Documents
    <3>3. CASE disk["transaction.json"] = Torn
      BY <2>1, <3>3, ReturnTyped DEF LoadTransaction, Typed, DiskTypeOK
    <3>4. CASE disk["transaction.json"] # Torn
      <4> DEFINE l == [proc[p] EXCEPT !.gathered["transaction.json"] = disk["transaction.json"]]
      <4>1. l \in Locals /\ l.job = proc[p].job
        BY <3>1 DEF Typed, Locals, Indexes
      <4>2. proc' = [proc EXCEPT ![p] = l]
        BY <2>1, <3>4 DEF LoadTransaction, Typed, Locals
      <4> HIDE DEF l
      <4> QED BY <2>1, <3>4, <4>1, <4>2 DEF LoadTransaction, Typed, DiskTypeOK, Labels
    <3> QED BY <3>3, <3>4
  <2>2. CASE LoadAccount(p)
    <3>0. PICK f \in proc[p].todo :
          IF disk[f] = Torn THEN Return(p)
          ELSE /\ proc' = [proc EXCEPT ![p].todo = @ \ {f}, ![p].gathered[f] = disk[f]]
               /\ UNCHANGED pc
      BY <2>2 DEF LoadAccount
    <3>1. disk[f] \in Contents \cup {Absent}
      BY DEF Typed, Locals, DiskTypeOK
    <3>2. CASE disk[f] = Torn
      BY <2>2, <3>0, <3>2, ReturnTyped DEF LoadAccount, Typed, DiskTypeOK
    <3>3. CASE disk[f] # Torn
      <4>1. /\ proc' = [proc EXCEPT ![p].todo = @ \ {f}, ![p].gathered[f] = disk[f]]
            /\ UNCHANGED <<disk, pc, started>>
        BY <2>2, <3>0, <3>3 DEF LoadAccount
      <4> DEFINE l == [proc[p] EXCEPT !.todo = @ \ {f}, !.gathered[f] = disk[f]]
      <4>2. l \in Locals /\ l.job = proc[p].job /\ l.judged = proc[p].judged
        BY <3>1 DEF Typed, Locals, Indexes
      <4>3. proc' = [proc EXCEPT ![p] = l]
        BY <4>1 DEF Typed, Locals
      <4> HIDE DEF l
      <4> QED BY <4>1, <4>2, <4>3 DEF Typed, DiskTypeOK
    <3> QED BY <3>2, <3>3
  <2>3. CASE OpenOutput(p)
    <3>1. DiskTypeOK'
      BY <2>0, <2>3, OutFacts, WriteTyped DEF OpenOutput, Typed
    <3> QED BY <2>0, <2>3, <3>1 DEF OpenOutput, Typed, Labels
  <2>4. CASE EmitReplay(p)
    <3>1. Replay(proc[p].gathered) \in Reports
      BY DEF Replay, Reports, Typed, Locals
    <3>2. DiskTypeOK'
      BY <2>0, <2>4, <3>1, OutFacts, WriteTyped DEF EmitReplay, Typed
    <3>3. CompareNext(p) /\ UNCHANGED started
      BY <2>4 DEF EmitReplay
    <3> QED BY <2>0, <3>2, <3>3, CompareNextTyped
  <2>5. CASE ListAccounts(p)
    <3> DEFINE inputs == {f \in AccountFiles : disk[f] # Absent}
               l == [proc[p] EXCEPT !.todo = inputs]
    <3>1. inputs \subseteq Fixtures
      BY DEF Fixtures
    <3>2. l \in Locals /\ l.job = proc[p].job
      <4> HIDE DEF inputs
      <4> QED BY <3>1 DEF Typed, Locals
    <3>3. proc' = [proc EXCEPT ![p] = l]
      BY <2>5 DEF ListAccounts, Typed, Locals
    <3> HIDE DEF l
    <3> QED BY <2>5, <3>2, <3>3 DEF ListAccounts, Typed, DiskTypeOK, Labels
  <2> QED BY <1>5, <2>1, <2>2, <2>3, <2>4, <2>5 DEF BackendStep
<1>6. ASSUME NEW p \in Processes, JudgeStep(p) PROVE Typed'
  <2>0. ~ReportPass(p) => proc[p].job \in Commands
    BY <1>6 DEF JudgeStep, GateReplay, RefuseReplay, CompareReplay, WriteComparison, ChooseReplay,
         Accept, Typed
  <2>1. CASE GateReplay(p)
    <3>1. CASE Replayable(proc[p].seen)
      BY <2>1, <3>1 DEF GateReplay, ReportPass, Typed, DiskTypeOK, Labels
    <3>2. CASE ~Replayable(proc[p].seen)
      <4>1. DiskTypeOK'
        BY <2>0, <2>1, <3>2, OutFacts, WriteTyped DEF GateReplay, ReportPass, Typed
      <4> QED BY <2>1, <3>2, <4>1 DEF GateReplay, Typed, Labels
    <3> QED BY <3>1, <3>2
  <2>2. CASE RefuseReplay(p)
    <3>1. Refusal \in Reports
      BY DEF Refusal, Reports
    <3>2. DiskTypeOK'
      BY <2>0, <2>2, <3>1, OutFacts, WriteTyped DEF RefuseReplay, ReportPass, Typed
    <3>3. proc[p].job \in Commands
      BY <2>0, <2>2 DEF RefuseReplay, ReportPass
    <3>4. UNCHANGED started /\ (Return(p) \/ CompareNext(p))
      BY <2>2 DEF RefuseReplay
    <3> QED BY <3>2, <3>3, <3>4, ReturnTyped, CompareNextTyped
  <2>3. CASE CompareReplay(p)
    <3> DEFINE content == disk[proc[p].job.replayFile]
               statuses == StatusesOf(content, proc[p].seen)
    <3>1. proc[p].job \in Commands
      BY <2>0, <2>3 DEF CompareReplay, ReportPass
    <3>2. content \in Reports \cup {Absent, Torn}
      BY <3>1 DEF Commands, Outputs, Typed, DiskTypeOK
    <3>3. CASE Return(p) /\ UNCHANGED <<disk, started>>
      BY <3>3, ReturnTyped DEF Typed, DiskTypeOK
    <3>4. CASE \E s \in statuses :
              /\ proc' = [proc EXCEPT ![p].judged = [replay |-> content, status |-> s]]
              /\ disk' = [disk EXCEPT ![CompareOut(proc[p].job)] = Torn]
              /\ Goto(p, "report")
              /\ UNCHANGED started
      <4> PICK s \in statuses :
              /\ proc' = [proc EXCEPT ![p].judged = [replay |-> content, status |-> s]]
              /\ disk' = [disk EXCEPT ![CompareOut(proc[p].job)] = Torn]
              /\ Goto(p, "report")
              /\ UNCHANGED started
        BY <3>4
      <4>1. content \in Reports /\ s \in Fidelity
        <5>1. statuses \subseteq Fidelity
          BY DEF StatusesOf, Classified, Fidelity, Measured
        <5> QED BY <3>2, <5>1 DEF StatusesOf
      <4>2. [replay |-> content, status |-> s] \in [replay : Reports, status : Fidelity]
        BY <4>1
      <4>3. DiskTypeOK'
        BY <3>1, OutFacts, WriteTyped DEF Typed
      <4>4. [replay |-> content, status |-> s] # None
        BY ContentAssumption, <4>2
      <4> DEFINE judged == [replay |-> content, status |-> s]
                 l == [proc[p] EXCEPT !.judged = judged]
      <4>5. l \in Locals /\ l.job = proc[p].job /\ l.judged # None
        <5> HIDE DEF judged
        <5> QED BY <4>2, <4>4 DEF judged, Typed, Locals
      <4>6. proc' = [proc EXCEPT ![p] = l] /\ pc' = [pc EXCEPT ![p] = "report"] /\ UNCHANGED started
        BY DEF Typed, Locals
      <4> HIDE DEF content, statuses, l
      <4> QED BY ZenonT(60), <3>1, <4>3, <4>5, <4>6 DEF Typed, Labels
    <3> QED BY <2>3, <3>3, <3>4 DEF CompareReplay
  <2>4. CASE WriteComparison(p)
    <3>1. proc[p].job \in Commands
      BY <2>0, <2>4 DEF WriteComparison, ReportPass
    <3>2. Comparison(proc[p].judged.status) \in Reports
      BY <2>4 DEF WriteComparison, Comparison, Reports, Typed, Locals
    <3>3. DiskTypeOK'
      BY <2>4, <3>1, <3>2, OutFacts, WriteTyped DEF WriteComparison, Typed
    <3>4. CASE proc[p].job.command = "assert"
      <4>1. Goto(p, "accept") /\ UNCHANGED <<proc, started>> /\ pc[p] = "report"
        BY <2>4, <3>4 DEF WriteComparison
      <4> QED BY <3>1, <3>3, <4>1 DEF Typed, Labels
    <3>5. CASE proc[p].job.command # "assert"
      BY <2>4, <3>3, <3>5, ReturnTyped DEF WriteComparison
    <3> QED BY <3>4, <3>5
  <2>5. CASE ChooseReplay(p)
    BY <2>0, <2>5 DEF ChooseReplay, ReportPass, Typed, DiskTypeOK, Locals, Labels
  <2>6. CASE Accept(p)
    <3>1. DiskTypeOK'
      BY <2>6 DEF Accept, Typed, DiskTypeOK
    <3>2. CASE Return(p)
      BY <2>6, <3>1, <3>2, ReturnTyped DEF Accept
    <3>3. CASE Goto(p, "passed") /\ UNCHANGED proc
      BY <2>0, <2>6, <3>1, <3>3 DEF Accept, ReportPass, Typed, Labels
    <3> QED BY <2>6, <3>2, <3>3 DEF Accept
  <2>7. CASE ReportPass(p)
    BY <2>7, ReturnTyped DEF ReportPass, Typed, DiskTypeOK
  <2> QED BY <1>6, <2>1, <2>2, <2>3, <2>4, <2>5, <2>6, <2>7 DEF JudgeStep
<1>7. ASSUME NEW p \in Processes, BackendFails(p) PROVE Typed'
  BY <1>7, ReturnTyped DEF BackendFails, Typed, DiskTypeOK
<1>8. ASSUME NEW p \in Processes, Crash(p) PROVE Typed'
  BY <1>8, ReturnTyped DEF Crash, Typed, DiskTypeOK
<1> QED BY <1>1, <1>2, <1>3, <1>4, <1>5, <1>6, <1>7, <1>8 DEF Next, NodeStep

\* Every variable keeps its type.
THEOREM TypeCorrect == Spec => []TypeOK
<1>1. Typed => TypeOK
  BY DEF Typed
<1> QED BY <1>1, InitTyped, NextTyped, PTL DEF Spec

-----------------------------------------------------------------------------
(* Whole bundles.                                                          *)

WholeInv ==
    /\ Typed
    /\ OneBuilder
    /\ BuildProgress
    /\ HashProgress
    /\ ManifestCoversCapture

LEMMA InitWhole == Init => WholeInv
<1> SUFFICES ASSUME Init PROVE WholeInv
  OBVIOUS
<1>1. OneBuilder /\ BuildProgress /\ HashProgress
  BY DEF Init, OneBuilder, BuildProgress, HashProgress, Building, BuildPhases
<1>2. ManifestCoversCapture
  <2>1. CASE disk = [f \in Files |-> Absent]
    BY <2>1, PathFacts DEF ManifestCoversCapture
  <2>2. CASE \E c \in Captures, r \in Runtimes : disk = WholeBundle(c, r)
    <3> PICK c \in Captures, r \in Runtimes : disk = WholeBundle(c, r)
      BY <2>2
    <3>1. disk["manifest.json"] =
            Manifest(c, r, [g \in Indexable |-> IF g \in FilesOf(c) THEN Produces(g, c) ELSE Absent])
      BY PathFacts DEF WholeBundle
    <3> QED BY <3>1, FilesOfFacts, PathFacts DEF ManifestCoversCapture, Manifest
  <2> QED BY <2>1, <2>2 DEF Init
<1> QED BY <1>1, <1>2, InitTyped DEF WholeInv

\* A step that touches neither fixtures nor the manifest, and no build but
\* perhaps by ending it, keeps all of it.
LEMMA QuietStep ==
    ASSUME WholeInv, Typed',
           \A f \in Fixtures \cup {"manifest.json"} : disk'[f] = disk[f],
           \A q \in Processes : Building(q)' => pc'[q] = pc[q] /\ proc'[q] = proc[q]
    PROVE  WholeInv'
<1>1. OneBuilder'
  BY DEF WholeInv, OneBuilder, Building
<1>2. BuildProgress'
  <2> SUFFICES ASSUME NEW q \in Processes, Building(q)',
                      NEW f \in (FilesOf(proc[q].job.capture) \ Pending(q))'
               PROVE  disk'[f] = Produces(f, proc[q].job.capture)
    BY DEF BuildProgress
  <2>1. Building(q) /\ proc[q].job.capture \in Captures
    BY JobKinds DEF WholeInv, Typed, RunsItsJob, Building
  <2>2. f \in FilesOf(proc[q].job.capture) \ Pending(q)
    BY DEF Pending
  <2> QED BY <2>1, <2>2, FilesOfFacts DEF WholeInv, BuildProgress
<1>3. HashProgress'
  BY DEF WholeInv, HashProgress, Building, BuildPhases
<1>4. ManifestCoversCapture'
  BY DEF WholeInv, ManifestCoversCapture
<1> QED BY <1>1, <1>2, <1>3, <1>4 DEF WholeInv

\* Only a build writes fixtures or the manifest: the others write outputs.
LEMMA OthersAreQuiet ==
    ASSUME Typed, NEW p \in Processes,
           ValidateStep(p) \/ BackendStep(p) \/ JudgeStep(p) \/ BackendFails(p) \/ Crash(p)
    PROVE  /\ \A f \in Fixtures \cup {"manifest.json"} : disk'[f] = disk[f]
           /\ \A q \in Processes : Building(q)' => pc'[q] = pc[q] /\ proc'[q] = proc[q]
<1> USE DEF Typed, TypeOK, RunsItsJob, Building, BuildPhases, DiskTypeOK
<1>1. CASE ValidateStep(p)
  BY <1>1 DEF ValidateStep, ReadManifest, CheckFileSet, VerifyFile, ReadDocuments, AfterValidation
<1>2. CASE BackendStep(p)
  <2>1. proc[p].job \in Commands
    BY <1>2 DEF BackendStep, LoadTransaction, ListAccounts, LoadAccount, OpenOutput, EmitReplay
  <2>2. ReplayOut(proc[p].job) \notin Fixtures \cup {"manifest.json"}
    BY <2>1, OutFacts, PathFacts
  <2> QED BY ZenonT(60), <1>2, <2>2, PathFacts DEF BackendStep, LoadTransaction, ListAccounts, LoadAccount,
     OpenOutput, EmitReplay, CompareNext
<1>3. CASE JudgeStep(p)
  <2>1. CASE ReportPass(p)
    BY <2>1 DEF ReportPass
  <2>2. CASE ~ReportPass(p)
    <3>1. proc[p].job \in Commands
      BY <1>3, <2>2 DEF JudgeStep, GateReplay, RefuseReplay, CompareReplay, WriteComparison, ChooseReplay, Accept
    <3>2. /\ ReplayOut(proc[p].job) \notin Fixtures \cup {"manifest.json"}
          /\ CompareOut(proc[p].job) \notin Fixtures \cup {"manifest.json"}
      BY <3>1, OutFacts, PathFacts
    <3>3. CASE GateReplay(p)
      BY <3>2, <3>3, PathFacts DEF GateReplay
    <3>4. CASE RefuseReplay(p)
      BY <3>2, <3>4, PathFacts DEF RefuseReplay, CompareNext
    <3>5. CASE CompareReplay(p)
      BY <3>2, <3>5, PathFacts DEF CompareReplay
    <3>6. CASE WriteComparison(p)
      BY <3>2, <3>6, PathFacts DEF WriteComparison
    <3>7. CASE ChooseReplay(p) \/ Accept(p)
      BY <3>7 DEF ChooseReplay, Accept
    <3> QED BY <1>3, <2>2, <3>3, <3>4, <3>5, <3>6, <3>7 DEF JudgeStep
  <2> QED BY <2>1, <2>2
<1>4. CASE BackendFails(p) \/ Crash(p)
  BY <1>4 DEF BackendFails, Crash
<1> QED BY <1>1, <1>2, <1>3, <1>4

LEMMA StartKeepsWhole ==
    ASSUME Exclusion # "none", WholeInv, Typed',
           NEW p \in Processes, NEW j \in Jobs, StartCommand(p, j)
    PROVE  WholeInv'
<1>1. j \in UserJobs /\ UNCHANGED disk
  BY DataAssumption DEF StartCommand
<1>2. CASE j.command # "bundle"
  <2>1. \A q \in Processes : Building(q)' => pc'[q] = pc[q] /\ proc'[q] = proc[q]
    BY <1>2 DEF StartCommand, Building, BuildPhases, WholeInv, Typed, TypeOK
  <2> QED BY <1>1, <2>1, QuietStep
<1>3. CASE j.command = "bundle"
  <2>1. j.capture \in Captures
    BY <1>1, <1>3, JobKinds
  <2>2. \A q \in Processes : ~Building(q)
    BY <1>3, DataAssumption DEF StartCommand, MayStart, Building, BuildPhases
  <2>3. /\ pc' = [pc EXCEPT ![p] = "accounts"]
        /\ proc' = [proc EXCEPT ![p].job = j, ![p].todo = AccountsOf[j.capture]]
    BY <1>3 DEF StartCommand
  <2>4. /\ pc'[p] = "accounts"
        /\ proc'[p].job = j
        /\ proc'[p].todo = AccountsOf[j.capture]
        /\ \A q \in Processes : q # p => pc'[q] = pc[q] /\ proc'[q] = proc[q]
    BY <2>3 DEF WholeInv, Typed, TypeOK, Locals
  <2>5. \A q \in Processes : Building(q)' => q = p
    BY <2>2, <2>4 DEF Building
  <2>6. OneBuilder'
    BY <2>5 DEF OneBuilder
  <2>7. BuildProgress'
    <3>1. Pending(p)' = AccountsOf[j.capture] \cup proc'[p].open \cup
                          (ProgramsOf[j.capture] \cup Documents \cup {"README.md"})
      BY <2>4 DEF Pending, Later
    <3>2. FilesOf(j.capture) \subseteq Pending(p)'
      BY <3>1 DEF FilesOf
    <3> QED BY <2>4, <2>5, <3>2 DEF BuildProgress
  <2>8. HashProgress'
    BY <2>2, <2>4 DEF HashProgress, Building, BuildPhases
  <2>9. ManifestCoversCapture'
    BY <1>1 DEF WholeInv, ManifestCoversCapture
  <2> QED BY <2>6, <2>7, <2>8, <2>9 DEF WholeInv
<1> QED BY <1>2, <1>3

LEMMA BuildKeepsWhole ==
    ASSUME WholeInv, Typed', NEW p \in Processes, BuildStep(p)
    PROVE  WholeInv'
<1> USE DEF WholeInv, Typed, TypeOK
<1> DEFINE c == proc[p].job.capture
<1>1. Building(p) /\ proc[p].job \in Builds /\ c \in Captures
  BY JobKinds DEF BuildStep, OpenFile, WriteFile, EndPhase, WalkBundle, HashFile, OpenManifest,
     WriteManifest, RunsItsJob, Building, BuildPhases
<1>2. \A q \in Processes : q # p => ~Building(q) /\ pc'[q] = pc[q] /\ proc'[q] = proc[q]
  <2>1. \A q \in Processes : q # p => ~Building(q)
    BY <1>1 DEF OneBuilder
  <2>2. \A q \in Processes : q # p => pc'[q] = pc[q] /\ proc'[q] = proc[q]
    BY DEF BuildStep, OpenFile, WriteFile, EndPhase, WalkBundle, HashFile, OpenManifest, WriteManifest
  <2> QED BY <2>1, <2>2
<1>3. OneBuilder' /\ \A q \in Processes : Building(q)' => q = p
  BY <1>2 DEF OneBuilder, Building
<1>4. /\ FilesOf(c) \subseteq Fixtures
      /\ \A f \in FilesOf(c) \ Pending(p) : disk[f] = Produces(f, c)
  BY <1>1, FilesOfFacts DEF BuildProgress
\* It is enough to look at p, whose capture stays the same while it builds.
<1>5. SUFFICES ASSUME Building(p)' => proc'[p].job = proc[p].job
               PROVE  /\ proc'[p].job = proc[p].job \/ ~Building(p)'
                      /\ Building(p)' => \A f \in FilesOf(c) \ Pending(p)' : disk'[f] = Produces(f, c)
                      /\ pc'[p] \in {"hash", "publish"} => \A f \in FilesOf(c) :
                            \/ pc'[p] = "hash" /\ f \in proc'[p].todo
                            \/ proc'[p].gathered[f] = Produces(f, c)
                      /\ ManifestCoversCapture'
  <2>1. Building(p)' => proc'[p].job = proc[p].job
    <3>1. CASE OpenFile(p)
      BY <3>1 DEF OpenFile, Locals
    <3>2. CASE WriteFile(p)
      BY <3>2 DEF WriteFile, Locals
    <3>3. CASE EndPhase(p)
      BY <3>3 DEF EndPhase, Locals
    <3>4. CASE WalkBundle(p) \/ HashFile(p) \/ OpenManifest(p)
      BY ZenonT(60), <3>4 DEF WalkBundle, HashFile, OpenManifest, Locals
    <3>5. CASE WriteManifest(p)
      BY <3>5 DEF WriteManifest, Return, Building, BuildPhases
    <3> QED BY <3>1, <3>2, <3>3, <3>4, <3>5 DEF BuildStep
  <2> HIDE DEF BuildPhases
  <2> QED BY <1>2, <1>3, <2>1 DEF BuildProgress, HashProgress, Building, BuildPhases
<1>6. CASE OpenFile(p)
  <2> PICK f \in proc[p].todo :
        /\ disk' = [disk EXCEPT ![f] = Torn]
        /\ proc' = [proc EXCEPT ![p].todo = @ \ {f}, ![p].open = @ \cup {f}]
    BY <1>6 DEF OpenFile
  <2>1. f \in Fixtures /\ pc' = pc
    BY <1>6 DEF OpenFile, Locals
  <2>2. Pending(p)' = Pending(p) /\ f \in Pending(p)
    <3>1. proc'[p].todo = proc[p].todo \ {f} /\ proc'[p].open = proc[p].open \cup {f}
      BY DEF Locals
    <3>2. proc'[p].todo \cup proc'[p].open = proc[p].todo \cup proc[p].open
      BY <3>1
    <3>3. proc'[p].job = proc[p].job
      BY DEF Locals
    <3> QED BY <1>6, <2>1, <3>2, <3>3 DEF Pending, OpenFile
  <2>3. ManifestCoversCapture'
    BY <2>1, PathFacts DEF ManifestCoversCapture
  <2> QED BY <1>4, <1>5, <1>6, <2>1, <2>2, <2>3 DEF OpenFile, Building, BuildPhases
<1>7. CASE WriteFile(p)
  <2> PICK f \in proc[p].open :
        /\ disk' = [disk EXCEPT ![f] = Produces(f, c)]
        /\ proc' = [proc EXCEPT ![p].open = @ \ {f}]
    BY <1>7 DEF WriteFile
  <2>1. f \in Fixtures /\ pc' = pc
    BY <1>7 DEF WriteFile, Locals
  <2>2. Pending(p) \ {f} \subseteq Pending(p)'
    <3>1. proc'[p].todo = proc[p].todo /\ proc'[p].open = proc[p].open \ {f}
      BY DEF Locals
    <3>2. proc'[p].job = proc[p].job
      BY DEF Locals
    <3> QED BY <1>7, <2>1, <3>1, <3>2 DEF Pending, WriteFile
  <2>3. ManifestCoversCapture'
    BY <2>1, PathFacts DEF ManifestCoversCapture
  <2>4. \A g \in FilesOf(c) \ Pending(p)' : disk'[g] = Produces(g, c)
    BY <1>4, <2>1, <2>2, PathFacts DEF DiskTypeOK
  <2> QED BY <1>5, <1>7, <2>1, <2>3, <2>4 DEF WriteFile
<1>8. CASE EndPhase(p)
  <2>1. /\ pc'[p] = NextPhase(pc[p])
        /\ proc'[p].job = proc[p].job
        /\ proc'[p].todo = PhaseFiles(NextPhase(pc[p]), c)
        /\ proc'[p].open = {}
        /\ UNCHANGED disk
    BY <1>8 DEF EndPhase, Locals
  <2>2. Pending(p) = Later(pc[p], c)
    BY <1>8 DEF EndPhase, Pending
  <2>3. Pending(p) \subseteq Pending(p)'
    BY <1>8, <2>1, <2>2 DEF EndPhase, Pending, Later, PhaseFiles, NextPhase
  <2>4. NextPhase(pc[p]) \notin {"hash", "publish"}
    BY <1>8 DEF EndPhase, NextPhase
  <2> QED BY <1>4, <1>5, <2>1, <2>3, <2>4 DEF ManifestCoversCapture
<1>9. CASE WalkBundle(p)
  <2>1. /\ pc'[p] = "hash"
        /\ proc'[p].todo = Present
        /\ proc'[p].job = proc[p].job
        /\ UNCHANGED disk
    BY <1>9 DEF WalkBundle, Locals
  <2>2. \A f \in FilesOf(c) : disk[f] = Produces(f, c)
    BY <1>4, <1>9 DEF WalkBundle, Pending
  <2>3. FilesOf(c) \subseteq Present
    BY <1>1, <1>4, <2>2, FilesOfFacts, ContentFacts, PathFacts DEF Present
  <2> QED BY <1>5, <2>1, <2>2, <2>3 DEF ManifestCoversCapture
<1>10. CASE HashFile(p)
  <2> PICK f \in proc[p].todo :
        proc' = [proc EXCEPT ![p].todo = @ \ {f}, ![p].gathered[f] = disk[f]]
    BY <1>10 DEF HashFile
  <2>1. UNCHANGED <<disk, pc>> /\ pc[p] = "hash"
    BY <1>10 DEF HashFile
  <2>2. \A g \in FilesOf(c) : disk[g] = Produces(g, c)
    BY <1>4, <2>1 DEF Pending
  <2>3. /\ proc'[p].job = proc[p].job
        /\ proc'[p].todo = proc[p].todo \ {f}
        /\ proc'[p].gathered = [proc[p].gathered EXCEPT ![f] = disk[f]]
        /\ DOMAIN proc[p].gathered = Indexable
    BY DEF Locals, Indexes
  <2>4. \A g \in FilesOf(c) : g \in proc'[p].todo \/ proc'[p].gathered[g] = Produces(g, c)
    BY <1>4, <2>1, <2>2, <2>3, PathFacts DEF HashProgress
  <2> QED BY <1>5, <2>1, <2>2, <2>4 DEF ManifestCoversCapture
<1>11. CASE OpenManifest(p)
  <2>1. /\ disk' = [disk EXCEPT !["manifest.json"] = Torn]
        /\ pc[p] = "hash" /\ pc'[p] = "publish" /\ proc' = proc /\ proc[p].todo = {}
    BY <1>11 DEF OpenManifest
  <2>2. disk'["manifest.json"] = Torn
    BY <2>1, PathFacts DEF DiskTypeOK
  <2>3. \A f \in FilesOf(c) : disk'[f] = Produces(f, c)
    BY <1>4, <2>1, PathFacts DEF Pending
  <2>4. \A f \in FilesOf(c) : proc[p].gathered[f] = Produces(f, c)
    BY <2>1 DEF HashProgress
  <2> QED BY <1>5, <2>1, <2>2, <2>3, <2>4 DEF ManifestCoversCapture
<1>12. CASE WriteManifest(p)
  <2>1. /\ pc[p] = "publish" /\ pc'[p] = "idle"
        /\ disk'["manifest.json"] = Manifest(c, PinnedRuntime, proc[p].gathered)
    BY <1>12, PathFacts DEF WriteManifest, DiskTypeOK
  <2>2. \A f \in FilesOf(c) : proc[p].gathered[f] = Produces(f, c)
    BY <2>1 DEF HashProgress
  <2>3. ManifestCoversCapture'
    BY <2>1, <2>2 DEF ManifestCoversCapture, Manifest
  <2> QED BY <1>5, <2>1, <2>3 DEF Building, BuildPhases
<1> QED BY <1>6, <1>7, <1>8, <1>9, <1>10, <1>11, <1>12 DEF BuildStep

LEMMA NextWhole == Exclusion # "none" /\ WholeInv /\ [Next]_vars => WholeInv'
<1> SUFFICES ASSUME Exclusion # "none", WholeInv, [Next]_vars PROVE WholeInv'
  OBVIOUS
<1>1. Typed /\ Typed'
  BY NextTyped DEF WholeInv
<1>2. CASE UNCHANGED vars
  BY <1>1, <1>2, QuietStep DEF vars
<1>3. ASSUME NEW p \in Processes, NEW j \in Jobs, StartCommand(p, j) PROVE WholeInv'
  BY <1>1, <1>3, StartKeepsWhole
<1>4. ASSUME NEW p \in Processes, BuildStep(p) PROVE WholeInv'
  BY <1>1, <1>4, BuildKeepsWhole
<1>5. ASSUME NEW p \in Processes,
             ValidateStep(p) \/ BackendStep(p) \/ JudgeStep(p) \/ BackendFails(p) \/ Crash(p)
      PROVE  WholeInv'
  <2>1. /\ \A f \in Fixtures \cup {"manifest.json"} : disk'[f] = disk[f]
        /\ \A q \in Processes : Building(q)' => pc'[q] = pc[q] /\ proc'[q] = proc[q]
    BY <1>1, <1>5, OthersAreQuiet
  <2> QED BY <1>1, <2>1, QuietStep
<1> QED BY <1>2, <1>3, <1>4, <1>5 DEF Next, NodeStep

LEMMA WholeIfValid == WholeInv => ValidBundleIsWhole
<1> SUFFICES ASSUME WholeInv, Valid, NEW f \in FilesOf(disk["manifest.json"].capture)
             PROVE  disk[f] = Produces(f, disk["manifest.json"].capture)
  BY DEF ValidBundleIsWhole
<1> DEFINE m == disk["manifest.json"]
<1>1. m \in Manifests /\ m \notin {Absent, Torn}
  BY DEF WholeInv, Typed, TypeOK, DiskTypeOK, Valid, ManifestReadable, Required
<1>2. m.capture \in Captures
  BY <1>1 DEF Manifests
<1>3. m.index[f] = Produces(f, m.capture)
  BY <1>1 DEF WholeInv, ManifestCoversCapture
<1>4. f \in Indexed(m)
  BY <1>2, <1>3, FilesOfFacts, ContentFacts, PathFacts DEF Indexed
<1> QED BY <1>3, <1>4 DEF Valid

\* As long as two builds do not overlap, a bundle that validates is whole.
THEOREM ValidMeansWhole ==
    ASSUME Exclusion # "none"
    PROVE  Spec => []ValidBundleIsWhole
<1>1. Exclusion # "none"
  OBVIOUS
<1> QED BY <1>1, WholeIfValid, InitWhole, NextWhole, PTL DEF Spec
=============================================================================
