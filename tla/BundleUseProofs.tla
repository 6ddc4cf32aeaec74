--------------------------- MODULE BundleUseProofs ---------------------------
(***************************************************************************)
(* Proofs about the commands that use a bundle: what a pass of assert      *)
(* means however commands and builds overlap, and what a validation and a  *)
(* replay are worth while builds are kept apart from the other commands.   *)
(***************************************************************************)
EXTENDS BundleProofs

USE DEF Goto, Return

-----------------------------------------------------------------------------
(* The inductive invariants.                                               *)

\* A command that has read the manifest, and one that has validated the
\* bundle and acts on it.
Trusting(p) ==
    pc[p] \in {"gate", "refuse", "transaction", "listing", "load", "emit", "compare", "report",
               "choose", "accept", "passed"}

Holding(p) == Trusting(p) \/ pc[p] \in {"files", "verify"}

Running(p) == Holding(p) \/ pc[p] = "manifest"

BuildsAlone ==
    \A p, q \in Processes : Building(p) /\ q # p => pc[q] = "idle"

SeenIsCurrent ==
    \A p \in Processes : Holding(p) =>
        ManifestReadable /\ proc[p].seen = disk["manifest.json"]

VerifiedSoFar ==
    \A p \in Processes : pc[p] = "verify" =>
        /\ Present = Indexed(proc[p].seen)
        /\ \A f \in Present : f \in proc[p].todo \/ disk[f] = proc[p].seen.index[f]

TrustedIsValid == \A p \in Processes : Trusting(p) => Valid

\* A replay has passed the gate and loads what its manifest's capture recorded.
Replaying ==
    \A p \in Processes : pc[p] \in {"transaction", "listing", "load", "emit"} =>
        Replayable(proc[p].seen)

LoadedSoFar ==
    \A p \in Processes : pc[p] \in {"listing", "load", "emit"} =>
        LET c == proc[p].seen.capture
        IN  /\ proc[p].gathered["transaction.json"] = SignatureOf[c]
            /\ \A f \in AccountsOf[c] :
                 \/ pc[p] = "listing"
                 \/ pc[p] = "load" /\ f \in proc[p].todo
                 \/ proc[p].gathered[f] = Produces(f, c)

\* assertBundle after its own validation.
Settled(p) ==
    /\ Running(p)
    /\ proc[p].job.command = "assert"
    /\ pc[p] = "choose" \/ proc[p].routine \in {"replay", "compare"}

DiskIsPinned ==
    \/ disk["manifest.json"] \in {Absent, Torn}
    \/ disk["manifest.json"].runtime = PinnedRuntime

\* A manifest with the pinned runtime is only ever replaced by another one.
PinStays ==
    \A p \in Processes :
        /\ (pc[p] \in {"files", "verify"} /\ proc[p].seen.runtime = PinnedRuntime) => DiskIsPinned
        /\ Settled(p) => proc[p].seen.runtime = PinnedRuntime /\ DiskIsPinned

\* The commands each step belongs to, and what a comparison was accepted for.
Stages ==
    \A p \in Processes :
        /\ pc[p] \in {"choose", "accept", "passed"} => proc[p].job.command = "assert"
        /\ pc[p] \in {"compare", "report", "accept", "passed"} => proc[p].routine = "compare"
        /\ pc[p] \in {"gate", "refuse", "transaction", "listing", "load", "emit"} => proc[p].routine = "replay"
        /\ pc[p] = "choose" => proc[p].routine = "assert"
        /\ (Running(p) /\ proc[p].routine = "assert") => proc[p].job.command = "assert"

AcceptedIsEligible ==
    \A p \in Processes :
        (/\ pc[p] \in {"report", "accept", "passed"}
         /\ pc[p] = "passed" \/ proc[p].judged.status \in Accepted) =>
            Eligible(proc[p].seen) /\ proc[p].judged.replay.kind = "replay"

\* Once assert --fresh has run its replay, replay.json is a replay of this
\* bundle or none at all, whoever else writes it.
ComparesFresh(p) ==
    /\ Running(p)
    /\ proc[p].job.command = "assert"
    /\ proc[p].job.fresh
    /\ proc[p].job.out = Default
    /\ proc[p].routine = "compare"

RanThis(content) ==
    content \in {Absent, Torn} \/
        (content.kind = "replay" => RanCapture(content.inputs, disk["manifest.json"].capture))

FreshIsCurrent ==
    \A p \in Processes : ComparesFresh(p) =>
        /\ proc[p].job.replayFile = "replay.json"
        /\ RanThis(disk["replay.json"])
        /\ pc[p] \in {"report", "accept", "passed"} => RanThis(proc[p].judged.replay)

\* What a comparison judged is an eligible run, whatever has happened to the
\* file since.
RanEligible(content) ==
    content.kind = "replay" =>
        \E c \in Captures : EligibilityOf[c] = "SUPPORTED" /\ RanCapture(content.inputs, c)

JudgedIsEligible ==
    \A p \in Processes : pc[p] \in {"report", "accept", "passed"} =>
        RanEligible(proc[p].judged.replay)

\* The hashes a build took are those of what is on disk.
HashesMatchDisk ==
    \A p \in Processes : Building(p) =>
        \A f \in Indexable :
            IF pc[p] \in {"hash", "publish"}
            THEN (pc[p] = "hash" /\ f \in proc[p].todo) \/ proc[p].gathered[f] = disk[f]
            ELSE proc[p].gathered[f] = Absent

-----------------------------------------------------------------------------
(* Steps.                                                                  *)

\* Anything a process does but begin a command.
Act(p) == NodeStep(p) \/ BackendStep(p) \/ BackendFails(p) \/ Crash(p)

LEMMA NextCases ==
    ASSUME [Next]_vars
    PROVE  \/ UNCHANGED vars
           \/ \E p \in Processes, j \in Jobs : StartCommand(p, j)
           \/ \E p \in Processes : Act(p)
BY DEF Next, Act

\* A process changes its own control point and locals only.
LEMMA OthersKeep ==
    ASSUME Typed, NEW p \in Processes, Act(p) \/ \E j \in Jobs : StartCommand(p, j)
    PROVE  \A q \in Processes : q # p => pc'[q] = pc[q] /\ proc'[q] = proc[q]
<1> USE DEF Typed, TypeOK
<1>1. CASE \E j \in Jobs : StartCommand(p, j)
  BY <1>1 DEF StartCommand
<1>2. CASE BuildStep(p) \/ ValidateStep(p)
  BY <1>2 DEF BuildStep, ValidateStep, OpenFile, WriteFile, EndPhase, WalkBundle, HashFile, OpenManifest,
     WriteManifest, ReadManifest, CheckFileSet, VerifyFile, ReadDocuments
<1>3. CASE BackendStep(p) \/ BackendFails(p) \/ Crash(p)
  BY <1>3 DEF BackendStep, LoadTransaction, ListAccounts, LoadAccount, OpenOutput, EmitReplay,
     BackendFails, Crash, CompareNext
<1>4. CASE JudgeStep(p)
  BY <1>4 DEF JudgeStep, GateReplay, RefuseReplay, CompareReplay, WriteComparison, ChooseReplay, Accept,
     ReportPass, CompareNext
<1> QED BY <1>1, <1>2, <1>3, <1>4 DEF Act, NodeStep

-----------------------------------------------------------------------------
(* What a pass means, however commands and builds overlap.                 *)

PassInv == Typed /\ PinStays /\ Stages /\ AcceptedIsEligible

\* Builds publish manifests with the pinned runtime, and only builds publish.
LEMMA PinnedDiskStays ==
    ASSUME Typed, DiskIsPinned, NEW p \in Processes, Act(p) \/ \E j \in Jobs : StartCommand(p, j)
    PROVE  DiskIsPinned'
<1> USE DEF Typed, TypeOK, DiskTypeOK, DiskIsPinned
<1>1. CASE \E j \in Jobs : StartCommand(p, j)
  BY <1>1 DEF StartCommand
<1>2. CASE OpenFile(p) \/ WriteFile(p)
  <2> PICK f \in Fixtures : \E v : disk' = [disk EXCEPT ![f] = v]
    BY <1>2 DEF OpenFile, WriteFile, Locals
  <2> QED BY PathFacts
<1>3. CASE EndPhase(p) \/ WalkBundle(p) \/ HashFile(p)
  BY <1>3 DEF EndPhase, WalkBundle, HashFile
<1>4. CASE OpenManifest(p)
  BY <1>4, PathFacts DEF OpenManifest
<1>5. CASE WriteManifest(p)
  BY <1>5, PathFacts DEF WriteManifest, Manifest
<1>6. CASE ValidateStep(p) \/ BackendStep(p) \/ JudgeStep(p) \/ BackendFails(p) \/ Crash(p)
  BY <1>6, OthersAreQuiet
<1> QED BY <1>1, <1>2, <1>3, <1>4, <1>5, <1>6 DEF Act, NodeStep, BuildStep

\* replayBundle returns to a command that compares next.
LEMMA HandOver ==
    ASSUME Typed, NEW p \in Processes, CompareNext(p), proc[p].job \in Commands
    PROVE  /\ pc'[p] = "manifest"
           /\ proc'[p].routine = "compare"
           /\ proc'[p].seen = proc[p].seen
           /\ proc'[p].job.command = proc[p].job.command
           /\ proc'[p].job.fresh = proc[p].job.fresh
           /\ proc'[p].job.out = proc[p].job.out
           /\ proc[p].job.command = "assert" => proc'[p].job.replayFile = "replay.json"
<1>1. pc'[p] = "manifest"
  BY DEF CompareNext, Typed, TypeOK
<1> DEFINE job == [proc[p].job EXCEPT !.replayFile =
                     IF proc[p].job.command = "assert" THEN "replay.json" ELSE @]
           l == [proc[p] EXCEPT !.routine = "compare", !.gathered = Blank, !.job = job]
<1>2. proc'[p] = l
  BY DEF CompareNext, Typed, TypeOK, Locals
<1>3. /\ job.command = proc[p].job.command /\ job.fresh = proc[p].job.fresh
      /\ job.out = proc[p].job.out
      /\ proc[p].job.command = "assert" => job.replayFile = "replay.json"
  BY DEF Commands
<1>4. l.routine = "compare" /\ l.seen = proc[p].seen /\ l.job = job
  <2> HIDE DEF job
  <2> QED BY DEF Typed, TypeOK, Locals
<1> HIDE DEF job, l
<1> QED BY <1>1, <1>2, <1>3, <1>4

\* What one step does to the process that takes it.
LEMMA PassStep ==
    ASSUME PassInv, Typed', NEW p \in Processes, Act(p) \/ \E j \in Jobs : StartCommand(p, j)
    PROVE  /\ (pc'[p] \in {"files", "verify"} /\ proc'[p].seen.runtime = PinnedRuntime) => DiskIsPinned'
           /\ Settled(p)' => proc'[p].seen.runtime = PinnedRuntime /\ DiskIsPinned'
           /\ pc'[p] \in {"choose", "accept", "passed"} => proc'[p].job.command = "assert"
           /\ pc'[p] \in {"compare", "report", "accept", "passed"} => proc'[p].routine = "compare"
           /\ pc'[p] \in {"gate", "refuse", "transaction", "listing", "load", "emit"} => proc'[p].routine = "replay"
           /\ pc'[p] = "choose" => proc'[p].routine = "assert"
           /\ (Running(p)' /\ proc'[p].routine = "assert") => proc'[p].job.command = "assert"
           /\ (/\ pc'[p] \in {"report", "accept", "passed"}
               /\ pc'[p] = "passed" \/ proc'[p].judged.status \in Accepted) =>
                 Eligible(proc'[p].seen) /\ proc'[p].judged.replay.kind = "replay"
<1> USE DEF PassInv, Typed, TypeOK, PinStays, Stages, AcceptedIsEligible, Settled, Running, Holding, Trusting
<1>0. DiskIsPinned => DiskIsPinned'
  BY PinnedDiskStays
<1>1. CASE \E j \in Jobs : StartCommand(p, j)
  <2> PICK j \in Jobs : StartCommand(p, j)
    BY <1>1
  <2>1. CASE j.command = "bundle"
    BY <2>1 DEF StartCommand
  <2>2. CASE j.command # "bundle"
    <3>1. j \in Commands
      BY <2>2, DataAssumption, JobKinds
    <3>2. pc'[p] = "manifest" /\ proc'[p].job = j /\ proc'[p].routine = FirstRoutine(j)
      BY <2>2 DEF StartCommand, Locals
    <3>3. j.command = "assert" => FirstRoutine(j) = "assert"
      BY DEF FirstRoutine
    <3>4. FirstRoutine(j) = "assert" => j.command = "assert"
      BY DEF FirstRoutine
    <3> QED BY <3>2, <3>3, <3>4
  <2> QED BY <2>1, <2>2
<1>2. CASE BuildStep(p)
  <2>1. CASE EndPhase(p)
    BY <2>1 DEF EndPhase, NextPhase
  <2>2. CASE OpenFile(p) \/ WriteFile(p) \/ WalkBundle(p) \/ HashFile(p) \/ OpenManifest(p) \/ WriteManifest(p)
    BY <2>2 DEF OpenFile, WriteFile, WalkBundle, HashFile, OpenManifest, WriteManifest
  <2> QED BY <1>2, <2>1, <2>2 DEF BuildStep
<1>3. CASE pc'[p] = "idle"
  BY <1>3
<1>4. CASE ValidateStep(p) /\ pc'[p] # "idle"
  <2>1. CASE ReadManifest(p)
    <3>1. /\ pc'[p] = "files" /\ pc[p] = "manifest" /\ UNCHANGED disk
          /\ proc'[p].job = proc[p].job /\ proc'[p].routine = proc[p].routine
          /\ proc'[p].seen = disk["manifest.json"]
          /\ disk["manifest.json"] \notin {Absent, Torn}
      BY <1>4, <2>1 DEF ReadManifest, ManifestReadable, Required, Locals
    <3> QED BY <3>1 DEF DiskIsPinned
  <2>2. CASE CheckFileSet(p)
    <3>1. /\ pc'[p] = "verify" /\ pc[p] = "files" /\ UNCHANGED disk
          /\ proc'[p].job = proc[p].job /\ proc'[p].routine = proc[p].routine
          /\ proc'[p].seen = proc[p].seen
      BY <1>4, <2>2 DEF CheckFileSet, Locals
    <3> QED BY <1>0, <3>1
  <2>3. CASE VerifyFile(p)
    <3>1. /\ pc'[p] = "verify" /\ pc[p] = "verify" /\ UNCHANGED disk
          /\ proc'[p].job = proc[p].job /\ proc'[p].routine = proc[p].routine
          /\ proc'[p].seen = proc[p].seen
      BY <1>4, <2>3 DEF VerifyFile, Locals
    <3> QED BY <1>0, <3>1
  <2>4. CASE ReadDocuments(p)
    <3>1. /\ pc'[p] = AfterValidation(proc[p].routine) /\ pc[p] = "verify"
          /\ proc' = proc /\ UNCHANGED disk /\ RuntimeAccepted(p)
      BY <1>4, <2>4 DEF ReadDocuments
    <3>2. proc[p].routine \in {"replay", "compare", "assert"}
      BY <1>4, <3>1 DEF AfterValidation, Locals
    <3>3. proc[p].routine = "assert" => proc[p].job.command = "assert"
      BY <3>1
    <3> QED BY <1>0, <3>1, <3>2, <3>3 DEF AfterValidation, RuntimeAccepted
  <2> QED BY <1>4, <2>1, <2>2, <2>3, <2>4 DEF ValidateStep
<1>5. CASE BackendStep(p) /\ pc'[p] # "idle"
  <2>1. CASE EmitReplay(p)
    <3>1. CompareNext(p) /\ pc[p] = "emit" /\ proc[p].routine = "replay"
      BY <2>1 DEF EmitReplay
    <3>2. proc[p].job \in Commands
      BY <3>1 DEF RunsItsJob, Building, BuildPhases
    <3> QED BY <1>0, <3>1, <3>2, HandOver
  <2>2. CASE ~EmitReplay(p)
    <3>1. /\ pc'[p] \in {"listing", "load", "emit"} /\ pc[p] \in {"transaction", "listing", "load"}
          /\ proc'[p].job = proc[p].job /\ proc'[p].routine = proc[p].routine
          /\ proc'[p].seen = proc[p].seen
      <4>1. CASE LoadTransaction(p)
        BY <1>5, <4>1 DEF LoadTransaction, Locals
      <4>2. CASE LoadAccount(p)
        BY <1>5, <4>2 DEF LoadAccount, Locals
      <4>3. CASE OpenOutput(p)
        BY <4>3 DEF OpenOutput
      <4>4. CASE ListAccounts(p)
        BY <4>4 DEF ListAccounts, Locals
      <4> QED BY <1>5, <2>2, <4>1, <4>2, <4>3, <4>4 DEF BackendStep
    <3> QED BY <1>0, <3>1
  <2> QED BY <2>1, <2>2
<1>6. CASE JudgeStep(p) /\ pc'[p] # "idle"
  <2>1. CASE GateReplay(p)
    <3>1. pc'[p] \in {"transaction", "refuse"} /\ pc[p] = "gate" /\ proc' = proc
      BY <2>1 DEF GateReplay
    <3> QED BY <1>0, <3>1
  <2>2. CASE RefuseReplay(p)
    <3>1. CompareNext(p) /\ pc[p] = "refuse" /\ proc[p].routine = "replay"
      BY <1>6, <2>2 DEF RefuseReplay
    <3>2. proc[p].job \in Commands
      BY <3>1 DEF RunsItsJob, Building, BuildPhases
    <3> QED BY <1>0, <3>1, <3>2, HandOver
  <2>3. CASE CompareReplay(p)
    <3> DEFINE content == disk[proc[p].job.replayFile]
    <3>1. PICK s \in StatusesOf(content, proc[p].seen) :
            /\ proc' = [proc EXCEPT ![p].judged = [replay |-> content, status |-> s]]
            /\ pc'[p] = "report"
      BY <1>6, <2>3 DEF CompareReplay
    <3>2. /\ proc'[p].job = proc[p].job /\ proc'[p].routine = proc[p].routine
          /\ proc'[p].seen = proc[p].seen
          /\ proc'[p].judged = [replay |-> content, status |-> s]
      <4> HIDE DEF content
      <4> QED BY <3>1 DEF Locals
    <3>3. s \in Accepted => Eligible(proc[p].seen) /\ content.kind = "replay"
      BY <3>1 DEF StatusesOf, Classified, Accepted
    <3>4. pc[p] = "compare"
      BY <2>3 DEF CompareReplay
    <3> HIDE DEF content
    <3> QED BY <1>0, <3>1, <3>2, <3>3, <3>4
  <2>4. CASE WriteComparison(p)
    <3>1. pc'[p] = "accept" /\ pc[p] = "report" /\ proc' = proc /\ proc[p].job.command = "assert"
      BY <1>6, <2>4 DEF WriteComparison
    <3> QED BY <1>0, <3>1
  <2>5. CASE ChooseReplay(p)
    <3>1. /\ pc'[p] = "manifest" /\ pc[p] = "choose"
          /\ proc'[p].routine \in {"replay", "compare"}
          /\ proc'[p].job = proc[p].job /\ proc'[p].seen = proc[p].seen
      BY <2>5 DEF ChooseReplay, Locals
    <3> QED BY <1>0, <3>1
  <2>6. CASE Accept(p)
    <3>1. pc'[p] = "passed" /\ pc[p] = "accept" /\ proc' = proc /\ proc[p].judged.status \in Accepted
      BY <1>6, <2>6 DEF Accept
    <3> QED BY <1>0, <3>1
  <2>7. CASE ReportPass(p)
    BY <1>6, <2>7 DEF ReportPass
  <2> QED BY <1>6, <2>1, <2>2, <2>3, <2>4, <2>5, <2>6, <2>7 DEF JudgeStep
<1>7. CASE BackendFails(p) \/ Crash(p)
  BY <1>7 DEF BackendFails, Crash
<1> QED BY <1>1, <1>2, <1>3, <1>4, <1>5, <1>6, <1>7 DEF Act, NodeStep

LEMMA NextPass == PassInv /\ [Next]_vars => PassInv'
<1> SUFFICES ASSUME PassInv, [Next]_vars PROVE PassInv'
  OBVIOUS
<1>1. Typed /\ Typed'
  BY NextTyped DEF PassInv
<1>2. CASE UNCHANGED vars
  BY <1>1, <1>2 DEF PassInv, vars, PinStays, Stages, AcceptedIsEligible, DiskIsPinned, Settled, Running,
     Holding, Trusting
<1>3. ASSUME NEW p \in Processes, Act(p) \/ \E j \in Jobs : StartCommand(p, j)
      PROVE  PassInv'
  <2>1. \A q \in Processes : q # p => pc'[q] = pc[q] /\ proc'[q] = proc[q]
    BY <1>1, <1>3, OthersKeep
  <2>2. DiskIsPinned => DiskIsPinned'
    BY <1>1, <1>3, PinnedDiskStays
  <2>3. \A q \in Processes : q # p => (Settled(q)' <=> Settled(q)) /\ (Running(q)' <=> Running(q))
    BY <2>1 DEF Settled, Running, Holding, Trusting
  <2>4. PinStays'
    BY <1>1, <1>3, <2>1, <2>2, <2>3, PassStep DEF PassInv, PinStays
  <2>5. Stages'
    BY <1>1, <1>3, <2>1, <2>3, PassStep DEF PassInv, Stages
  <2>6. AcceptedIsEligible'
    BY <1>1, <1>3, <2>1, PassStep DEF PassInv, AcceptedIsEligible
  <2> QED BY <1>1, <2>4, <2>5, <2>6 DEF PassInv
<1> QED BY <1>2, <1>3, NextCases

LEMMA InitPass == Init => PassInv
BY InitTyped DEF Init, PassInv, PinStays, Stages, AcceptedIsEligible, Settled, Running, Holding, Trusting

\* assert never passes an ineligible bundle or one pinned to another runtime,
\* though builds may replace the directory file by file while it runs.
THEOREM PassesAreSupported == Spec => []PassIsSupported
<1>1. PassInv => PassIsSupported
  BY DEF PassInv, PassIsSupported, Replayable, PinStays, Stages, AcceptedIsEligible, Settled, Running,
     Holding, Trusting
<1> QED BY <1>1, InitPass, NextPass, PTL DEF Spec

-----------------------------------------------------------------------------
(* A command never comes back to where it was.                             *)

LEMMA Removed ==
    ASSUME NEW S, NEW f \in S PROVE Shrinks(S, S \ {f})
BY DEF Shrinks

\* What a step does to the process that takes it.
LEMMA MoveStep ==
    ASSUME PassInv, NEW p \in Processes, Act(p)
    PROVE  Changes(p) /\ MovesOn(p)
<1> USE DEF PassInv, Typed, TypeOK
\* The command goes on in the same function.
<1>1. ASSUME proc'[p].routine = proc[p].routine, Stage(pc[p]) < Stage(pc'[p]), pc'[p] # pc[p]
      PROVE  Changes(p) /\ MovesOn(p)
  BY <1>1 DEF Changes, MovesOn
\* It is done with one more file.
<1>2. ASSUME proc'[p].routine = proc[p].routine, pc'[p] = pc[p],
             \/ Shrinks(proc[p].todo, proc'[p].todo)
             \/ proc'[p].todo = proc[p].todo /\ Shrinks(proc[p].open, proc'[p].open)
      PROVE  Changes(p) /\ MovesOn(p)
  BY <1>2 DEF Changes, MovesOn, Shrinks
\* It ends.
<1>3. ASSUME pc[p] # "idle", pc'[p] = "idle"
      PROVE  Changes(p) /\ MovesOn(p)
  BY <1>3 DEF Changes, MovesOn
\* Another function takes over.
<1>4. ASSUME pc'[p] # pc[p], Round(proc[p].routine) < Round(proc'[p].routine)
      PROVE  Changes(p) /\ MovesOn(p)
  BY <1>4 DEF Changes, MovesOn
<1>5. CASE BuildStep(p)
  <2>1. CASE OpenFile(p)
    <3> PICK f \in proc[p].todo :
          proc' = [proc EXCEPT ![p].todo = @ \ {f}, ![p].open = @ \cup {f}]
      BY <2>1 DEF OpenFile
    <3>1. proc'[p].routine = proc[p].routine /\ proc'[p].todo = proc[p].todo \ {f} /\ pc' = pc
      BY <2>1 DEF OpenFile, Locals
    <3> QED BY <1>2, <3>1, Removed
  <2>2. CASE WriteFile(p)
    <3> PICK f \in proc[p].open : proc' = [proc EXCEPT ![p].open = @ \ {f}]
      BY <2>2 DEF WriteFile
    <3>1. /\ proc'[p].routine = proc[p].routine /\ proc'[p].todo = proc[p].todo
          /\ proc'[p].open = proc[p].open \ {f} /\ pc' = pc
      BY <2>2 DEF WriteFile, Locals
    <3> QED BY <1>2, <3>1, Removed
  <2>3. CASE EndPhase(p)
    <3>1. proc'[p].routine = proc[p].routine
      BY <2>3 DEF EndPhase, Locals
    <3>2. Stage(pc[p]) < Stage(pc'[p]) /\ pc'[p] # pc[p]
      BY <2>3 DEF EndPhase, NextPhase, Stage
    <3> QED BY <1>1, <3>1, <3>2
  <2>4. CASE WalkBundle(p)
    BY <1>1, <2>4 DEF WalkBundle, Locals, Stage
  <2>5. CASE HashFile(p)
    <3> PICK f \in proc[p].todo :
          proc' = [proc EXCEPT ![p].todo = @ \ {f}, ![p].gathered[f] = disk[f]]
      BY <2>5 DEF HashFile
    <3>1. proc'[p].routine = proc[p].routine /\ proc'[p].todo = proc[p].todo \ {f} /\ pc' = pc
      BY <2>5 DEF HashFile, Locals
    <3> QED BY <1>2, <3>1, Removed
  <2>6. CASE OpenManifest(p)
    BY <1>1, <2>6 DEF OpenManifest, Stage
  <2>7. CASE WriteManifest(p)
    BY <1>3, <2>7 DEF WriteManifest
  <2> QED BY <1>5, <2>1, <2>2, <2>3, <2>4, <2>5, <2>6, <2>7 DEF BuildStep
<1>6. CASE ValidateStep(p)
  <2>1. CASE ReadManifest(p) /\ pc'[p] # "idle"
    BY <1>1, <2>1 DEF ReadManifest, Locals, Stage
  <2>2. CASE CheckFileSet(p) /\ pc'[p] # "idle"
    BY <1>1, <2>2 DEF CheckFileSet, Locals, Stage
  <2>3. CASE VerifyFile(p) /\ pc'[p] # "idle"
    <3> DEFINE f == CHOOSE g \in proc[p].todo : TRUE
    <3>1. /\ f \in proc[p].todo /\ pc' = pc
          /\ proc' = [proc EXCEPT ![p].todo = @ \ {f}]
      BY <2>3 DEF VerifyFile
    <3> HIDE DEF f
    <3>2. proc'[p].routine = proc[p].routine /\ proc'[p].todo = proc[p].todo \ {f}
      BY <3>1 DEF Locals
    <3> QED BY <1>2, <3>1, <3>2, Removed
  <2>4. CASE ReadDocuments(p) /\ pc'[p] # "idle"
    <3>1. pc[p] = "verify" /\ proc' = proc /\ pc'[p] \in {"gate", "compare", "choose"}
      BY <2>4 DEF ReadDocuments, AfterValidation
    <3> QED BY <1>1, <3>1 DEF Stage
  <2>5. CASE pc'[p] = "idle"
    BY <1>3, <1>6, <2>5 DEF ValidateStep, ReadManifest, CheckFileSet, VerifyFile, ReadDocuments
  <2> QED BY <1>6, <2>1, <2>2, <2>3, <2>4, <2>5 DEF ValidateStep
<1>7. CASE BackendStep(p)
  <2>1. CASE LoadTransaction(p) /\ pc'[p] # "idle"
    BY <1>1, <2>1 DEF LoadTransaction, Locals, Stage
  <2>2. CASE LoadAccount(p) /\ pc'[p] # "idle"
    <3> PICK f \in proc[p].todo :
          /\ proc' = [proc EXCEPT ![p].todo = @ \ {f}, ![p].gathered[f] = disk[f]]
          /\ UNCHANGED pc
      BY <2>2 DEF LoadAccount
    <3>1. proc'[p].routine = proc[p].routine /\ proc'[p].todo = proc[p].todo \ {f}
      BY DEF Locals
    <3> QED BY <1>2, <3>1, Removed
  <2>3. CASE OpenOutput(p)
    BY <1>1, <2>3 DEF OpenOutput, Stage
  <2>4. CASE EmitReplay(p)
    <3>1. CompareNext(p) /\ pc[p] = "emit" /\ proc[p].routine = "replay"
      BY <2>4 DEF EmitReplay, Stages
    <3>2. proc[p].job \in Commands
      BY <3>1 DEF RunsItsJob, Building, BuildPhases
    <3> QED BY <1>4, <3>1, <3>2, HandOver DEF Round
  <2>5. CASE pc'[p] = "idle"
    BY <1>3, <1>7, <2>5 DEF BackendStep, LoadTransaction, ListAccounts, LoadAccount, OpenOutput,
       EmitReplay, CompareNext
  <2>6. CASE ListAccounts(p)
    BY <1>1, <2>6 DEF ListAccounts, Locals, Stage
  <2> QED BY <1>7, <2>1, <2>2, <2>3, <2>4, <2>5, <2>6 DEF BackendStep
<1>8. CASE JudgeStep(p)
  <2>1. CASE GateReplay(p)
    <3>1. pc[p] = "gate" /\ pc'[p] \in {"transaction", "refuse"} /\ proc' = proc
      BY <2>1 DEF GateReplay
    <3> QED BY <1>1, <3>1 DEF Stage
  <2>2. CASE RefuseReplay(p) /\ pc'[p] # "idle"
    <3>1. CompareNext(p) /\ pc[p] = "refuse" /\ proc[p].routine = "replay"
      BY <2>2 DEF RefuseReplay, Stages
    <3>2. proc[p].job \in Commands
      BY <3>1 DEF RunsItsJob, Building, BuildPhases
    <3> QED BY <1>4, <3>1, <3>2, HandOver DEF Round
  <2>3. CASE CompareReplay(p) /\ pc'[p] # "idle"
    <3>1. pc[p] = "compare" /\ pc'[p] = "report" /\ \E j : proc' = [proc EXCEPT ![p].judged = j]
      BY <2>3 DEF CompareReplay
    <3>2. proc'[p].routine = proc[p].routine
      BY <3>1 DEF Locals
    <3> QED BY <1>1, <3>1, <3>2 DEF Stage
  <2>4. CASE WriteComparison(p) /\ pc'[p] # "idle"
    <3>1. pc[p] = "report" /\ pc'[p] = "accept" /\ proc' = proc
      BY <2>4 DEF WriteComparison
    <3> QED BY <1>1, <3>1 DEF Stage
  <2>5. CASE ChooseReplay(p)
    <3>1. /\ pc[p] = "choose" /\ pc'[p] = "manifest" /\ proc[p].routine = "assert"
          /\ proc'[p].routine \in {"replay", "compare"}
      BY <2>5 DEF ChooseReplay, Stages, Locals
    <3> QED BY <1>4, <3>1 DEF Round
  <2>6. CASE Accept(p) /\ pc'[p] # "idle"
    <3>1. pc[p] = "accept" /\ pc'[p] = "passed" /\ proc' = proc
      BY <2>6 DEF Accept
    <3> QED BY <1>1, <3>1 DEF Stage
  <2>7. CASE pc'[p] = "idle"
    BY <1>3, <1>8, <2>7 DEF JudgeStep, GateReplay, RefuseReplay, CompareReplay, WriteComparison, ChooseReplay,
       Accept, ReportPass, CompareNext
  <2> QED BY <1>8, <2>1, <2>2, <2>3, <2>4, <2>5, <2>6, <2>7 DEF JudgeStep, ReportPass
<1>9. CASE BackendFails(p) \/ Crash(p)
  <2>1. pc[p] # "idle" /\ pc'[p] = "idle"
    BY <1>9 DEF BackendFails, Backend, Crash
  <2> QED BY <1>3, <2>1
<1> QED BY <1>5, <1>6, <1>7, <1>8, <1>9 DEF Act, NodeStep

\* The part of termination that does not depend on fairness: every step
\* starts a command or brings one nearer to its end, for any number of files,
\* processes and overlapping commands.
THEOREM StepsMoveOn == Spec => CommandsMoveOn
<1> DEFINE Moves == /\ \E p \in Processes : Changes(p)
                    /\ \A p \in Processes : (pc[p] # "idle" /\ Changes(p)) => MovesOn(p)
<1>1. PassInv /\ [Next]_vars => [Moves]_vars
  <2> SUFFICES ASSUME PassInv, [Next]_vars, vars' # vars PROVE Moves
    OBVIOUS
  <2>1. ASSUME NEW p \in Processes, NEW j \in Jobs, StartCommand(p, j) PROVE Moves
    <3>1. pc[p] = "idle" /\ pc'[p] # "idle"
      BY <2>1 DEF StartCommand, PassInv, Typed, TypeOK
    <3>2. \A q \in Processes : q # p => ~Changes(q)
      BY <2>1, OthersKeep DEF PassInv, Changes
    <3> QED BY <3>1, <3>2 DEF Changes
  <2>2. ASSUME NEW p \in Processes, Act(p) PROVE Moves
    <3>1. Changes(p) /\ MovesOn(p)
      BY <2>2, MoveStep
    <3>2. \A q \in Processes : q # p => ~Changes(q)
      BY <2>2, OthersKeep DEF PassInv, Changes
    <3> QED BY <3>1, <3>2
  <2>3. vars' # vars => ~UNCHANGED vars
    OBVIOUS
  <2> QED BY <2>1, <2>2, <2>3, NextCases
<1> QED BY <1>1, InitPass, NextPass, PTL DEF Spec, CommandsMoveOn

-----------------------------------------------------------------------------
(* Outputs are no evidence.                                                *)

\* A directory whose fixtures and manifest stay the same stays as good.
LEMMA SameDirectory ==
    ASSUME Typed, Typed', \A f \in Fixtures \cup {"manifest.json"} : disk'[f] = disk[f]
    PROVE  /\ Present' = Present
           /\ ManifestReadable' <=> ManifestReadable
           /\ \A m : DocumentsAgree(m)' <=> DocumentsAgree(m)
           /\ Valid' <=> Valid
<1>1. Present' = Present
  BY PathFacts DEF Present
<1>2. ManifestReadable' <=> ManifestReadable
  BY DEF ManifestReadable, Required, Fixtures, Documents
<1>3. \A m : DocumentsAgree(m)' <=> DocumentsAgree(m)
  BY DEF DocumentsAgree, Fixtures, Documents
<1>4. \A f \in Present : disk'[f] = disk[f]
  BY PathFacts DEF Present
<1> QED BY <1>1, <1>2, <1>3, <1>4 DEF Valid, Indexed

\* Commands that only use a bundle never spoil it.
THEOREM OutputsAreHarmless == Spec => OutputsKeepBundleValid
<1>1. Typed /\ [Next]_vars =>
        [(Valid /\ \A p \in Processes : ~Building(p)) => Valid']_vars
  <2> SUFFICES ASSUME Typed, [Next]_vars, Valid, \A p \in Processes : ~Building(p)
               PROVE  Valid'
    BY DEF vars
  <2>1. Typed'
    BY NextTyped
  <2>2. CASE UNCHANGED vars
    BY <2>1, <2>2, SameDirectory DEF vars
  <2>3. CASE \E p \in Processes, j \in Jobs : StartCommand(p, j)
    BY <2>1, <2>3, SameDirectory DEF StartCommand
  <2>4. ASSUME NEW p \in Processes, Act(p) PROVE Valid'
    <3>1. ~BuildStep(p)
      BY DEF BuildStep, OpenFile, WriteFile, EndPhase, WalkBundle, HashFile, OpenManifest,
         WriteManifest, Building, BuildPhases
    <3>2. ValidateStep(p) \/ BackendStep(p) \/ JudgeStep(p) \/ BackendFails(p) \/ Crash(p)
      BY <2>4, <3>1 DEF Act, NodeStep
    <3> QED BY <2>1, <3>2, OthersAreQuiet, SameDirectory
  <2> QED BY <2>2, <2>3, <2>4, NextCases
<1> QED BY <1>1, InitTyped, NextTyped, PTL DEF Spec, OutputsKeepBundleValid

-----------------------------------------------------------------------------
(* Published bundles.                                                      *)

\* A process that has nothing to do remembers nothing.
IdleIsBlank ==
    \A p \in Processes :
        /\ pc[p] = "idle" => proc[p] = NoLocals
        /\ pc[p] \in {"manifest", "files", "verify"} =>
             proc[p].routine \in {"inspect", "replay", "compare", "assert"}

LEMMA StepBlank ==
    ASSUME Typed, Typed', IdleIsBlank, NEW p \in Processes, Act(p) \/ \E j \in Jobs : StartCommand(p, j)
    PROVE  IdleIsBlank'
<1> USE DEF Typed, TypeOK
<1>1. SUFFICES /\ pc'[p] = "idle" => proc'[p] = NoLocals
               /\ pc'[p] \in {"manifest", "files", "verify"} =>
                    proc'[p].routine \in {"inspect", "replay", "compare", "assert"}
  BY OthersKeep DEF IdleIsBlank
<1>2. CASE pc'[p] = "idle" /\ proc'[p] = NoLocals
  BY <1>2
<1>3. CASE \E j \in Jobs : StartCommand(p, j)
  <2> PICK j \in Jobs : StartCommand(p, j)
    BY <1>3
  <2>1. CASE j.command = "bundle"
    BY <2>1 DEF StartCommand
  <2>2. CASE j.command # "bundle"
    <3>1. FirstRoutine(j) \in {"inspect", "replay", "compare", "assert"}
      BY <2>2, DataAssumption, JobKinds DEF FirstRoutine, Commands
    <3> QED BY <2>2, <3>1 DEF StartCommand, Locals
  <2> QED BY <2>1, <2>2
<1>4. CASE BuildStep(p)
  <2>1. CASE EndPhase(p)
    BY <2>1 DEF EndPhase, NextPhase
  <2>2. CASE OpenFile(p) \/ WriteFile(p) \/ WalkBundle(p) \/ HashFile(p) \/ OpenManifest(p) \/ WriteManifest(p)
    BY <2>2 DEF OpenFile, WriteFile, WalkBundle, HashFile, OpenManifest, WriteManifest
  <2> QED BY <1>4, <2>1, <2>2 DEF BuildStep
<1>5. CASE ReadManifest(p) \/ CheckFileSet(p) \/ VerifyFile(p)
  <2>1. CASE Return(p)
    BY <2>1
  <2>2. CASE ~Return(p)
    <3>1. pc[p] \in {"manifest", "files", "verify"} /\ pc'[p] # "idle" /\ proc'[p].routine = proc[p].routine
      BY <1>5, <2>2 DEF ReadManifest, CheckFileSet, VerifyFile, Locals
    <3> QED BY <3>1 DEF IdleIsBlank
  <2> QED BY <2>1, <2>2
<1>6. CASE ReadDocuments(p)
  <2>1. CASE Return(p)
    BY <2>1
  <2>2. CASE ~Return(p)
    <3>1. pc[p] = "verify" /\ proc[p].routine # "inspect" /\ pc'[p] = AfterValidation(proc[p].routine)
      BY <1>6, <2>2 DEF ReadDocuments
    <3>2. proc[p].routine \in {"replay", "compare", "assert"}
      BY <3>1 DEF IdleIsBlank
    <3> QED BY <3>1, <3>2 DEF AfterValidation
  <2> QED BY <2>1, <2>2
<1>7. CASE EmitReplay(p) \/ RefuseReplay(p)
  <2>1. CASE Return(p)
    BY <2>1
  <2>2. CASE CompareNext(p)
    BY <2>2 DEF CompareNext, Locals
  <2> QED BY <1>7, <2>1, <2>2 DEF EmitReplay, RefuseReplay
<1>8. CASE ChooseReplay(p)
  BY <1>8 DEF ChooseReplay, Locals
<1>9. CASE LoadTransaction(p) \/ ListAccounts(p) \/ LoadAccount(p) \/ OpenOutput(p) \/ BackendFails(p) \/ Crash(p)
  BY <1>9 DEF LoadTransaction, ListAccounts, LoadAccount, OpenOutput, BackendFails, Crash
<1>10. CASE GateReplay(p) \/ CompareReplay(p) \/ WriteComparison(p) \/ Accept(p) \/ ReportPass(p)
  BY <1>10 DEF GateReplay, CompareReplay, WriteComparison, Accept, ReportPass
<1> QED BY <1>3, <1>4, <1>5, <1>6, <1>7, <1>8, <1>9, <1>10
        DEF Act, NodeStep, ValidateStep, BackendStep, JudgeStep

\* What a build does to its hashes, and nobody else to the files they are of.
HashInv == WholeInv /\ IdleIsBlank /\ HashesMatchDisk

LEMMA BuildKeepsHashes ==
    ASSUME HashInv, Typed', NEW p \in Processes, BuildStep(p), Building(p)'
    PROVE  \A f \in Indexable :
             IF pc'[p] \in {"hash", "publish"}
             THEN (pc'[p] = "hash" /\ f \in proc'[p].todo) \/ proc'[p].gathered[f] = disk'[f]
             ELSE proc'[p].gathered[f] = Absent
<1> USE DEF HashInv, WholeInv, Typed, TypeOK
<1>0. Building(p)
  BY DEF BuildStep, OpenFile, WriteFile, EndPhase, WalkBundle, HashFile, OpenManifest, WriteManifest,
     Building, BuildPhases
<1>1. CASE OpenFile(p)
  <2>1. pc'[p] = pc[p] /\ pc[p] \notin {"hash", "publish"} /\ proc'[p].gathered = proc[p].gathered
    BY <1>1 DEF OpenFile, Locals
  <2> QED BY <1>0, <2>1 DEF HashesMatchDisk
<1>2. CASE WriteFile(p)
  <2>1. pc'[p] = pc[p] /\ pc[p] \notin {"hash", "publish"} /\ proc'[p].gathered = proc[p].gathered
    BY <1>2 DEF WriteFile, Locals
  <2> QED BY <1>0, <2>1 DEF HashesMatchDisk
<1>3. CASE EndPhase(p)
  <2>1. /\ pc'[p] \notin {"hash", "publish"} /\ pc[p] \notin {"hash", "publish"}
        /\ proc'[p].gathered = proc[p].gathered
    BY <1>3 DEF EndPhase, NextPhase, Locals
  <2> QED BY <1>0, <2>1 DEF HashesMatchDisk
<1>4. CASE WalkBundle(p)
  <2>1. /\ pc'[p] = "hash" /\ pc[p] = "walk" /\ disk' = disk
        /\ proc'[p].todo = Present /\ proc'[p].gathered = proc[p].gathered
    BY <1>4 DEF WalkBundle, Locals
  <2> QED BY <1>0, <2>1 DEF HashesMatchDisk, Present
<1>5. CASE HashFile(p)
  <2> PICK f \in proc[p].todo :
        proc' = [proc EXCEPT ![p].todo = @ \ {f}, ![p].gathered[f] = disk[f]]
    BY <1>5 DEF HashFile
  <2>1. /\ pc'[p] = "hash" /\ pc[p] = "hash" /\ disk' = disk
        /\ proc'[p].todo = proc[p].todo \ {f}
        /\ proc'[p].gathered = [proc[p].gathered EXCEPT ![f] = disk[f]]
        /\ DOMAIN proc[p].gathered = Indexable
    BY <1>5 DEF HashFile, Locals, Indexes
  <2> QED BY <1>0, <2>1 DEF HashesMatchDisk
<1>6. CASE OpenManifest(p)
  <2>1. /\ pc'[p] = "publish" /\ pc[p] = "hash" /\ proc' = proc /\ proc[p].todo = {}
        /\ \A f \in Indexable : disk'[f] = disk[f]
    BY <1>6, PathFacts DEF OpenManifest, DiskTypeOK
  <2> QED BY <1>0, <2>1 DEF HashesMatchDisk
<1>7. CASE WriteManifest(p)
  BY <1>7 DEF WriteManifest, Building, BuildPhases
<1> QED BY <1>1, <1>2, <1>3, <1>4, <1>5, <1>6, <1>7 DEF BuildStep

LEMMA NextHash == Exclusion # "none" /\ HashInv /\ [Next]_vars => HashInv'
<1> SUFFICES ASSUME Exclusion # "none", HashInv, [Next]_vars PROVE HashInv'
  OBVIOUS
<1>1. WholeInv /\ WholeInv' /\ Typed /\ Typed' /\ IdleIsBlank
  BY NextWhole DEF HashInv, WholeInv
<1>2. CASE UNCHANGED vars
  BY <1>1, <1>2 DEF HashInv, vars, HashesMatchDisk, IdleIsBlank, Building
<1>6. IdleIsBlank'
  <2>1. CASE UNCHANGED vars
    BY <1>1, <2>1 DEF vars, IdleIsBlank
  <2> QED BY <1>1, <2>1, StepBlank, NextCases
<1>3. ASSUME NEW p \in Processes, NEW j \in Jobs, StartCommand(p, j) PROVE HashInv'
  <2>1. /\ disk' = disk
        /\ \A q \in Processes : q # p => pc'[q] = pc[q] /\ proc'[q] = proc[q]
        /\ pc'[p] \notin {"hash", "publish"}
        /\ proc'[p].gathered = proc[p].gathered
    BY <1>1, <1>3 DEF StartCommand, Typed, TypeOK, Locals
  <2>2. \A f \in Indexable : proc[p].gathered[f] = Absent
    BY <1>1, <1>3 DEF StartCommand, IdleIsBlank, NoLocals, Blank
  <2> QED BY <1>1, <1>6, <2>1, <2>2 DEF HashInv, HashesMatchDisk, Building
<1>4. ASSUME NEW p \in Processes, BuildStep(p) PROVE HashInv'
  <2>1. Building(p) /\ \A q \in Processes : q # p => ~Building(q)
    BY <1>1, <1>4 DEF BuildStep, OpenFile, WriteFile, EndPhase, WalkBundle, HashFile, OpenManifest,
       WriteManifest, Building, BuildPhases, WholeInv, OneBuilder
  <2>2. \A q \in Processes : Building(q)' => q = p
    BY <1>1, <1>4, <2>1, OthersKeep DEF Act, NodeStep, Building
  <2> QED BY <1>1, <1>4, <1>6, <2>2, BuildKeepsHashes DEF HashInv, HashesMatchDisk
<1>5. ASSUME NEW p \in Processes,
             ValidateStep(p) \/ BackendStep(p) \/ JudgeStep(p) \/ BackendFails(p) \/ Crash(p)
      PROVE  HashInv'
  <2>1. /\ \A f \in Indexable : disk'[f] = disk[f]
        /\ \A q \in Processes : Building(q)' => pc'[q] = pc[q] /\ proc'[q] = proc[q]
    BY <1>1, <1>5, OthersAreQuiet, PathFacts
  <2> QED BY <1>1, <1>6, <2>1 DEF HashInv, HashesMatchDisk, Building
<1> QED BY <1>2, <1>3, <1>4, <1>5 DEF Next, NodeStep

LEMMA InitHash == Init => HashInv
BY InitWhole DEF Init, HashInv, IdleIsBlank, HashesMatchDisk, Building, BuildPhases

\* What createBundle's last write leaves behind.
LEMMA WriteMakesValid ==
    ASSUME HashInv, NEW p \in Processes, WriteManifest(p)
    PROVE  /\ disk'["manifest.json"] =
                Manifest(proc[p].job.capture, PinnedRuntime, proc[p].gathered)
           /\ Valid'
<1> USE DEF HashInv, WholeInv, Typed, TypeOK, DiskTypeOK
<1> DEFINE c == proc[p].job.capture
           index == proc[p].gathered
<1>1. /\ pc[p] = "publish" /\ Building(p)
      /\ proc[p].job \in Builds /\ c \in Captures
      /\ disk' = [disk EXCEPT !["manifest.json"] = Manifest(c, PinnedRuntime, index)]
  BY JobKinds DEF WriteManifest, RunsItsJob, Building, BuildPhases
<1>2. /\ \A f \in Fixtures : disk'[f] = disk[f]
      /\ disk'["manifest.json"] = Manifest(c, PinnedRuntime, index)
      /\ disk'["manifest.json"].capture = c
      /\ disk'["manifest.json"].index = index
      /\ disk'["manifest.json"] \in Manifests
  <2>1. Manifest(c, PinnedRuntime, index) \in Manifests
    BY <1>1, DataAssumption DEF Manifest, Manifests, Locals
  <2> QED BY <1>1, <2>1, PathFacts DEF Manifest
<1>3. \A f \in Indexable : index[f] = disk[f]
  BY <1>1 DEF HashesMatchDisk
<1>4. \A f \in FilesOf(c) : disk[f] = Produces(f, c) /\ disk[f] \notin {Absent, Torn}
  BY <1>1, FilesOfFacts, ContentFacts DEF BuildProgress, Pending
<1>5. Documents \cup {"README.md"} \subseteq FilesOf(c)
  BY DEF FilesOf
<1>6. ManifestReadable'
  <2>1. \A f \in Documents \cup {"README.md"} : disk'[f] # Absent
    BY <1>2, <1>4, <1>5, PathFacts DEF Fixtures
  <2>2. disk'["manifest.json"] \notin {Absent, Torn}
    BY <1>2, ContentAssumption
  <2> QED BY <2>1, <2>2 DEF ManifestReadable, Required, Documents
<1>7. Present' = Indexed(disk'["manifest.json"])
  BY <1>2, <1>3, PathFacts DEF Present, Indexed
<1>8. \A f \in Present' : disk'[f] = disk'["manifest.json"].index[f]
  BY <1>2, <1>3, PathFacts DEF Present
<1>9. DocumentsAgree(disk["manifest.json"])'
  <2>1. \A f \in Documents : disk'[f] = Produces(f, c) /\ disk'[f] # Torn
    BY <1>2, <1>4, <1>5, PathFacts
  <2> QED BY <1>2, <2>1 DEF DocumentsAgree, Documents, Produces, SignatureDocuments
<1> QED BY <1>2, <1>6, <1>7, <1>8, <1>9 DEF Valid

\* As long as two builds do not overlap, what createBundle publishes is valid.
THEOREM PublishedIsValid ==
    ASSUME Exclusion # "none"
    PROVE  Spec => PublishedBundleValidates
<1>1. HashInv /\ [Next]_vars => [\A p \in Processes : WriteManifest(p) => Valid']_vars
  BY WriteMakesValid
<1>2. Exclusion # "none"
  OBVIOUS
<1> QED BY <1>1, <1>2, InitHash, NextHash, PTL DEF Spec, PublishedBundleValidates

-----------------------------------------------------------------------------
(* Validation, while builds are kept apart from everything else.           *)

UseInv == Typed /\ BuildsAlone /\ SeenIsCurrent /\ VerifiedSoFar /\ TrustedIsValid

\* What one step does to the process that takes it, unless it builds.
LEMMA UseStep ==
    ASSUME UseInv, Typed', NEW p \in Processes, Act(p), ~BuildStep(p), pc'[p] # "idle"
    PROVE  /\ Running(p) /\ Running(p)'
           /\ Holding(p)' => ManifestReadable /\ proc'[p].seen = disk["manifest.json"]
           /\ pc'[p] = "verify" =>
                /\ Present = Indexed(proc'[p].seen)
                /\ \A f \in Present : f \in proc'[p].todo \/ disk[f] = proc'[p].seen.index[f]
           /\ Trusting(p)' => Valid
<1> USE DEF UseInv, Typed, TypeOK, Running, Holding, Trusting
<1>1. CASE ReadManifest(p)
  BY <1>1 DEF ReadManifest, Locals
<1>2. CASE CheckFileSet(p)
  <2>1. /\ pc[p] = "files" /\ pc'[p] = "verify"
        /\ Present = Indexed(proc[p].seen)
        /\ proc'[p].seen = proc[p].seen /\ proc'[p].todo = Present
    BY <1>2 DEF CheckFileSet, Locals
  <2> QED BY <2>1 DEF SeenIsCurrent
<1>3. CASE VerifyFile(p)
  <2> DEFINE f == CHOOSE g \in proc[p].todo : TRUE
  <2>1. /\ pc[p] = "verify" /\ pc'[p] = "verify"
        /\ SameHash(f, proc[p].seen)
        /\ proc'[p].seen = proc[p].seen /\ proc'[p].todo = proc[p].todo \ {f}
    BY <1>3 DEF VerifyFile, Locals
  <2> HIDE DEF f
  <2> QED BY <2>1 DEF SeenIsCurrent, VerifiedSoFar, SameHash
<1>4. CASE ReadDocuments(p)
  <2>1. /\ pc[p] = "verify" /\ proc[p].todo = {} /\ proc' = proc
        /\ pc'[p] \in {"gate", "compare", "choose"}
        /\ DocumentsAgree(proc[p].seen)
    BY <1>4 DEF ReadDocuments, AfterValidation
  <2> QED BY <2>1 DEF SeenIsCurrent, VerifiedSoFar, Valid
<1>5. CASE LoadTransaction(p) \/ ListAccounts(p) \/ LoadAccount(p)
  <2>1. Trusting(p) /\ pc'[p] \in {"listing", "load"} /\ proc'[p].seen = proc[p].seen
    <3>1. CASE LoadTransaction(p) \/ ListAccounts(p)
      BY <3>1 DEF LoadTransaction, ListAccounts, Locals
    <3>2. CASE LoadAccount(p)
      BY <3>2 DEF LoadAccount, Locals
    <3> QED BY <1>5, <3>1, <3>2
  <2> QED BY <2>1 DEF SeenIsCurrent, TrustedIsValid
<1>6. CASE EmitReplay(p) \/ RefuseReplay(p)
  BY <1>6 DEF EmitReplay, RefuseReplay, CompareNext
<1>7. CASE ChooseReplay(p)
  BY <1>7 DEF ChooseReplay
<1>8. CASE OpenOutput(p) \/ GateReplay(p) \/ WriteComparison(p) \/ Accept(p)
  <2>1. Trusting(p) /\ Trusting(p)' /\ proc' = proc
    BY <1>8 DEF OpenOutput, GateReplay, WriteComparison, Accept
  <2> QED BY <2>1 DEF SeenIsCurrent, TrustedIsValid
<1>9. CASE CompareReplay(p)
  <2>1. Trusting(p) /\ pc'[p] = "report" /\ proc'[p].seen = proc[p].seen
    BY <1>9 DEF CompareReplay, Locals
  <2> QED BY <2>1 DEF SeenIsCurrent, TrustedIsValid
<1>10. CASE ReportPass(p) \/ BackendFails(p) \/ Crash(p)
  BY <1>10 DEF ReportPass, BackendFails, Crash
<1> QED BY <1>1, <1>2, <1>3, <1>4, <1>5, <1>6, <1>7, <1>8, <1>9, <1>10
        DEF Act, NodeStep, ValidateStep, BackendStep, JudgeStep

LEMMA NextUse == Exclusion = "alone" /\ UseInv /\ [Next]_vars => UseInv'
<1> SUFFICES ASSUME Exclusion = "alone", UseInv, [Next]_vars PROVE UseInv'
  OBVIOUS
<1>1. Typed /\ Typed'
  BY NextTyped DEF UseInv
<1> USE DEF Running, Holding, Trusting
<1>2. CASE UNCHANGED vars
  BY <1>1, <1>2, SameDirectory
     DEF UseInv, vars, BuildsAlone, SeenIsCurrent, VerifiedSoFar, TrustedIsValid, Building, Indexed
<1>3. ASSUME NEW p \in Processes, NEW j \in Jobs, StartCommand(p, j) PROVE UseInv'
  <2>1. /\ disk' = disk /\ pc[p] = "idle" /\ pc'[p] \in {"accounts", "manifest"}
        /\ \A q \in Processes : q # p => pc'[q] = pc[q] /\ proc'[q] = proc[q]
        /\ pc'[p] = "accounts" => \A q \in Processes : pc[q] = "idle"
        /\ pc'[p] = "manifest" => \A q \in Processes : ~Building(q)
    BY <1>1, <1>3 DEF StartCommand, MayStart, Typed, TypeOK
  <2>2. BuildsAlone'
    BY <2>1 DEF UseInv, BuildsAlone, Building, BuildPhases
  <2>3. /\ Present' = Present
        /\ ManifestReadable' <=> ManifestReadable
        /\ Valid' <=> Valid
    BY <1>1, <2>1, SameDirectory
  <2>4. SeenIsCurrent' /\ VerifiedSoFar' /\ TrustedIsValid'
    BY <2>1, <2>3 DEF UseInv, SeenIsCurrent, VerifiedSoFar, TrustedIsValid, Indexed
  <2> QED BY <1>1, <2>2, <2>4 DEF UseInv
<1>4. ASSUME NEW p \in Processes, BuildStep(p) PROVE UseInv'
  <2>1. Building(p) /\ \A q \in Processes : q # p => pc[q] = "idle" /\ pc'[q] = "idle"
    BY <1>1, <1>4, OthersKeep DEF Act, NodeStep, BuildStep, OpenFile, WriteFile, EndPhase, WalkBundle,
       HashFile, OpenManifest, WriteManifest, Building, BuildPhases, UseInv, BuildsAlone
  <2>2. Building(p)' \/ pc'[p] = "idle"
    <3>1. CASE EndPhase(p)
      BY <1>1, <3>1 DEF EndPhase, NextPhase, Building, BuildPhases, Typed, TypeOK
    <3>2. CASE OpenFile(p) \/ WriteFile(p) \/ WalkBundle(p) \/ HashFile(p) \/ OpenManifest(p) \/ WriteManifest(p)
      BY <1>1, <3>2 DEF OpenFile, WriteFile, WalkBundle, HashFile, OpenManifest, WriteManifest, Building,
         BuildPhases, Typed, TypeOK
    <3> QED BY <1>4, <3>1, <3>2 DEF BuildStep
  <2>3. BuildsAlone' /\ \A q \in Processes : Building(q)' \/ pc'[q] = "idle"
    BY <2>1, <2>2 DEF BuildsAlone, Building, BuildPhases
  <2> QED BY <1>1, <2>3 DEF UseInv, SeenIsCurrent, VerifiedSoFar, TrustedIsValid, Building, BuildPhases
<1>5. ASSUME NEW p \in Processes, Act(p), ~BuildStep(p) PROVE UseInv'
  <2>1. CASE Building(p)
    <3>1. Crash(p)
      BY <1>5, <2>1 DEF Act, NodeStep, ValidateStep, BackendStep, JudgeStep, ReadManifest, CheckFileSet, VerifyFile,
         ReadDocuments, LoadTransaction, ListAccounts, LoadAccount, OpenOutput, EmitReplay, BackendFails,
            Backend,
         GateReplay, RefuseReplay, CompareReplay, WriteComparison, ChooseReplay, Accept, ReportPass,
         Building, BuildPhases
    <3>2. \A q \in Processes : pc'[q] = "idle"
      BY <1>1, <2>1, <3>1 DEF Crash, UseInv, BuildsAlone, Typed, TypeOK
    <3> QED BY <1>1, <3>2
            DEF UseInv, BuildsAlone, SeenIsCurrent, VerifiedSoFar, TrustedIsValid, Building, BuildPhases
  <2>2. CASE ~Building(p)
    <3>1. ValidateStep(p) \/ BackendStep(p) \/ JudgeStep(p) \/ BackendFails(p) \/ Crash(p)
      BY <1>5 DEF Act, NodeStep
    <3>2. \A f \in Fixtures \cup {"manifest.json"} : disk'[f] = disk[f]
      BY <1>1, <3>1, OthersAreQuiet
    <3>3. /\ Present' = Present
          /\ ManifestReadable' <=> ManifestReadable
          /\ Valid' <=> Valid
          /\ disk'["manifest.json"] = disk["manifest.json"]
          /\ \A f \in Present : disk'[f] = disk[f]
      BY <1>1, <3>2, SameDirectory, PathFacts DEF Present
    <3>4. \A q \in Processes : q # p => pc'[q] = pc[q] /\ proc'[q] = proc[q]
      BY <1>1, <1>5, OthersKeep
    <3>5. pc'[p] # "idle" => Running(p) /\ Running(p)'
      BY <1>1, <1>5, UseStep
    <3>6. BuildsAlone'
      BY <3>4, <3>5 DEF UseInv, BuildsAlone, Building, BuildPhases
    <3>7. SeenIsCurrent'
      BY <1>1, <1>5, <3>3, <3>4, UseStep DEF UseInv, SeenIsCurrent
    <3>8. VerifiedSoFar'
      BY <1>1, <1>5, <3>3, <3>4, UseStep DEF UseInv, VerifiedSoFar, Indexed
    <3>9. TrustedIsValid'
      BY <1>1, <1>5, <3>3, <3>4, UseStep DEF UseInv, TrustedIsValid
    <3> QED BY <1>1, <3>6, <3>7, <3>8, <3>9 DEF UseInv
  <2> QED BY <2>1, <2>2
<1> QED BY <1>2, <1>3, <1>4, <1>5, NextCases DEF Act, NodeStep

LEMMA InitUse == Init => UseInv
BY InitTyped DEF Init, UseInv, BuildsAlone, SeenIsCurrent, VerifiedSoFar, TrustedIsValid, Building, BuildPhases,
   Holding, Trusting

\* When no build runs beside other commands, a bundle that was validated file
\* by file is valid as a whole until the command is done with it.
THEOREM ValidationIsWorthIt ==
    ASSUME Exclusion = "alone"
    PROVE  Spec => []ValidationVouches
<1>1. UseInv => ValidationVouches
  BY DEF UseInv, ValidationVouches, SeenIsCurrent, TrustedIsValid, Holding, Trusting
<1>2. Exclusion = "alone"
  OBVIOUS
<1> QED BY <1>1, <1>2, InitUse, NextUse, PTL DEF Spec

\* What a step of the validation refuses is not valid.
LEMMA RefusalStep ==
    ASSUME UseInv, NEW p \in Processes, pc'[p] = "idle",
           \/ ReadManifest(p) \/ CheckFileSet(p) \/ VerifyFile(p)
           \/ ReadDocuments(p) /\ RuntimeAccepted(p) /\ AfterValidation(proc[p].routine) # "idle"
    PROVE  ~Valid
<1> USE DEF UseInv, Typed, TypeOK, Holding
<1>1. CASE ReadManifest(p)
  BY <1>1 DEF ReadManifest, Valid
<1>2. CASE CheckFileSet(p)
  <2>1. pc[p] = "files" /\ Present # Indexed(proc[p].seen)
    BY <1>2 DEF CheckFileSet
  <2> QED BY <2>1 DEF SeenIsCurrent, Valid
<1>3. CASE VerifyFile(p)
  <2> DEFINE f == CHOOSE g \in proc[p].todo : TRUE
             m == proc[p].seen
  <2>1. pc[p] = "verify" /\ f \in proc[p].todo /\ disk[f] # m.index[f]
    BY <1>3 DEF VerifyFile, SameHash
  <2>2. f \in Indexable /\ Present = Indexed(m) /\ m = disk["manifest.json"]
    BY <2>1, PathFacts DEF Locals, VerifiedSoFar, SeenIsCurrent
  <2>3. f \in Present
    BY <2>1, <2>2 DEF Present, Indexed
  <2> QED BY <2>1, <2>2, <2>3 DEF Valid
<1>4. CASE ReadDocuments(p) /\ RuntimeAccepted(p) /\ AfterValidation(proc[p].routine) # "idle"
  <2>1. pc[p] = "verify" /\ ~DocumentsAgree(proc[p].seen)
    BY <1>4 DEF ReadDocuments, AfterValidation
  <2> QED BY <2>1 DEF SeenIsCurrent, Valid
<1> QED BY <1>1, <1>2, <1>3, <1>4

\* A validation that refuses a bundle, file by file and beside other commands,
\* is right to: a single look at the directory would refuse it too.
THEOREM RefusalsAreRight ==
    ASSUME Exclusion = "alone"
    PROVE  Spec => ValidBundleIsNotRefused
<1> DEFINE Refuses(p) ==
             /\ pc'[p] = "idle"
             /\ \/ ReadManifest(p) \/ CheckFileSet(p) \/ VerifyFile(p)
                \/ ReadDocuments(p) /\ RuntimeAccepted(p) /\ AfterValidation(proc[p].routine) # "idle"
<1>1. UseInv /\ [Next]_vars => [\A p \in Processes : Refuses(p) => ~Valid]_vars
  BY RefusalStep
<1>2. Exclusion = "alone"
  OBVIOUS
<1> QED BY <1>1, <1>2, InitUse, NextUse, PTL DEF Spec, ValidBundleIsNotRefused

-----------------------------------------------------------------------------
(* What is replayed, while builds are kept apart from everything else.     *)

RunInv ==
    /\ WholeInv /\ UseInv /\ PassInv
    /\ Replaying /\ LoadedSoFar
    /\ ReplaysRunEligibleCaptures /\ FreshIsCurrent

\* What can be in an output after a step that was not there before.
LEMMA OutputStep ==
    ASSUME Typed, NEW p \in Processes, Act(p) \/ \E j \in Jobs : StartCommand(p, j), NEW f \in Outputs
    PROVE  \/ disk'[f] = disk[f]
           \/ disk'[f] = Torn
           \/ disk'[f].kind # "replay"
           \/ /\ pc[p] = "emit"
              /\ disk'[f].inputs = proc[p].gathered
<1> USE DEF Typed, TypeOK, DiskTypeOK
<1>1. CASE OpenFile(p) \/ WriteFile(p)
  <2> PICK g \in Fixtures : \E v : disk' = [disk EXCEPT ![g] = v]
    BY <1>1 DEF OpenFile, WriteFile, Locals
  <2> QED BY PathFacts
<1>2. CASE OpenManifest(p) \/ WriteManifest(p)
  BY <1>2, PathFacts DEF OpenManifest, WriteManifest
<1>3. CASE \/ \E j \in Jobs : StartCommand(p, j)
           \/ EndPhase(p) \/ WalkBundle(p) \/ HashFile(p) \/ ValidateStep(p)
           \/ LoadTransaction(p) \/ ListAccounts(p) \/ LoadAccount(p) \/ BackendFails(p) \/ Crash(p)
           \/ ChooseReplay(p) \/ Accept(p) \/ ReportPass(p)
  BY <1>3 DEF StartCommand, EndPhase, WalkBundle, HashFile, ValidateStep, ReadManifest, CheckFileSet, VerifyFile,
     ReadDocuments, LoadTransaction, ListAccounts, LoadAccount, BackendFails, Crash, ChooseReplay, Accept,
        ReportPass
<1>4. CASE OpenOutput(p) \/ GateReplay(p)
  BY <1>4, PathFacts DEF OpenOutput, GateReplay
<1>5. CASE CompareReplay(p)
  BY <1>5, PathFacts DEF CompareReplay
<1>6. CASE EmitReplay(p)
  BY <1>6, PathFacts DEF EmitReplay, Replay
<1>7. CASE RefuseReplay(p)
  BY <1>7, PathFacts DEF RefuseReplay, Refusal
<1>8. CASE WriteComparison(p)
  BY <1>8, PathFacts DEF WriteComparison, Comparison
<1> QED BY <1>1, <1>2, <1>3, <1>4, <1>5, <1>6, <1>7, <1>8
        DEF Act, NodeStep, BuildStep, BackendStep, JudgeStep

\* What the backend has read of a bundle that nobody replaces meanwhile.
LEMMA LoadStep ==
    ASSUME RunInv, Typed', NEW p \in Processes, Act(p) \/ \E j \in Jobs : StartCommand(p, j),
           pc'[p] \in {"transaction", "listing", "load", "emit"}
    PROVE  /\ Replayable(proc'[p].seen)
           /\ pc'[p] \in {"listing", "load", "emit"} =>
                LET c == proc'[p].seen.capture
                IN  /\ proc'[p].gathered["transaction.json"] = SignatureOf[c]
                    /\ \A f \in AccountsOf[c] :
                         \/ pc'[p] = "listing"
                         \/ pc'[p] = "load" /\ f \in proc'[p].todo
                         \/ proc'[p].gathered[f] = Produces(f, c)
<1> USE DEF RunInv, UseInv, Typed, TypeOK
<1> DEFINE m == proc[p].seen
           c == m.capture
<1>1. CASE GateReplay(p)
  BY <1>1 DEF GateReplay
<1>2. CASE Trusting(p)
  <2>1. /\ m = disk["manifest.json"] /\ m \in Manifests /\ c \in Captures /\ Valid
        /\ \A f \in FilesOf(c) : disk[f] = Produces(f, c) /\ disk[f] # Absent
    <3>1. m = disk["manifest.json"] /\ Valid
      BY <1>2 DEF SeenIsCurrent, TrustedIsValid, Holding
    <3>2. m \in Manifests /\ c \in Captures
      BY <3>1 DEF Valid, ManifestReadable, Required, DiskTypeOK, Manifests
    <3> QED BY <3>1, <3>2, WholeIfValid, FilesOfFacts, ContentFacts DEF ValidBundleIsWhole
  <2>2. AccountsOf[c] \subseteq AccountFiles /\ AccountsOf[c] \subseteq FilesOf(c)
    BY <2>1, FilesOfFacts DEF FilesOf
  <2>3. disk["transaction.json"] = SignatureOf[c]
    BY <2>1 DEF Valid, DocumentsAgree
  <2>4. CASE LoadTransaction(p)
    <3>1. /\ pc[p] = "transaction" /\ pc'[p] = "listing"
          /\ proc' = [proc EXCEPT ![p].gathered["transaction.json"] = disk["transaction.json"]]
      BY <2>4 DEF LoadTransaction
    <3>2. /\ proc'[p].seen = m
          /\ proc'[p].gathered = [proc[p].gathered EXCEPT !["transaction.json"] = disk["transaction.json"]]
          /\ DOMAIN proc[p].gathered = Indexable
      BY <3>1 DEF Locals, Indexes
    <3>3. "transaction.json" \in Indexable
      BY PathFacts DEF Documents
    <3> QED BY <2>3, <3>1, <3>2, <3>3 DEF Replaying
  <2>5. CASE LoadAccount(p)
    <3> PICK g \in proc[p].todo :
          /\ proc' = [proc EXCEPT ![p].todo = @ \ {g}, ![p].gathered[g] = disk[g]]
          /\ UNCHANGED pc
      BY <2>5 DEF LoadAccount
    <3>1. /\ pc[p] = "load" /\ pc'[p] = "load" /\ proc'[p].seen = m
          /\ proc'[p].todo = proc[p].todo \ {g}
          /\ proc'[p].gathered = [proc[p].gathered EXCEPT ![g] = disk[g]]
          /\ DOMAIN proc[p].gathered = Indexable
      BY <2>5 DEF LoadAccount, Locals, Indexes
    <3>2. proc'[p].gathered["transaction.json"] = SignatureOf[c]
      BY <2>3, <3>1, PathFacts DEF LoadedSoFar, Documents
    <3>3. ASSUME NEW f \in AccountsOf[c]
          PROVE  f \in proc'[p].todo \/ proc'[p].gathered[f] = Produces(f, c)
      BY <2>1, <2>2, <3>1, FilesOfFacts, PathFacts DEF LoadedSoFar
    <3> QED BY <3>1, <3>2, <3>3 DEF Replaying
  <2>6. CASE OpenOutput(p)
    BY <2>6 DEF OpenOutput, Replaying, LoadedSoFar
  <2>7. /\ ~(\E j \in Jobs : StartCommand(p, j)) /\ ~BuildStep(p) /\ ~ReadManifest(p) /\ ~CheckFileSet(p)
        /\ ~VerifyFile(p) /\ ~ReadDocuments(p)
    BY <1>2 DEF StartCommand, BuildStep, OpenFile, WriteFile, EndPhase, WalkBundle, HashFile, OpenManifest,
       WriteManifest, ReadManifest, CheckFileSet, VerifyFile, ReadDocuments, Trusting
  <2>8. ~EmitReplay(p) /\ ~RefuseReplay(p) /\ ~CompareReplay(p) /\ ~WriteComparison(p) /\ ~ChooseReplay(p)
        /\ ~Accept(p) /\ ~ReportPass(p) /\ ~BackendFails(p) /\ ~Crash(p)
    BY DEF EmitReplay, RefuseReplay, CompareReplay, WriteComparison, ChooseReplay, Accept, ReportPass,
       BackendFails, Crash, CompareNext
  <2>9. CASE ListAccounts(p)
    <3> DEFINE inputs == {f \in AccountFiles : disk[f] # Absent}
    <3>1. /\ pc[p] = "listing" /\ pc'[p] = "load"
          /\ proc' = [proc EXCEPT ![p].todo = inputs]
      BY <2>9 DEF ListAccounts
    <3>2. /\ proc'[p].seen = m /\ proc'[p].todo = inputs
          /\ proc'[p].gathered = proc[p].gathered
      <4> HIDE DEF inputs
      <4> QED BY <3>1 DEF Locals
    <3>3. AccountsOf[c] \subseteq inputs
      BY <2>1, <2>2
    <3> QED BY <3>1, <3>2, <3>3 DEF Replaying, LoadedSoFar
  <2> QED BY <1>1, <2>4, <2>5, <2>6, <2>7, <2>8, <2>9
          DEF Act, NodeStep, ValidateStep, BackendStep, JudgeStep
<1>3. CASE ~Trusting(p)
  <2>1. ~BackendStep(p) /\ ~JudgeStep(p) /\ ~BackendFails(p) /\ ~Crash(p)
    BY <1>3 DEF BackendStep, LoadTransaction, ListAccounts, LoadAccount, OpenOutput, EmitReplay, JudgeStep,
       GateReplay,
       RefuseReplay, CompareReplay, WriteComparison, ChooseReplay, Accept, ReportPass, BackendFails, Crash,
       Trusting
  <2>2. ~(\E j \in Jobs : StartCommand(p, j))
    BY DEF StartCommand
  <2>3. ~ValidateStep(p)
    BY DEF ValidateStep, ReadManifest, CheckFileSet, VerifyFile, ReadDocuments, AfterValidation
  <2>4. ~BuildStep(p)
    <3>1. ~EndPhase(p)
      BY DEF EndPhase, NextPhase
    <3> QED BY <3>1 DEF BuildStep, OpenFile, WriteFile, WalkBundle, HashFile, OpenManifest, WriteManifest
  <2> QED BY <2>1, <2>2, <2>3, <2>4 DEF Act, NodeStep
<1> QED BY <1>2, <1>3

\* A replay that ends ran the bundle that is in the directory.
LEMMA EmittedRan ==
    ASSUME RunInv, NEW p \in Processes, pc[p] = "emit"
    PROVE  /\ RanCapture(proc[p].gathered, disk["manifest.json"].capture)
           /\ disk["manifest.json"] \in Manifests
           /\ Eligible(disk["manifest.json"])
<1>1. proc[p].seen = disk["manifest.json"] /\ Valid
  BY DEF RunInv, UseInv, SeenIsCurrent, TrustedIsValid, Holding, Trusting
<1>2. disk["manifest.json"] \in Manifests
  BY <1>1 DEF RunInv, UseInv, Typed, TypeOK, DiskTypeOK, Valid, ManifestReadable, Required
<1> QED BY <1>1, <1>2 DEF RunInv, LoadedSoFar, Replaying, Replayable, RanCapture

LEMMA RanStays ==
    ASSUME RunInv, Typed', NEW p \in Processes, Act(p) \/ \E j \in Jobs : StartCommand(p, j), ~BuildStep(p)
    PROVE  /\ disk'["manifest.json"] = disk["manifest.json"]
           /\ RanThis(disk["replay.json"]) => RanThis(disk["replay.json"])'
<1>1. disk'["manifest.json"] = disk["manifest.json"]
  <2>1. CASE \E j \in Jobs : StartCommand(p, j)
    BY <2>1 DEF StartCommand
  <2>2. CASE Act(p)
    <3>1. ValidateStep(p) \/ BackendStep(p) \/ JudgeStep(p) \/ BackendFails(p) \/ Crash(p)
      BY <2>2 DEF Act, NodeStep
    <3> QED BY <3>1, OthersAreQuiet DEF RunInv, UseInv
  <2> QED BY <2>1, <2>2
<1>2. "replay.json" \in Outputs
  BY DEF Outputs
<1> QED BY <1>1, <1>2, OutputStep, EmittedRan DEF RanThis, RunInv, UseInv

LEMMA FreshStep ==
    ASSUME RunInv, Typed', NEW p \in Processes, Act(p) \/ \E j \in Jobs : StartCommand(p, j), ComparesFresh(p)'
    PROVE  /\ proc'[p].job.replayFile = "replay.json"
           /\ RanThis(disk["replay.json"])'
           /\ pc'[p] \in {"report", "accept", "passed"} => RanThis(proc[p].judged.replay)'
<1> USE DEF RunInv, UseInv, Typed, TypeOK, ComparesFresh, Running, Holding, Trusting
<1>1. ~BuildStep(p)
  <2>1. ~EndPhase(p)
    BY DEF EndPhase, NextPhase
  <2> QED BY <2>1 DEF BuildStep, OpenFile, WriteFile, WalkBundle, HashFile, OpenManifest, WriteManifest
<1>2. ~(\E j \in Jobs : StartCommand(p, j))
  <2> SUFFICES ASSUME NEW j \in Jobs, StartCommand(p, j) PROVE FALSE
    OBVIOUS
  <2>1. CASE j.command = "bundle"
    BY <2>1 DEF StartCommand
  <2>2. CASE j.command # "bundle"
    BY <2>2 DEF StartCommand, FirstRoutine, Locals
  <2> QED BY <2>1, <2>2
<1>3. CASE EmitReplay(p) \/ RefuseReplay(p)
  <2>1. /\ CompareNext(p) /\ pc[p] \in {"emit", "refuse"}
        /\ disk' = [disk EXCEPT ![ReplayOut(proc[p].job)] =
                      IF pc[p] = "emit" THEN Replay(proc[p].gathered) ELSE Refusal]
    BY <1>3 DEF EmitReplay, RefuseReplay
  <2>2. proc[p].job \in Commands
    BY <2>1 DEF RunsItsJob, Building, BuildPhases
  <2>3. proc'[p].job.replayFile = "replay.json" /\ proc[p].job.out = Default /\ pc'[p] = "manifest"
    BY <2>1, <2>2, HandOver
  <2>4. disk'["replay.json"] = IF pc[p] = "emit" THEN Replay(proc[p].gathered) ELSE Refusal
    BY <2>1, <2>3 DEF ReplayOut, DiskTypeOK, Files, BundleFiles
  <2>5. disk'["manifest.json"] = disk["manifest.json"]
    BY <1>1, RanStays
  <2>6. RanThis(disk["replay.json"])'
    BY <2>1, <2>4, <2>5, EmittedRan DEF RanThis, Replay, Refusal
  <2> QED BY <2>3, <2>6
<1>4. CASE ChooseReplay(p)
  <2>1. proc'[p].routine = IF NeedsReplay(proc[p].job) THEN "replay" ELSE "compare"
    BY <1>4 DEF ChooseReplay, Locals
  <2>2. proc'[p].job = proc[p].job
    BY <1>4 DEF ChooseReplay, Locals
  <2> QED BY <2>1, <2>2 DEF NeedsReplay
<1>5. CASE ComparesFresh(p) /\ proc'[p].job = proc[p].job
  <2>1. proc'[p].job.replayFile = "replay.json" /\ RanThis(disk["replay.json"])'
    BY <1>1, <1>5, RanStays DEF FreshIsCurrent
  <2>2. CASE CompareReplay(p)
    <3>1. proc'[p].judged.replay = disk["replay.json"]
      <4> DEFINE content == disk[proc[p].job.replayFile]
      <4>1. PICK s \in StatusesOf(content, proc[p].seen) :
              proc' = [proc EXCEPT ![p].judged = [replay |-> content, status |-> s]]
        BY <2>2 DEF CompareReplay
      <4>2. proc'[p].judged = [replay |-> content, status |-> s]
        <5> HIDE DEF content
        <5> QED BY <4>1 DEF Locals
      <4> QED BY <1>5, <4>2 DEF FreshIsCurrent
    <3>2. RanThis(disk["replay.json"])
      BY <1>5 DEF FreshIsCurrent
    <3> QED BY <1>1, <2>1, <3>1, <3>2, RanStays DEF RanThis
  <2>3. CASE WriteComparison(p) \/ Accept(p)
    <3>1. proc' = proc /\ pc[p] \in {"report", "accept"}
      BY <2>3 DEF WriteComparison, Accept
    <3> QED BY <1>1, <1>5, <2>1, <3>1, RanStays DEF FreshIsCurrent, RanThis
  <2>4. CASE pc'[p] \notin {"report", "accept", "passed"}
    BY <2>1, <2>4
  <2>5. pc'[p] \in {"report", "accept", "passed"} => CompareReplay(p) \/ WriteComparison(p) \/ Accept(p)
    BY <1>1, <1>2 DEF Act, NodeStep, ValidateStep, ReadManifest, CheckFileSet, VerifyFile, ReadDocuments,
       AfterValidation, BackendStep, LoadTransaction, ListAccounts, LoadAccount, OpenOutput, EmitReplay,
          JudgeStep,
       GateReplay, RefuseReplay, CompareReplay, WriteComparison, ChooseReplay, Accept, ReportPass,
       BackendFails, Crash, CompareNext
  <2> QED BY <2>2, <2>3, <2>4, <2>5
<1>6. CASE \/ ReadManifest(p) \/ CheckFileSet(p) \/ VerifyFile(p) \/ ReadDocuments(p) \/ OpenOutput(p)
           \/ GateReplay(p) \/ WriteComparison(p) \/ Accept(p) \/ ReportPass(p) \/ BackendFails(p) \/ Crash(p)
  <2>1. proc'[p].job = proc[p].job /\ proc'[p].routine = proc[p].routine /\ Running(p)
    <3>1. CASE ReadManifest(p)
      BY <3>1 DEF ReadManifest, Locals
    <3>2. CASE CheckFileSet(p) \/ VerifyFile(p)
      BY <3>2 DEF CheckFileSet, VerifyFile, Locals
    <3>3. CASE \/ ReadDocuments(p) \/ OpenOutput(p) \/ GateReplay(p) \/ WriteComparison(p) \/ Accept(p)
               \/ ReportPass(p) \/ BackendFails(p) \/ Crash(p)
      BY <3>3 DEF ReadDocuments, OpenOutput, GateReplay, WriteComparison, Accept, ReportPass, BackendFails, Crash
    <3> QED BY <1>6, <3>1, <3>2, <3>3
  <2> QED BY <1>5, <2>1
<1>7. CASE LoadTransaction(p) \/ ListAccounts(p) \/ LoadAccount(p)
  <2>1. proc'[p].job = proc[p].job /\ proc'[p].routine = proc[p].routine /\ Running(p)
    <3>1. CASE LoadTransaction(p) \/ ListAccounts(p)
      BY <3>1 DEF LoadTransaction, ListAccounts, Locals
    <3>2. CASE LoadAccount(p)
      BY <3>2 DEF LoadAccount, Locals
    <3> QED BY <1>7, <3>1, <3>2
  <2> QED BY <1>5, <2>1
<1>8. CASE CompareReplay(p)
  <2>1. proc'[p].job = proc[p].job /\ proc'[p].routine = proc[p].routine /\ Running(p)
    BY <1>8 DEF CompareReplay, Locals
  <2> QED BY <1>5, <2>1
<1> QED BY <1>1, <1>2, <1>3, <1>4, <1>6, <1>7, <1>8
        DEF Act, NodeStep, ValidateStep, BackendStep, JudgeStep

LEMMA InitRun == Init => RunInv
<1> SUFFICES ASSUME Init PROVE RunInv
  OBVIOUS
<1>1. \A f \in Outputs : disk[f] = Absent
  BY FilesOfFacts, PathFacts DEF Init, WholeBundle
<1>2. ReplaysRunEligibleCaptures
  BY <1>1 DEF ReplaysRunEligibleCaptures
<1>3. Replaying /\ LoadedSoFar /\ FreshIsCurrent
  BY DEF Init, Replaying, LoadedSoFar, FreshIsCurrent, ComparesFresh, Running, Holding, Trusting
<1> QED BY <1>2, <1>3, InitWhole, InitUse, InitPass DEF RunInv

LEMMA NextRun == Exclusion = "alone" /\ RunInv /\ [Next]_vars => RunInv'
<1> SUFFICES ASSUME Exclusion = "alone", RunInv, [Next]_vars PROVE RunInv'
  OBVIOUS
<1>1. WholeInv' /\ UseInv' /\ PassInv' /\ Typed /\ Typed'
  BY NextWhole, NextUse, NextPass DEF RunInv, WholeInv, UseInv
<1>2. CASE UNCHANGED vars
  BY <1>1, <1>2 DEF RunInv, vars, Replaying, LoadedSoFar, ReplaysRunEligibleCaptures, FreshIsCurrent,
     ComparesFresh, Running, Holding, Trusting, RanThis
<1>3. ASSUME NEW p \in Processes, Act(p) \/ \E j \in Jobs : StartCommand(p, j)
      PROVE  RunInv'
  <2>1. \A q \in Processes : q # p => pc'[q] = pc[q] /\ proc'[q] = proc[q]
    BY <1>1, <1>3, OthersKeep
  <2>2. Replaying'
    BY <1>1, <1>3, <2>1, LoadStep DEF RunInv, Replaying
  <2>3. LoadedSoFar'
    BY <1>1, <1>3, <2>1, LoadStep DEF RunInv, LoadedSoFar
  <2>4. ReplaysRunEligibleCaptures'
    <3> SUFFICES ASSUME NEW f \in Outputs, disk'[f] \notin {Absent, Torn}, disk'[f].kind = "replay"
                 PROVE  \E c \in Captures : EligibilityOf[c] = "SUPPORTED" /\ RanCapture(disk'[f].inputs, c)
      BY DEF ReplaysRunEligibleCaptures, RanCapture
    <3>1. CASE disk'[f] = disk[f]
      BY <3>1 DEF RunInv, ReplaysRunEligibleCaptures
    <3>2. CASE pc[p] = "emit" /\ disk'[f].inputs = proc[p].gathered
      BY <3>2, EmittedRan DEF Eligible, Manifests
    <3> QED BY <1>1, <1>3, <3>1, <3>2, OutputStep
  <2>5. FreshIsCurrent'
    <3> SUFFICES ASSUME NEW q \in Processes, ComparesFresh(q)'
                 PROVE  /\ proc'[q].job.replayFile = "replay.json"
                        /\ RanThis(disk["replay.json"])'
                        /\ pc'[q] \in {"report", "accept", "passed"} => RanThis(proc[q].judged.replay)'
      BY DEF FreshIsCurrent
    <3>1. CASE q = p
      BY <1>1, <1>3, <3>1, FreshStep
    <3>2. CASE q # p
      <4>1. ComparesFresh(q) /\ pc[q] # "idle"
        BY <2>1, <3>2 DEF ComparesFresh, Running, Holding, Trusting
      <4>2. ~BuildStep(p)
        BY <3>2, <4>1 DEF BuildStep, OpenFile, WriteFile, EndPhase, WalkBundle, HashFile, OpenManifest,
           WriteManifest, Building, BuildPhases, RunInv, UseInv, BuildsAlone
      <4>3. /\ proc[q].job.replayFile = "replay.json"
            /\ RanThis(disk["replay.json"])
            /\ pc[q] \in {"report", "accept", "passed"} => RanThis(proc[q].judged.replay)
        BY <4>1 DEF RunInv, FreshIsCurrent
      <4>4. RanThis(proc[q].judged.replay)' <=> RanThis(proc[q].judged.replay)
        BY <1>1, <1>3, <2>1, <3>2, <4>2, RanStays DEF RanThis
      <4> QED BY <1>1, <1>3, <2>1, <3>2, <4>2, <4>3, <4>4, RanStays
    <3> QED BY <3>1, <3>2
  <2> QED BY <1>1, <2>2, <2>3, <2>4, <2>5 DEF RunInv
<1> QED BY <1>2, <1>3, NextCases

\* Whatever a replay holds, an eligible capture recorded it.
THEOREM ReplaysAreEligible ==
    ASSUME Exclusion = "alone"
    PROVE  Spec => []ReplaysRunEligibleCaptures
<1>1. RunInv => ReplaysRunEligibleCaptures
  BY DEF RunInv
<1>2. Exclusion = "alone"
  OBVIOUS
<1> QED BY <1>1, <1>2, InitRun, NextRun, PTL DEF Spec

\* What assert --fresh passes on is a run of the bundle it reports on, though
\* other commands may write replay.json meanwhile.
THEOREM FreshPassesAreOfThisBundle ==
    ASSUME Exclusion = "alone"
    PROVE  Spec => []FreshPassRanThisBundle
<1>1. RunInv => FreshPassRanThisBundle
  <2> SUFFICES ASSUME RunInv, NEW p \in Processes,
                      pc[p] = "passed", proc[p].job.fresh, proc[p].job.out = Default
               PROVE  RanCapture(proc[p].judged.replay.inputs, proc[p].seen.capture)
    BY DEF FreshPassRanThisBundle
  <2>1. proc[p].seen = disk["manifest.json"]
    BY DEF RunInv, UseInv, SeenIsCurrent, Holding, Trusting
  <2>2. proc[p].judged.replay.kind = "replay"
    BY DEF RunInv, PassInv, AcceptedIsEligible
  <2>3. RanThis(proc[p].judged.replay)
    BY DEF RunInv, PassInv, Stages, FreshIsCurrent, ComparesFresh, Running, Holding, Trusting
  <2>4. proc[p].judged.replay \notin {Absent, Torn}
    BY ContentAssumption DEF RunInv, UseInv, Typed, TypeOK, RunsItsJob, Locals
  <2> QED BY <2>1, <2>2, <2>3, <2>4 DEF RanThis
<1>2. Exclusion = "alone"
  OBVIOUS
<1> QED BY <1>1, <1>2, InitRun, NextRun, PTL DEF Spec

\* The file a comparison judges is a replay of an eligible capture when it is
\* read, and the comparison keeps what it read.
LEMMA JudgedStep ==
    ASSUME RunInv, JudgedIsEligible, NEW p \in Processes,
           Act(p) \/ \E j \in Jobs : StartCommand(p, j),
           pc'[p] \in {"report", "accept", "passed"}
    PROVE  RanEligible(proc'[p].judged.replay)
<1> USE DEF RunInv, UseInv, Typed, TypeOK
<1>1. CASE CompareReplay(p)
  <2> DEFINE content == disk[proc[p].job.replayFile]
  <2>1. PICK s \in StatusesOf(content, proc[p].seen) :
          proc' = [proc EXCEPT ![p].judged = [replay |-> content, status |-> s]]
    BY <1>1 DEF CompareReplay
  <2>2. pc[p] = "compare" /\ proc[p].job \in Commands
    BY <1>1 DEF CompareReplay, RunsItsJob, Building, BuildPhases
  <2>3. proc[p].job.replayFile \in Outputs
    BY <2>2 DEF Commands, Outputs
  <2>4. content \notin {Absent, Torn}
    BY <2>1 DEF StatusesOf
  <2>5. RanEligible(content)
    BY <2>3, <2>4 DEF ReplaysRunEligibleCaptures, RanEligible
  <2>6. proc'[p].judged = [replay |-> content, status |-> s]
    <3> HIDE DEF content
    <3> QED BY <2>1 DEF Locals
  <2> HIDE DEF content
  <2> QED BY <2>5, <2>6
<1>2. CASE WriteComparison(p) \/ Accept(p)
  <2>1. proc' = proc /\ pc[p] \in {"report", "accept"}
    BY <1>2 DEF WriteComparison, Accept
  <2> QED BY <2>1 DEF JudgedIsEligible
<1>3. ~BuildStep(p)
  <2>1. ~EndPhase(p)
    BY DEF EndPhase, NextPhase
  <2> QED BY <2>1 DEF BuildStep, OpenFile, WriteFile, WalkBundle, HashFile, OpenManifest, WriteManifest
<1>4. ~(\E j \in Jobs : StartCommand(p, j))
  BY DEF StartCommand
<1>5. ~ValidateStep(p) /\ ~BackendStep(p) /\ ~BackendFails(p) /\ ~Crash(p)
  BY DEF ValidateStep, ReadManifest, CheckFileSet, VerifyFile, ReadDocuments, AfterValidation, BackendStep,
     LoadTransaction, ListAccounts, LoadAccount, OpenOutput, EmitReplay, BackendFails, Crash, CompareNext
<1>6. ~GateReplay(p) /\ ~RefuseReplay(p) /\ ~ChooseReplay(p) /\ ~ReportPass(p)
  BY DEF GateReplay, RefuseReplay, ChooseReplay, ReportPass, CompareNext
<1> QED BY <1>1, <1>2, <1>3, <1>4, <1>5, <1>6 DEF Act, NodeStep, JudgeStep

LEMMA NextJudged ==
    Exclusion = "alone" /\ RunInv /\ JudgedIsEligible /\ [Next]_vars => JudgedIsEligible'
<1> SUFFICES ASSUME RunInv, JudgedIsEligible, [Next]_vars, NEW q \in Processes,
                    pc'[q] \in {"report", "accept", "passed"}
             PROVE  RanEligible(proc'[q].judged.replay)
  BY DEF JudgedIsEligible, RanEligible, RanCapture
<1>1. CASE UNCHANGED vars
  BY <1>1 DEF vars, JudgedIsEligible
<1>2. ASSUME NEW p \in Processes, Act(p) \/ \E j \in Jobs : StartCommand(p, j)
      PROVE  RanEligible(proc'[q].judged.replay)
  <2>1. CASE q = p
    BY <1>2, <2>1, JudgedStep
  <2>2. CASE q # p
    <3>1. pc'[q] = pc[q] /\ proc'[q] = proc[q]
      BY <1>2, <2>2, OthersKeep DEF RunInv, UseInv
    <3> QED BY <3>1 DEF JudgedIsEligible
  <2> QED BY <2>1, <2>2
<1> QED BY <1>1, <1>2, NextCases

\* Whatever file an assertion is given, and whoever replaces it meanwhile, it
\* passes only on a run of an eligible capture.
THEOREM PassesJudgeEligibleRuns ==
    ASSUME Exclusion = "alone"
    PROVE  Spec => []PassJudgedAnEligibleRun
<1>1. RunInv /\ JudgedIsEligible => PassJudgedAnEligibleRun
  BY DEF RunInv, PassInv, AcceptedIsEligible, JudgedIsEligible, RanEligible, PassJudgedAnEligibleRun
<1>2. Init => JudgedIsEligible
  BY DEF Init, JudgedIsEligible
<1>3. Exclusion = "alone"
  OBVIOUS
<1> QED BY <1>1, <1>2, <1>3, InitRun, NextRun, NextJudged, PTL DEF Spec

=============================================================================
