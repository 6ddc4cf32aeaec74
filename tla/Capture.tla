------------------------------- MODULE Capture -------------------------------
(***************************************************************************)
(* Processes that inspect one transaction into its artifact directory and  *)
(* make bundles of what they find there: the RPC reads and their order, the *)
(* files written while and after reading, and createBundle's reads of them *)
(* while other processes run, die, or leave their work half done.          *)
(*                                                                         *)
(* The ledger is told by its slots: a node answers a question about an     *)
(* account with the state at some slot, its own, which may lag.  An        *)
(* observation is the slot it was made at.  What getTransaction answers is *)
(* the same whenever it is asked.                                          *)
(***************************************************************************)
EXTENDS RpcClient

CONSTANTS
    Processes,
    Jobs,         \* the commands typed: "capture", "inspect" <signature>, "bundle"
    MaxJobs,      \* bound: commands started in a behaviour
    Apart,        \* whether the users keep inspections of it apart
    AccountKeys,  \* the transaction's accounts, in order
    GroupSize,    \* accounts in one getMultipleAccounts
    Programs,     \* its upgradeable programs; also the names of their .so files
    HasLookups,   \* whether it uses address lookup tables
    TxSlot,       \* the slot it executed in
    MaxSlot,      \* bound: the ledger's last slot
    Absent, Torn, \* no such file; a file truncated and not yet written
    Null          \* not found

Keys == {AccountKeys[i] : i \in DOMAIN AccountKeys}

Artifacts == {"transaction.json", "metadata.json", "accounts.json", "programs.json",
              "lookup-tables.json", "logs.txt"}

\* The artifacts the transaction alone determines, but for the time and the
\* block noted in metadata.json, which no other file is made from.
Immutable == {"transaction.json", "metadata.json", "logs.txt"}

\* What createBundle parses at its start.
Parsed == Artifacts \ {"logs.txt"}

Slots == 1..MaxSlot

ASSUME CaptureAssumption ==
    /\ Calls = Processes \X {1, 2}
    /\ Jobs \subseteq {"capture", "inspect", "bundle"}
    /\ MaxJobs \in Nat
    /\ Apart \in BOOLEAN
    /\ AccountKeys \in Seq(Keys) /\ AccountKeys # << >>
    /\ GroupSize \in Nat \ {0}
    /\ HasLookups \in BOOLEAN
    /\ MaxSlot \in Nat
    /\ TxSlot \in Slots
    /\ Programs \cap Artifacts = {}
    /\ {Absent, Torn, Null} \cap Slots = {}
    /\ Absent # Torn

VARIABLES
    now,      \* the ledger's slot
    dir,      \* the artifact directory
    bundle,   \* what the last createBundle run that ended was made from
    pc, proc, \* the control point and the locals of each process
    started   \* commands started so far

vars == <<calls, now, dir, bundle, pc, proc, started>>

NoAccounts == [observed |-> [k \in Keys |-> Null], capturedAt |-> 0]

NoLocals ==
    [job |-> Null,
     accounts |-> NoAccounts,                \* the answer of getAccountsAtSlot
     group |-> 0,                            \* the group asked for
     recorded |-> [x \in Programs |-> Null], \* collectPrograms' results
     program |-> Null,                       \* the program asked for
     lookups |-> Null,
     todo |-> {},                            \* programs to ask for, files to write or read
     open |-> {},                            \* files truncated
     got |-> [f \in Artifacts \cup Programs |-> Absent], \* what createBundle has read
     troubles |-> 0,                         \* attempts that failed while it reads (history)
     denied |-> FALSE]                       \* it was told no: an RPC error or null (history)

Init ==
    /\ calls = [k \in Calls |-> Silent]
    /\ now = TxSlot
    /\ dir = [f \in Artifacts \cup Programs |-> Absent]
    /\ bundle = Null
    /\ pc = [p \in Processes |-> "idle"]
    /\ proc = [p \in Processes |-> NoLocals]
    /\ started = 0

\* The first call of a process; the second one only fetches the wire form of
\* the transaction.
First(p) == <<p, 1>>
CallsOf(p) == {p} \X {1, 2}

Reading == {"transaction", "accounts", "program", "lookups", "block"}
Inspecting == Reading \cup {"executable", "write"}

Tick ==
    /\ now < MaxSlot
    /\ now' = now + 1
    /\ UNCHANGED <<calls, dir, bundle, pc, proc, started>>

-----------------------------------------------------------------------------
(* Control.                                                                *)

Goto(p, l) == pc' = [pc EXCEPT ![p] = l]

\* main() returns or reports an error, or the process is killed: answers that
\* are still to come are lost, and what was written stays.
Return(p) ==
    /\ Goto(p, "idle")
    /\ proc' = [proc EXCEPT ![p] = NoLocals]
    /\ Drop(CallsOf(p))

Crash(p) ==
    /\ pc[p] # "idle"
    /\ Return(p)
    /\ UNCHANGED <<now, dir, bundle, started>>

MayStart(j) == (Apart /\ j # "bundle") => \A q \in Processes : pc[q] \notin Inspecting

StartCommand(p, j) ==
    /\ pc[p] = "idle"
    /\ started < MaxJobs
    /\ MayStart(j)
    /\ started' = started + 1
    /\ IF j = "bundle"
       THEN /\ Goto(p, "read")
            /\ proc' = [proc EXCEPT ![p].job = j, ![p].todo = Parsed]
            /\ UNCHANGED calls
       ELSE /\ Goto(p, "transaction")
            /\ proc' = [proc EXCEPT ![p].job = j]
            /\ Send(CallsOf(p))
    /\ UNCHANGED <<now, dir, bundle>>

-----------------------------------------------------------------------------
(* The node, and the calls while they are under way.                       *)

\* Mutant: the request does not say how recent the state has to be.
AnySlot == 1

MinContextSlot == TxSlot

\* A node that has not reached the slot asked for answers with an RpcError.
NodeSlots == {c \in 1..now : c >= MinContextSlot}

Results(p) ==
    CASE pc[p] = "transaction" -> {"transaction", Null}
      [] pc[p] = "program" -> [at : NodeSlots, executable : BOOLEAN]
      [] pc[p] = "block" -> {"block"}
      [] OTHER -> NodeSlots

Answer(p) ==
    \E k \in CallsOf(p), reply \in Replies, value \in Results(p) \cup {NoResult} :
        /\ (Meaning(reply) = "result") <=> (value # NoResult)
        /\ Respond(k, reply, value)
        /\ proc' = [proc EXCEPT
              ![p].troubles = IF Meaning(reply) = "failure" /\ @ <= Retries THEN @ + 1 ELSE @,
              ![p].denied = @ \/ Meaning(reply) = "RpcError" \/ value = Null]
        /\ UNCHANGED <<now, dir, bundle, pc, started>>

AttemptTimesOut(p) ==
    \E k \in CallsOf(p) :
        /\ TimeOut(k)
        /\ proc' = [proc EXCEPT ![p].troubles = IF @ <= Retries THEN @ + 1 ELSE @]
        /\ UNCHANGED <<now, dir, bundle, pc, started>>

NextAttempt(p) ==
    \E k \in CallsOf(p) :
        /\ Retry(k)
        /\ UNCHANGED <<now, dir, bundle, pc, proc, started>>

Failed(p) == \E k \in CallsOf(p) : calls[k].phase = "rejected"

\* A read inspectTransaction cannot do without fails, and it throws.
GiveUp(p) ==
    /\ pc[p] \in Reading \ {"block"}
    /\ Failed(p)
    /\ Goto(p, "gaveUp")
    /\ Drop(CallsOf(p))
    /\ UNCHANGED <<now, dir, bundle, proc, started>>

ReportFailure(p) ==
    /\ pc[p] = "gaveUp"
    /\ Return(p)
    /\ UNCHANGED <<now, dir, bundle, started>>

-----------------------------------------------------------------------------
(* inspectTransaction.                                                     *)

Resolved(p) == calls[First(p)].phase = "resolved"
Result(p) == calls[First(p)].result

\* Both forms of the transaction are there, or one of them is unknown.
TransactionArrives(p) ==
    /\ pc[p] = "transaction"
    /\ \A k \in CallsOf(p) : calls[k].phase = "resolved"
    /\ IF \E k \in CallsOf(p) : calls[k].result = Null
       THEN /\ Goto(p, "gaveUp")
            /\ Drop(CallsOf(p))
            /\ UNCHANGED proc
       ELSE /\ Goto(p, "accounts")
            /\ calls' = [k \in Calls |-> IF k = First(p) THEN Begun
                                         ELSE IF k \in CallsOf(p) THEN Silent ELSE calls[k]]
            /\ proc' = [proc EXCEPT ![p].group = 1]
    /\ UNCHANGED <<now, dir, bundle, started>>

Groups == Chunks(AccountKeys, GroupSize)

InGroup(k, i) == \E j \in DOMAIN Groups[i] : Groups[i][j] = k

\* Mutant: the slot of the last group instead of the latest one.
LastSlot(a, b) == b

LatestSlot(a, b) == IF a > b THEN a ELSE b

\* The programs come after the accounts, then the lookup tables, then the
\* block.
NextRead(left) ==
    IF left # {} THEN "program" ELSE IF HasLookups THEN "lookups" ELSE "block"

Pick(left) == IF left = {} THEN Null ELSE CHOOSE x \in left : TRUE

AccountsArrive(p) ==
    LET slot == Result(p)
        i == proc[p].group
        answer == [observed |-> [k \in Keys |-> IF InGroup(k, i) THEN slot
                                                ELSE proc[p].accounts.observed[k]],
                   capturedAt |-> LatestSlot(proc[p].accounts.capturedAt, slot)]
    IN  /\ pc[p] = "accounts"
        /\ Resolved(p)
        /\ IF i < Len(Groups)
           THEN /\ proc' = [proc EXCEPT ![p].accounts = answer, ![p].group = i + 1]
                /\ UNCHANGED pc
           ELSE /\ proc' = [proc EXCEPT ![p].accounts = answer,
                               ![p].todo = Programs, ![p].program = Pick(Programs)]
                /\ Goto(p, NextRead(Programs))
        /\ Send({First(p)})
        /\ UNCHANGED <<now, dir, bundle, started>>

\* collectPrograms goes on to the next program, or is done.
NextProgram(p, recorded) ==
    LET left == proc[p].todo \ {proc[p].program}
    IN  /\ proc' = [proc EXCEPT ![p].recorded = recorded, ![p].todo = left,
                               ![p].program = Pick(left)]
        /\ Goto(p, NextRead(left))
        /\ Send({First(p)})

\* Mutant: a file that is there already is not written again.
KeepsFile(p) == Result(p).executable /\ dir[proc[p].program] = Absent

\* Mutant: `inspect` makes no bundle, so it is thought to need no bytes.
NeedsBytes(p) == Result(p).executable /\ proc[p].job = "capture"

HasBytes(p) == Result(p).executable

\* The program's bytes go to disk as soon as they are there.
ProgramArrives(p) ==
    LET recorded == [proc[p].recorded EXCEPT ![proc[p].program] =
                       IF Result(p).executable THEN Result(p).at ELSE Null]
    IN  /\ pc[p] = "program"
        /\ Resolved(p)
        /\ IF HasBytes(p)
           THEN /\ Goto(p, "executable")
                /\ dir' = [dir EXCEPT ![proc[p].program] = Torn]
                /\ proc' = [proc EXCEPT ![p].recorded = recorded]
                /\ Drop(CallsOf(p))
           ELSE /\ NextProgram(p, recorded)
                /\ UNCHANGED dir
        /\ UNCHANGED <<now, bundle, started>>

WriteExecutable(p) ==
    /\ pc[p] = "executable"
    /\ dir' = [dir EXCEPT ![proc[p].program] = proc[p].recorded[proc[p].program]]
    /\ NextProgram(p, proc[p].recorded)
    /\ UNCHANGED <<now, bundle, started>>

LookupsArrive(p) ==
    /\ pc[p] = "lookups"
    /\ Resolved(p)
    /\ Goto(p, "block")
    /\ proc' = [proc EXCEPT ![p].lookups = Result(p)]
    /\ Send({First(p)})
    /\ UNCHANGED <<now, dir, bundle, started>>

\* The block is wanted, not needed.
BlockSettled(p) ==
    /\ pc[p] = "block"
    /\ Resolved(p) \/ Failed(p)
    /\ Goto(p, "write")
    /\ proc' = [proc EXCEPT ![p].todo = Artifacts, ![p].group = 0,
                           ![p].troubles = 0, ![p].denied = FALSE]
    /\ Drop(CallsOf(p))
    /\ UNCHANGED <<now, dir, bundle, started>>

Produced(p, f) ==
    CASE f \in Immutable -> "history"
      [] f = "accounts.json" -> proc[p].accounts
      [] f = "programs.json" -> proc[p].recorded
      [] f = "lookup-tables.json" -> proc[p].lookups

\* Promise.all writes the six artifacts at once.
OpenArtifact(p) ==
    /\ pc[p] = "write"
    /\ \E f \in proc[p].todo :
         /\ dir' = [dir EXCEPT ![f] = Torn]
         /\ proc' = [proc EXCEPT ![p].todo = @ \ {f}, ![p].open = @ \cup {f}]
    /\ UNCHANGED <<calls, now, bundle, pc, started>>

WriteArtifact(p) ==
    /\ pc[p] = "write"
    /\ \E f \in proc[p].open :
         /\ dir' = [dir EXCEPT ![f] = Produced(p, f)]
         /\ proc' = [proc EXCEPT ![p].open = @ \ {f}]
    /\ UNCHANGED <<calls, now, bundle, pc, started>>

\* `capture` goes on with createBundle.
FinishInspection(p) ==
    /\ pc[p] = "write"
    /\ proc[p].todo = {}
    /\ proc[p].open = {}
    /\ IF proc[p].job = "capture"
       THEN /\ Goto(p, "read")
            /\ proc' = [proc EXCEPT ![p] = [NoLocals EXCEPT !.job = "capture", !.todo = Parsed]]
            /\ UNCHANGED calls
       ELSE Return(p)
    /\ UNCHANGED <<now, dir, bundle, started>>

-----------------------------------------------------------------------------
(* What createBundle reads of the artifacts.                               *)

\* Mutant: a truncated file is taken for its content.
IsThere(f) == dir[f] # Absent

Parses(f) == dir[f] \notin {Absent, Torn}

\* A file that is missing or does not parse ends the command.
ReadArtifact(p) ==
    /\ pc[p] = "read"
    /\ \E f \in proc[p].todo :
         IF Parses(f)
         THEN /\ proc' = [proc EXCEPT ![p].todo = @ \ {f}, ![p].got[f] = dir[f]]
              /\ UNCHANGED <<calls, pc>>
         ELSE Return(p)
    /\ UNCHANGED <<now, dir, bundle, started>>

PlanBundle(p) ==
    /\ pc[p] = "read"
    /\ proc[p].todo = {}
    /\ Goto(p, "copy")
    /\ proc' = [proc EXCEPT ![p].todo = {x \in Programs : proc[p].got["programs.json"][x] # Null}]
    /\ UNCHANGED <<calls, now, dir, bundle, started>>

\* Bytes are copied as they are, whole or not.
CopyExecutable(p) ==
    /\ pc[p] = "copy"
    /\ \E x \in proc[p].todo :
         IF dir[x] = Absent
         THEN Return(p)
         ELSE /\ proc' = [proc EXCEPT ![p].todo = @ \ {x}, ![p].got[x] = dir[x]]
              /\ UNCHANGED <<calls, pc>>
    /\ UNCHANGED <<now, dir, bundle, started>>

\* So are the lines of logs.txt.
ReadLogs(p) ==
    /\ pc[p] = "copy"
    /\ proc[p].todo = {}
    /\ IF dir["logs.txt"] = Absent
       THEN Return(p)
       ELSE /\ Goto(p, "bundle")
            /\ proc' = [proc EXCEPT ![p].got["logs.txt"] = dir["logs.txt"]]
            /\ UNCHANGED calls
    /\ UNCHANGED <<now, dir, bundle, started>>

\* transaction.json is opened again and copied; the bundle is written.
MakeBundle(p) ==
    /\ pc[p] = "bundle"
    /\ bundle' = [proc[p].got EXCEPT !["transaction.json"] = dir["transaction.json"]]
    /\ Return(p)
    /\ UNCHANGED <<now, dir, started>>

-----------------------------------------------------------------------------

Step(p) ==
    \/ AttemptTimesOut(p) \/ NextAttempt(p) \/ GiveUp(p) \/ ReportFailure(p)
    \/ TransactionArrives(p) \/ AccountsArrive(p) \/ ProgramArrives(p) \/ WriteExecutable(p)
    \/ LookupsArrive(p) \/ BlockSettled(p)
    \/ OpenArtifact(p) \/ WriteArtifact(p) \/ FinishInspection(p)
    \/ ReadArtifact(p) \/ PlanBundle(p) \/ CopyExecutable(p) \/ ReadLogs(p) \/ MakeBundle(p)

Next ==
    \/ Tick
    \/ \E p \in Processes :
         \/ \E j \in Jobs : StartCommand(p, j)
         \/ Answer(p)
         \/ Step(p)
         \/ Crash(p)

Spec == Init /\ [][Next]_vars

\* A process that can go on does, its timers included.  The node need not
\* answer, and nobody has to start or to kill a command.
FairSpec == Spec /\ \A p \in Processes : WF_vars(Step(p))

-----------------------------------------------------------------------------
(* Properties.                                                             *)

Observations == Slots \cup {Null}
AccountRecords == [observed : [Keys -> Observations], capturedAt : {0} \cup Slots]
ProgramRecords == [Programs -> Observations]

\* What a file of the directory holds, when it holds anything.
Holds(f) ==
    CASE f \in Immutable -> {"history"}
      [] f = "accounts.json" -> AccountRecords
      [] f = "programs.json" -> ProgramRecords
      [] OTHER -> Observations

IsDirectory(d) ==
    /\ DOMAIN d = Artifacts \cup Programs
    /\ \A f \in Artifacts \cup Programs : d[f] \in {Absent, Torn} \/ d[f] \in Holds(f)

IsLocals(l) ==
    /\ l.job \in Jobs \cup {Null}
    /\ l.accounts \in AccountRecords
    /\ l.group \in 0..Len(Groups)
    /\ l.recorded \in ProgramRecords
    /\ l.program \in Programs \cup {Null}
    /\ l.lookups \in Observations
    /\ l.todo \subseteq Artifacts \cup Programs
    /\ l.open \subseteq Artifacts
    /\ IsDirectory(l.got) /\ \A f \in Parsed : l.got[f] # Torn
    /\ l.troubles \in 0..(Retries + 1)
    /\ l.denied \in BOOLEAN

Labels == Inspecting \cup {"idle", "gaveUp", "read", "copy", "bundle"}

\* Every variable has its type.
TypeOK ==
    /\ \A k \in Calls : calls[k].phase \in Phases /\ calls[k].attempt \in 0..Retries
    /\ now \in Slots
    /\ IsDirectory(dir)
    /\ bundle = Null \/ IsDirectory(bundle)
    /\ pc \in [Processes -> Labels]
    /\ DOMAIN proc = Processes /\ \A p \in Processes : IsLocals(proc[p])
    /\ started \in 0..MaxJobs

\* Every account in the artifacts, and in a bundle made of them, was observed,
\* and neither it nor a program before the transaction executed, whatever
\* captures of it failed, died or ran at the same time and however far the
\* nodes lag (the "semantics" getAccountsAtSlot records).
AccountsAfter(accounts) ==
    accounts \in {Absent, Torn} \/ \A k \in Keys : accounts.observed[k] \in TxSlot..MaxSlot

ProgramsAfter(programs) ==
    \/ programs \in {Absent, Torn}
    \/ \A x \in Programs : programs[x] \in {Null} \cup TxSlot..MaxSlot

AllAfter(d) == AccountsAfter(d["accounts.json"]) /\ ProgramsAfter(d["programs.json"])

ObservedAfterExecution == AllAfter(dir) /\ (bundle # Null => AllAfter(bundle))

\* The capturedSlot of provenance.json is the slot of the latest account
\* observation, though a node that lags may answer for the last group.
CapturedSlotIsLatest ==
    bundle # Null =>
        LET accounts == bundle["accounts.json"]
        IN  /\ \A k \in Keys : accounts.observed[k] <= accounts.capturedAt
            /\ \E k \in Keys : accounts.observed[k] = accounts.capturedAt

\* An inspection that ends has replaced all that a bundle takes from the
\* directory, over the remains of any that failed or died; program bytes
\* too, which are written before anybody knows that it will end.
FinishedCaptureIsWhole ==
    [][\A p \in Processes : FinishInspection(p) =>
         /\ \A f \in Artifacts : dir[f] = Produced(p, f)
         /\ \A x \in Programs : proc[p].recorded[x] # Null => dir[x] = proc[p].recorded[x]]_vars

NamedIn(programs) == {x \in Programs : programs[x] # Null}

\* Whatever inspections that died, failed or ran at the same time left mixed
\* in the directory, programs.json names no program whose file is missing, and
\* a bundle command that has read it finds every file it then copies.
NamedProgramsAreThere ==
    /\ Parses("programs.json") => \A x \in NamedIn(dir["programs.json"]) : dir[x] # Absent
    /\ \A p \in Processes : pc[p] = "copy" => \A x \in proc[p].todo : dir[x] # Absent

\* Transient failures do not end an inspection: one that gives up was told
\* no, or failed more often than a single call retries.
GivesUpForCause ==
    \A p \in Processes : pc[p] = "gaveUp" =>
        proc[p].denied \/ proc[p].troubles > Retries

\* How far a command is, and how far one of its calls.
Stage(label) ==
    CASE label = "transaction" -> 0
      [] label = "accounts" -> 1
      [] label \in {"program", "executable"} -> 2
      [] label = "lookups" -> 3
      [] label = "block" -> 4
      [] label = "write" -> 5
      [] label = "read" -> 6
      [] label = "copy" -> 7
      [] label \in {"bundle", "gaveUp"} -> 8

Standing(phase) ==
    CASE phase = "waiting" -> 0
      [] phase = "backoff" -> 1
      [] OTHER -> 2

CallMoves(k) ==
    \/ calls[k].attempt < calls'[k].attempt
    \/ /\ calls'[k].attempt = calls[k].attempt
       /\ Standing(calls[k].phase) < Standing(calls'[k].phase)

Shrinks(S, T) == T \subseteq S /\ T # S

\* The next stage; or in the same one the next group, a file or a program
\* less to do, the bytes of the program at hand, or another state of a call.
MovesOn(p) ==
    LET l == proc[p]
        m == proc'[p]
        same == Stage(pc'[p]) = Stage(pc[p]) /\ m.group = l.group
        alike == same /\ m.todo = l.todo /\ m.open = l.open
    IN  \/ pc'[p] = "idle"
        \/ Stage(pc[p]) < Stage(pc'[p])
        \/ Stage(pc'[p]) = Stage(pc[p]) /\ l.group < m.group
        \/ same /\ Shrinks(l.todo, m.todo)
        \/ same /\ m.todo = l.todo /\ Shrinks(l.open, m.open)
        \/ alike /\ pc[p] = "program" /\ pc'[p] = "executable"
        \/ /\ alike /\ pc'[p] = pc[p]
           /\ \E k \in CallsOf(p) :
                CallMoves(k) /\ \A q \in CallsOf(p) \ {k} : calls'[q] = calls[q]

Changes(p) ==
    \/ pc'[p] # pc[p] \/ proc'[p] # proc[p]
    \/ \E k \in CallsOf(p) : calls'[k] # calls[k]

\* Every step but the ledger's own starts a command or brings one nearer to
\* its end, whatever the node answers: no retry, no group and no program is
\* gone through twice.
CommandsMoveOn ==
    [][/\ now' = now => \E p \in Processes : Changes(p)
       /\ \A p \in Processes : (pc[p] # "idle" /\ Changes(p)) => MovesOn(p)]_vars

\* Every command ends, though nodes do not answer.
CommandsEnd ==
    \A p \in Processes : pc[p] # "idle" ~> pc[p] = "idle"

-----------------------------------------------------------------------------
(* What the code does not do.                                              *)

\* The logs a bundle keeps as the original execution's are those of the
\* transaction, not what an inspection that died left of them.
BundledLogsAreWhole ==
    bundle # Null => bundle["logs.txt"] = "history"
=============================================================================
