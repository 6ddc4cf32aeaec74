----------------------------- MODULE CaptureProofs -----------------------------
(***************************************************************************)
(* Proofs about Capture, for every ledger, transaction, group size, number *)
(* of retries and number of processes.                                     *)
(***************************************************************************)
EXTENDS Capture, TLAPS

USE DEF Goto, Return

-----------------------------------------------------------------------------
(* Groups.                                                                 *)

\* Groups of s cover 1..n, the last one too, which may be smaller.
LEMMA GroupNumbers ==
    ASSUME NEW n \in Nat, NEW s \in Nat \ {0}, NEW j \in 1..n
    PROVE  \E i \in 1..((n + s - 1) \div s) : (i - 1) * s + 1 <= j /\ j <= i * s
<1> DEFINE q == (j - 1) \div s
           Q == (n + s - 1) \div s
           Covers(i) == (i - 1) * s + 1 <= j /\ j <= i * s
<1> SUFFICES \E i \in 1..Q : Covers(i)
  OBVIOUS
<1>1. q \in Nat /\ q * s <= j - 1 /\ j - 1 < q * s + s
  OBVIOUS
<1>2. Q \in Nat /\ Q * s <= n + s - 1 /\ n + s - 1 < Q * s + s
  OBVIOUS
<1> HIDE DEF q, Q
<1>3. q + 1 <= Q
  <2> SUFFICES ASSUME Q <= q PROVE FALSE
    BY <1>1, <1>2
  <2>1. Q * s <= q * s
    BY <1>1, <1>2
  <2> QED BY <1>1, <1>2, <2>1
<1>4. (q + 1) * s = q * s + s /\ (q + 1 - 1) * s = q * s
  BY <1>1
<1>5. q + 1 \in 1..Q /\ Covers(q + 1)
  BY <1>1, <1>2, <1>3, <1>4
<1> HIDE DEF Covers
<1> QED BY <1>5

\* getAccountsAtSlot asks for every account.
LEMMA GroupsCover ==
    /\ Len(Groups) \in Nat \ {0}
    /\ \A k \in Keys : \E i \in 1..Len(Groups) : InGroup(k, i)
<1> DEFINE n == Len(AccountKeys)
           s == GroupSize
<1>1. n \in Nat \ {0} /\ s \in Nat \ {0} /\ AccountKeys \in Seq(Keys) /\ DOMAIN AccountKeys = 1..n
  BY CaptureAssumption
<1>2. Len(Groups) = (n + s - 1) \div s /\ (n + s - 1) \div s \in Nat
  BY <1>1 DEF Groups, Chunks
<1>3. ASSUME NEW j \in 1..n
      PROVE  \E i \in 1..Len(Groups) : InGroup(AccountKeys[j], i)
  <2> PICK i \in 1..((n + s - 1) \div s) : (i - 1) * s + 1 <= j /\ j <= i * s
    BY <1>1, GroupNumbers
  <2> DEFINE low == (i - 1) * s + 1
             high == IF i * s < n THEN i * s ELSE n
  <2>1. low \in 1..n /\ high \in 1..n /\ low <= j /\ j <= high
    BY <1>1
  <2>2. Groups[i] = SubSeq(AccountKeys, low, high)
    BY <1>1 DEF Groups, Chunks
  <2> HIDE DEF low, high, n
  <2>3. j - low + 1 \in 1..(high - low + 1)
    BY <2>1
  <2>4. j - low + 1 \in DOMAIN Groups[i] /\ Groups[i][j - low + 1] = AccountKeys[low + (j - low + 1) - 1]
    BY <1>1, <2>1, <2>2, <2>3
  <2>5. low + (j - low + 1) - 1 = j
    BY <2>1
  <2>6. InGroup(AccountKeys[j], i)
    BY <2>4, <2>5 DEF InGroup
  <2> QED BY <1>2, <2>6
<1>4. \E i \in 1..Len(Groups) : InGroup(AccountKeys[1], i)
  BY <1>1, <1>3
<1> QED BY <1>1, <1>2, <1>3, <1>4 DEF Keys

-----------------------------------------------------------------------------
(* Types, with what is known of the observations: none is older than the   *)
(* transaction.                                                            *)

Paths == Artifacts \cup Programs

Stuff == {Absent, Torn, "history"} \cup AccountRecords \cup ProgramRecords \cup Observations

After == TxSlot..MaxSlot

AccountsFound == {a \in AccountRecords : \A k \in Keys : a.observed[k] \in After}

ProgramsFound == [Programs -> {Null} \cup After]

Good(f) ==
    CASE f = "accounts.json" -> AccountsFound
      [] f = "programs.json" -> ProgramsFound
      [] OTHER -> Holds(f)

Directories == {d \in [Paths -> Stuff] : \A f \in Paths : d[f] \in {Absent, Torn} \cup Good(f)}

LocalSet ==
    [job : Jobs \cup {Null},
     accounts : AccountRecords,
     group : 0..Len(Groups),
     recorded : ProgramsFound,
     program : Programs \cup {Null},
     lookups : Observations,
     todo : SUBSET Paths,
     open : SUBSET Artifacts,
     got : Directories,
     troubles : 0..(Retries + 1),
     denied : BOOLEAN]

\* The locals of a process at a label.
LocalOK(l, label) ==
    /\ l \in LocalSet
    /\ label \in Labels
    /\ \A f \in Parsed : l.got[f] # Torn
    /\ label = "idle" => l = NoLocals
    /\ label = "accounts" =>
         /\ l.group \in 1..Len(Groups)
         /\ \A i \in 1..(l.group - 1), k \in Keys : InGroup(k, i) => l.accounts.observed[k] \in After
    /\ label \in {"program", "executable", "lookups", "block", "write"} => l.accounts \in AccountsFound
    /\ label \in {"program", "executable"} => l.todo \subseteq Programs /\ l.program \in l.todo
    /\ label = "executable" => l.recorded[l.program] \in After
    /\ label = "write" => l.todo \subseteq Artifacts
    /\ label = "copy" => l.todo \subseteq Programs

Observed == [at : After, executable : BOOLEAN]

CallSet ==
    [phase : Phases, attempt : 0..Retries,
     result : {NoResult, Null, "transaction", "block"} \cup Slots \cup Observed]

CallOK(c) ==
    /\ c \in CallSet
    /\ c.phase = "backoff" => c.attempt < Retries

\* What a call that a process waits for at a label has returned.
AnswerOK(c, label) ==
    c.phase = "resolved" =>
        /\ label \in {"accounts", "lookups"} => c.result \in After
        /\ label = "program" => c.result \in Observed

Typed ==
    /\ calls \in [Calls -> CallSet] /\ \A k \in Calls : CallOK(calls[k])
    /\ now \in After
    /\ dir \in Directories
    /\ bundle = Null \/ bundle \in Directories
    /\ pc \in [Processes -> Labels]
    /\ proc \in [Processes -> LocalSet]
    /\ started \in 0..MaxJobs
    /\ \A p \in Processes :
         /\ LocalOK(proc[p], pc[p])
         /\ AnswerOK(calls[First(p)], pc[p])
         /\ pc[p] \notin Reading => \A k \in CallsOf(p) : calls[k].phase = "idle"

LEMMA SlotFacts ==
    /\ After \subseteq Slots /\ Slots \subseteq Nat /\ After \subseteq Nat
    /\ TxSlot \in Nat /\ MaxSlot \in Nat /\ TxSlot \in After
BY CaptureAssumption DEF Slots, After

LEMMA GoodFacts ==
    /\ ProgramsFound \subseteq ProgramRecords
    /\ \A f \in Paths : Good(f) \subseteq Holds(f) /\ Good(f) \subseteq Stuff
    /\ \A x \in Programs : Good(x) = Observations
    /\ \A f \in Immutable : Good(f) = {"history"}
<1>1. ProgramsFound \subseteq ProgramRecords /\ AccountsFound \subseteq AccountRecords
  BY SlotFacts DEF ProgramsFound, ProgramRecords, Observations, AccountsFound
<1>2. \A x \in Programs : x \notin Artifacts
  BY CaptureAssumption
<1> QED BY <1>1, <1>2 DEF Good, Holds, Stuff, Immutable, Artifacts

LEMMA TypedIsTypeOK == Typed => TypeOK
<1> SUFFICES ASSUME Typed PROVE TypeOK
  OBVIOUS
<1> USE DEF Typed
<1>1. \A d \in Directories : IsDirectory(d)
  BY GoodFacts DEF Directories, IsDirectory, Paths
<1>2. \A p \in Processes : IsLocals(proc[p])
  <2> SUFFICES ASSUME NEW l, NEW label, LocalOK(l, label) PROVE IsLocals(l)
    OBVIOUS
  <2>1. l \in LocalSet /\ \A f \in Parsed : l.got[f] # Torn
    BY DEF LocalOK
  <2>2. /\ l.job \in Jobs \cup {Null} /\ l.accounts \in AccountRecords /\ l.group \in 0..Len(Groups)
        /\ l.recorded \in ProgramRecords /\ l.program \in Programs \cup {Null} /\ l.lookups \in Observations
        /\ l.todo \subseteq Artifacts \cup Programs /\ l.open \subseteq Artifacts
        /\ l.got \in Directories /\ l.troubles \in 0..(Retries + 1) /\ l.denied \in BOOLEAN
    BY <2>1, GoodFacts DEF LocalSet, Paths
  <2> QED BY <1>1, <2>1, <2>2 DEF IsLocals
<1>3. now \in Slots
  BY SlotFacts
<1>4. \A k \in Calls : calls[k].phase \in Phases /\ calls[k].attempt \in 0..Retries
  BY DEF CallSet
<1> QED BY <1>1, <1>2, <1>3, <1>4 DEF TypeOK

LEMMA NoLocalsOK == LocalOK(NoLocals, "idle")
<1>1. NoLocals.got \in Directories /\ \A f \in Parsed : NoLocals.got[f] # Torn
  BY CaptureAssumption DEF NoLocals, Directories, Paths, Stuff, Parsed, Artifacts
<1>2. NoLocals.accounts \in AccountRecords
  BY DEF NoLocals, NoAccounts, AccountRecords, Observations
<1>3. NoLocals.recorded \in ProgramsFound
  BY DEF NoLocals, ProgramsFound
<1>4. NoLocals \in LocalSet
  BY <1>1, <1>2, <1>3, GroupsCover, RetriesAssumption DEF NoLocals, LocalSet, Observations
<1> QED BY <1>1, <1>4 DEF LocalOK, Labels

LEMMA InitTyped == Init => Typed
<1> SUFFICES ASSUME Init PROVE Typed
  OBVIOUS
<1>1. calls \in [Calls -> CallSet] /\ \A k \in Calls : CallOK(calls[k]) /\ calls[k].phase = "idle"
  BY RetriesAssumption DEF Init, Silent, CallSet, CallOK, Phases
<1>2. dir \in Directories
  BY DEF Init, Directories, Paths, Stuff
<1>3. \A p \in Processes : First(p) \in Calls /\ CallsOf(p) \subseteq Calls
  BY CaptureAssumption DEF First, CallsOf
<1>4. NoLocals \in LocalSet
  BY NoLocalsOK DEF LocalOK
<1> QED BY <1>1, <1>2, <1>3, <1>4, NoLocalsOK, SlotFacts, CaptureAssumption DEF Init, Typed, AnswerOK, Labels, Slots

\* The calls of different processes are different calls.
LEMMA CallFacts ==
    \A p \in Processes :
        /\ First(p) \in CallsOf(p) /\ CallsOf(p) \subseteq Calls
        /\ \A q \in Processes : q # p => First(q) \notin CallsOf(p) /\ CallsOf(q) \cap CallsOf(p) = {}
BY CaptureAssumption DEF First, CallsOf

LEMMA BegunFacts ==
    /\ Begun \in CallSet /\ Begun.phase = "waiting" /\ Begun.attempt = 0
    /\ Silent \in CallSet /\ Silent.phase = "idle"
    /\ CallOK(Begun) /\ CallOK(Silent)
BY RetriesAssumption DEF Begun, Silent, CallSet, CallOK, Phases

\* What a step of p has to show: its own locals, label and calls are well
\* typed and the calls of the others are left alone.
LEMMA StepTyped ==
    ASSUME Typed, NEW p \in Processes, NEW l, NEW label, LocalOK(l, label),
           pc' = [pc EXCEPT ![p] = label],
           proc' = [proc EXCEPT ![p] = l],
           calls' \in [Calls -> CallSet],
           \A k \in CallsOf(p) : CallOK(calls'[k]),
           \A k \in Calls \ CallsOf(p) : calls'[k] = calls[k],
           AnswerOK(calls'[First(p)], label),
           label \notin Reading => \A k \in CallsOf(p) : calls'[k].phase = "idle",
           now' = now,
           dir' \in Directories,
           bundle' = Null \/ bundle' \in Directories,
           started' \in 0..MaxJobs
    PROVE  Typed'
<1>1. label \in Labels /\ l \in LocalSet
  BY DEF LocalOK
<1>2. pc' \in [Processes -> Labels] /\ proc' \in [Processes -> LocalSet]
  BY <1>1 DEF Typed
<1>3. \A k \in Calls : CallOK(calls'[k])
  BY DEF Typed
<1>4. \A q \in Processes :
        /\ LocalOK(proc'[q], pc'[q])
        /\ AnswerOK(calls'[First(q)], pc'[q])
        /\ pc'[q] \notin Reading => \A k \in CallsOf(q) : calls'[k].phase = "idle"
  BY CallFacts DEF Typed
<1>5. now' \in After
  BY DEF Typed
<1> HIDE DEF Typed
<1> QED BY <1>2, <1>3, <1>4, <1>5 DEF Typed

\* Calls begun or dropped.
LEMMA SetCalls ==
    ASSUME Typed, NEW p \in Processes, NEW K \in SUBSET CallsOf(p), NEW c \in {Begun, Silent},
           calls' = [k \in Calls |-> IF k \in K THEN c ELSE calls[k]]
    PROVE  /\ calls' \in [Calls -> CallSet]
           /\ \A k \in CallsOf(p) : CallOK(calls'[k])
           /\ \A k \in Calls \ CallsOf(p) : calls'[k] = calls[k]
           /\ \A k \in K : calls'[k] = c
           /\ \A label : First(p) \in K => AnswerOK(calls'[First(p)], label)
BY CallFacts, BegunFacts DEF Typed, AnswerOK

LEMMA NextCallSent ==
    ASSUME Typed, NEW p \in Processes, Send({First(p)})
    PROVE  /\ calls' \in [Calls -> CallSet]
           /\ \A k \in CallsOf(p) : CallOK(calls'[k])
           /\ \A k \in Calls \ CallsOf(p) : calls'[k] = calls[k]
           /\ \A label : AnswerOK(calls'[First(p)], label)
BY CallFacts, BegunFacts DEF Typed, AnswerOK, Send

LEMMA ReturnTyped ==
    ASSUME Typed, NEW p \in Processes, Return(p), now' = now, dir' \in Directories,
           bundle' = Null \/ bundle' \in Directories, started' = started
    PROVE  Typed'
<1>1. /\ calls' \in [Calls -> CallSet]
      /\ \A k \in CallsOf(p) : CallOK(calls'[k])
      /\ \A k \in Calls \ CallsOf(p) : calls'[k] = calls[k]
      /\ AnswerOK(calls'[First(p)], "idle")
      /\ \A k \in CallsOf(p) : calls'[k].phase = "idle"
  BY SetCalls, CallFacts, BegunFacts DEF Drop
<1> QED BY <1>1, NoLocalsOK, StepTyped DEF Typed

LEMMA StartTyped ==
    ASSUME Typed, NEW p \in Processes, NEW j \in Jobs, StartCommand(p, j)
    PROVE  Typed'
<1> DEFINE label == IF j = "bundle" THEN "read" ELSE "transaction"
           l == IF j = "bundle" THEN [NoLocals EXCEPT !.job = j, !.todo = Parsed]
                ELSE [NoLocals EXCEPT !.job = j]
<1>1. proc[p] = NoLocals /\ NoLocals \in LocalSet /\ \A f \in Parsed : NoLocals.got[f] # Torn
  BY NoLocalsOK DEF StartCommand, Typed, LocalOK
<1>2. LocalOK(l, label)
  <2>1. Parsed \subseteq Paths
    BY DEF Parsed, Paths
  <2>2. l \in LocalSet /\ l.got = NoLocals.got
    BY <1>1, <2>1 DEF LocalSet
  <2> HIDE DEF l
  <2> QED BY <1>1, <2>2 DEF LocalOK, Labels, Inspecting, Reading
<1>4. proc' = [proc EXCEPT ![p] = l] /\ pc' = [pc EXCEPT ![p] = label]
  <2>1. CASE j = "bundle"
    BY <1>1, <2>1 DEF StartCommand, Typed, LocalSet
  <2>2. CASE j # "bundle"
    BY <1>1, <2>2 DEF StartCommand, Typed, LocalSet
  <2> QED BY <2>1, <2>2
<1>5. /\ calls' \in [Calls -> CallSet]
      /\ \A k \in CallsOf(p) : CallOK(calls'[k])
      /\ \A k \in Calls \ CallsOf(p) : calls'[k] = calls[k]
  <2>1. CASE j = "bundle"
    BY <2>1, CallFacts DEF StartCommand, Typed
  <2>2. CASE j # "bundle"
    BY <2>2, SetCalls DEF StartCommand, Send
  <2> QED BY <2>1, <2>2
<1>6. /\ AnswerOK(calls'[First(p)], label)
      /\ label \notin Reading => \A k \in CallsOf(p) : calls'[k].phase = "idle"
  BY DEF AnswerOK, StartCommand, Typed, Reading
<1>7. started' \in 0..MaxJobs
  BY CaptureAssumption DEF StartCommand, Typed
<1> HIDE DEF l, label
<1> QED BY <1>2, <1>4, <1>5, <1>6, <1>7, StepTyped DEF StartCommand, Typed

LEMMA FailedCall ==
    ASSUME Typed, NEW k \in Calls, Fail(k)
    PROVE  \E c \in CallSet : calls' = [calls EXCEPT ![k] = c] /\ CallOK(c) /\ c.phase # "resolved"
<1> DEFINE phase == IF LastAttempt(k) THEN "rejected" ELSE "backoff"
           c == [calls[k] EXCEPT !.phase = phase]
<1>1. calls[k] \in CallSet /\ calls[k].attempt \in 0..Retries
  BY DEF Typed, CallSet
<1>2. c \in CallSet /\ c.phase = phase /\ c.attempt = calls[k].attempt
  BY <1>1 DEF CallSet, Phases
<1>3. calls' = [calls EXCEPT ![k] = c]
  BY <1>1 DEF Fail, Typed, CallSet
<1>4. phase = "backoff" => calls[k].attempt < Retries
  BY <1>1, RetriesAssumption DEF LastAttempt
<1>5. phase # "resolved"
  OBVIOUS
<1> HIDE DEF c, phase
<1> QED BY <1>2, <1>3, <1>4, <1>5 DEF CallOK

\* A call of p moves on, and p notes what went wrong.
LEMMA CallTyped ==
    ASSUME Typed, NEW p \in Processes,
           Answer(p) \/ AttemptTimesOut(p) \/ NextAttempt(p)
    PROVE  Typed'
<1> USE DEF Typed
<1>0. pc[p] \in Reading
  <2>1. \E q \in CallsOf(p) : calls[q].phase \in {"waiting", "backoff"}
    BY DEF Answer, Respond, AttemptTimesOut, TimeOut, NextAttempt, Retry
  <2> QED BY <2>1
<1>1. PICK k \in CallsOf(p), c \in CallSet :
        /\ calls' = [calls EXCEPT ![k] = c] /\ CallOK(c)
        /\ c.phase = "resolved" => c.result \in Results(p)
  <2>1. CASE Answer(p)
    <3> PICK k \in CallsOf(p), reply \in Replies, value \in Results(p) \cup {NoResult} :
          /\ (Meaning(reply) = "result") <=> (value # NoResult)
          /\ Respond(k, reply, value)
      BY <2>1 DEF Answer
    <3>1. k \in Calls /\ calls[k] \in CallSet /\ calls[k].phase = "waiting"
      BY CallFacts DEF Respond
    <3>2. CASE Meaning(reply) = "failure"
      BY <3>1, <3>2, FailedCall DEF Respond
    <3>3. CASE Meaning(reply) = "RpcError"
      BY <3>1, <3>3 DEF Respond, CallSet, CallOK, Phases
    <3>4. CASE Meaning(reply) = "result"
      <4> DEFINE c == [calls[k] EXCEPT !.phase = "resolved", !.result = value]
      <4>1. calls' = [calls EXCEPT ![k] = c]
        BY <3>1, <3>4 DEF Respond, CallSet
      <4>2. value \in Results(p)
        BY <3>4
      <4>3. Results(p) \subseteq {Null, "transaction", "block"} \cup Slots \cup Observed
        <5>1. NodeSlots \subseteq After
          BY SlotFacts DEF NodeSlots, MinContextSlot, After
        <5> QED BY <5>1, SlotFacts DEF Results, Observed
      <4>4. c \in CallSet /\ c.phase = "resolved" /\ c.result = value
        BY <3>1, <4>2, <4>3 DEF CallSet, Phases
      <4> HIDE DEF c
      <4> QED BY <4>1, <4>2, <4>4 DEF CallOK
    <3> QED BY <3>2, <3>3, <3>4 DEF Meaning
  <2>2. CASE AttemptTimesOut(p)
    <3> PICK k \in CallsOf(p) : TimeOut(k)
      BY <2>2 DEF AttemptTimesOut
    <3>1. k \in Calls /\ calls[k] \in CallSet
      BY CallFacts
    <3> QED BY <3>1, FailedCall DEF TimeOut
  <2>3. CASE NextAttempt(p)
    <3> PICK k \in CallsOf(p) : Retry(k)
      BY <2>3 DEF NextAttempt
    <3> DEFINE c == [calls[k] EXCEPT !.phase = "waiting", !.attempt = @ + 1]
    <3>1. k \in Calls /\ calls[k] \in CallSet /\ calls[k].attempt < Retries
      BY CallFacts DEF Retry, CallOK
    <3>2. calls' = [calls EXCEPT ![k] = c]
      BY <3>1 DEF Retry, CallSet
    <3>3. calls[k].attempt + 1 \in 0..Retries
      BY <3>1, RetriesAssumption DEF CallSet
    <3>4. c \in CallSet /\ c.phase = "waiting"
      BY <3>1, <3>3 DEF CallSet, Phases
    <3> HIDE DEF c
    <3> QED BY <3>2, <3>4 DEF CallOK
  <2> QED BY <2>1, <2>2, <2>3
<1>2. /\ calls' \in [Calls -> CallSet]
      /\ \A q \in Calls : CallOK(calls'[q])
      /\ \A q \in Calls \ CallsOf(p) : calls'[q] = calls[q]
  BY <1>1, CallFacts
<1>3. AnswerOK(calls'[First(p)], pc[p])
  <2>1. CASE k = First(p)
    <3>1. calls'[First(p)] = c
      BY <1>1, <2>1, CallFacts
    <3>2. NodeSlots \subseteq After
      BY SlotFacts DEF NodeSlots, MinContextSlot, After
    <3> QED BY <1>1, <3>1, <3>2 DEF AnswerOK, Results, Observed
  <2>2. CASE k # First(p)
    BY <1>1, <2>2, CallFacts
  <2> QED BY <2>1, <2>2
<1>4. PICK n \in 0..(Retries + 1), d \in BOOLEAN :
        proc' = [proc EXCEPT ![p] = [proc[p] EXCEPT !.troubles = n, !.denied = d]]
  <2>0. proc[p] \in LocalSet /\ proc[p].troubles \in 0..(Retries + 1) /\ proc[p].denied \in BOOLEAN
    BY DEF LocalSet
  <2>1. CASE Answer(p)
    <3> PICK reply \in Replies, value \in Results(p) \cup {NoResult} :
          proc' = [proc EXCEPT
              ![p].troubles = IF Meaning(reply) = "failure" /\ @ <= Retries THEN @ + 1 ELSE @,
              ![p].denied = @ \/ Meaning(reply) = "RpcError" \/ value = Null]
      BY <2>1 DEF Answer
    <3> DEFINE n == IF Meaning(reply) = "failure" /\ proc[p].troubles <= Retries
                    THEN proc[p].troubles + 1 ELSE proc[p].troubles
               d == proc[p].denied \/ Meaning(reply) = "RpcError" \/ value = Null
    <3>1. n \in 0..(Retries + 1) /\ d \in BOOLEAN
      BY <2>0, RetriesAssumption
    <3>2. proc' = [proc EXCEPT ![p] = [proc[p] EXCEPT !.troubles = n, !.denied = d]]
      BY <2>0 DEF LocalSet
    <3> QED BY <3>1, <3>2
  <2>2. CASE AttemptTimesOut(p)
    <3> DEFINE n == IF proc[p].troubles <= Retries THEN proc[p].troubles + 1 ELSE proc[p].troubles
    <3>1. n \in 0..(Retries + 1)
      BY <2>0, RetriesAssumption
    <3>2. proc' = [proc EXCEPT ![p].troubles = n]
      BY <2>2 DEF AttemptTimesOut
    <3> HIDE DEF n
    <3>3. proc' = [proc EXCEPT ![p] = [proc[p] EXCEPT !.troubles = n, !.denied = proc[p].denied]]
      BY <2>0, <3>2 DEF LocalSet
    <3> QED BY <2>0, <3>1, <3>3
  <2>3. CASE NextAttempt(p)
    <3>1. proc' = [proc EXCEPT ![p] = [proc[p] EXCEPT !.troubles = proc[p].troubles,
                                                     !.denied = proc[p].denied]]
      BY <2>0, <2>3 DEF NextAttempt, LocalSet
    <3> QED BY <2>0, <3>1
  <2> QED BY <2>1, <2>2, <2>3
<1> DEFINE l == [proc[p] EXCEPT !.troubles = n, !.denied = d]
<1>5. LocalOK(l, pc[p])
  <2>1. /\ l \in LocalSet /\ l.got = proc[p].got /\ l.group = proc[p].group /\ l.todo = proc[p].todo
        /\ l.program = proc[p].program /\ l.recorded = proc[p].recorded /\ l.accounts = proc[p].accounts
    BY DEF LocalSet
  <2> HIDE DEF l
  <2> QED BY <1>0, <2>1 DEF LocalOK, Reading
<1>6. /\ pc' = [pc EXCEPT ![p] = pc[p]] /\ now' = now /\ dir' = dir /\ bundle' = bundle /\ started' = started
  BY DEF Answer, AttemptTimesOut, NextAttempt
<1> HIDE DEF l
<1>7. /\ dir' \in Directories /\ (bundle' = Null \/ bundle' \in Directories) /\ started' \in 0..MaxJobs
  BY <1>6
<1>8. proc' = [proc EXCEPT ![p] = l]
  BY <1>4 DEF l
<1> HIDE DEF Typed
<1> QED BY <1>0, <1>2, <1>3, <1>5, <1>6, <1>7, <1>8, CallFacts, StepTyped

\* The read under way returns, or fails, and the next one begins.
LEMMA ReadTyped ==
    ASSUME Typed, NEW p \in Processes,
           \/ GiveUp(p) \/ ReportFailure(p) \/ TransactionArrives(p) \/ AccountsArrive(p)
           \/ LookupsArrive(p) \/ BlockSettled(p)
    PROVE  Typed'
<1> USE DEF Typed
<1>0. /\ proc[p] \in LocalSet /\ LocalOK(proc[p], pc[p]) /\ AnswerOK(calls[First(p)], pc[p])
      /\ First(p) \in CallsOf(p)
  BY CallFacts
<1>1. CASE ReportFailure(p)
  BY <1>1, ReturnTyped DEF ReportFailure
<1>2. CASE GiveUp(p) \/ (TransactionArrives(p) /\ pc'[p] = "gaveUp")
  <2>1. /\ pc' = [pc EXCEPT ![p] = "gaveUp"] /\ Drop(CallsOf(p)) /\ UNCHANGED <<now, dir, bundle, proc, started>>
        /\ pc[p] # "idle"
    BY <1>2 DEF GiveUp, TransactionArrives, Reading
  <2>2. LocalOK(proc[p], "gaveUp")
    BY <1>0 DEF LocalOK, Labels
  <2>3. proc' = [proc EXCEPT ![p] = proc[p]]
    BY <2>1
  <2>4. /\ calls' \in [Calls -> CallSet]
        /\ \A k \in CallsOf(p) : CallOK(calls'[k])
        /\ \A k \in Calls \ CallsOf(p) : calls'[k] = calls[k]
        /\ AnswerOK(calls'[First(p)], "gaveUp")
        /\ \A k \in CallsOf(p) : calls'[k].phase = "idle"
    BY <1>0, <2>1, SetCalls, BegunFacts DEF Drop
  <2> QED BY <2>1, <2>2, <2>3, <2>4, StepTyped
<1>3. CASE TransactionArrives(p) /\ pc'[p] # "gaveUp"
  <2>1. /\ pc' = [pc EXCEPT ![p] = "accounts"] /\ UNCHANGED <<now, dir, bundle, started>>
        /\ proc' = [proc EXCEPT ![p].group = 1]
        /\ calls' = [k \in Calls |-> IF k = First(p) THEN Begun
                                     ELSE IF k \in CallsOf(p) THEN Silent ELSE calls[k]]
    BY <1>3 DEF TransactionArrives
  <2> DEFINE l == [proc[p] EXCEPT !.group = 1]
  <2>0. 1 \in 0..Len(Groups) /\ 1 \in 1..Len(Groups) /\ 1..(1 - 1) = {}
    BY GroupsCover
  <2>2. l \in LocalSet /\ l.group = 1 /\ l.got = proc[p].got
    BY <1>0, <2>0 DEF LocalSet
  <2>3. LocalOK(l, "accounts")
    <3> HIDE DEF l
    <3> QED BY <1>0, <2>0, <2>2 DEF LocalOK, Labels, Inspecting, Reading
  <2>4. proc' = [proc EXCEPT ![p] = l]
    BY <2>1 DEF LocalSet
  <2>5. /\ calls' \in [Calls -> CallSet]
        /\ \A k \in CallsOf(p) : CallOK(calls'[k])
        /\ \A k \in Calls \ CallsOf(p) : calls'[k] = calls[k]
        /\ AnswerOK(calls'[First(p)], "accounts")
    BY <1>0, <2>1, CallFacts, BegunFacts DEF AnswerOK
  <2> HIDE DEF l
  <2> QED BY <2>1, <2>3, <2>4, <2>5, StepTyped DEF Reading
<1>4. CASE AccountsArrive(p)
  <2> DEFINE slot == Result(p)
             i == proc[p].group
             answer == [observed |-> [k \in Keys |-> IF InGroup(k, i) THEN slot
                                                     ELSE proc[p].accounts.observed[k]],
                        capturedAt |-> LatestSlot(proc[p].accounts.capturedAt, slot)]
  <2>1. /\ pc[p] = "accounts" /\ slot \in After /\ i \in 1..Len(Groups) /\ Len(Groups) \in Nat
        /\ \A g \in 1..(i - 1), k \in Keys : InGroup(k, g) => proc[p].accounts.observed[k] \in After
        /\ proc[p].accounts \in AccountRecords
    BY <1>0, <1>4, GroupsCover DEF AccountsArrive, Resolved, Result, AnswerOK, LocalOK, LocalSet
  <2>2. answer \in AccountRecords
    BY <2>1, SlotFacts DEF AccountRecords, LatestSlot, Observations
  <2>3. \A g \in 1..i, k \in Keys : InGroup(k, g) => answer.observed[k] \in After
    BY <2>1
  <2>4. /\ calls' \in [Calls -> CallSet]
        /\ \A k \in CallsOf(p) : CallOK(calls'[k])
        /\ \A k \in Calls \ CallsOf(p) : calls'[k] = calls[k]
        /\ \A label : AnswerOK(calls'[First(p)], label)
        /\ UNCHANGED <<now, dir, bundle, started>>
    BY <1>4, NextCallSent DEF AccountsArrive
  <2> HIDE DEF answer, slot
  <2>5. CASE i < Len(Groups)
    <3> DEFINE l == [proc[p] EXCEPT !.accounts = answer, !.group = i + 1]
    <3>2. i + 1 - 1 = i /\ i + 1 \in 1..Len(Groups) /\ i + 1 \in 0..Len(Groups)
      BY <2>1, <2>5
    <3>1. l \in LocalSet /\ l.group = i + 1 /\ l.got = proc[p].got /\ l.accounts = answer
      BY <1>0, <2>2, <3>2 DEF LocalSet
    <3>3. LocalOK(l, "accounts")
      <4> HIDE DEF l
      <4> QED BY <1>0, <2>1, <2>3, <3>1, <3>2 DEF LocalOK
    <3>4. proc' = [proc EXCEPT ![p] = l] /\ pc' = [pc EXCEPT ![p] = "accounts"]
      BY <1>4, <2>1, <2>5 DEF AccountsArrive, LocalSet, answer, slot
    <3> HIDE DEF l
    <3> QED BY <2>4, <3>3, <3>4, StepTyped DEF Reading
  <2>6. CASE ~(i < Len(Groups))
    <3> DEFINE l == [proc[p] EXCEPT !.accounts = answer, !.todo = Programs, !.program = Pick(Programs)]
               label == NextRead(Programs)
    <3>1. answer \in AccountsFound
      BY <2>1, <2>2, <2>3, <2>6, GroupsCover DEF AccountsFound
    <3>2. Pick(Programs) \in Programs \cup {Null} /\ (Programs # {} => Pick(Programs) \in Programs)
      BY DEF Pick
    <3>3. /\ l \in LocalSet /\ l.got = proc[p].got /\ l.accounts = answer
          /\ l.todo = Programs /\ l.program = Pick(Programs)
      BY <1>0, <2>2, <3>2 DEF LocalSet, Paths
    <3>4. LocalOK(l, label)
      <4> HIDE DEF l
      <4> QED BY <1>0, <3>1, <3>2, <3>3 DEF LocalOK, NextRead, Labels, Inspecting, Reading
    <3>5. proc' = [proc EXCEPT ![p] = l] /\ pc' = [pc EXCEPT ![p] = label]
      BY <1>4, <2>1, <2>6 DEF AccountsArrive, LocalSet, answer, slot
    <3>6. label \in Reading
      BY DEF NextRead, Reading
    <3> HIDE DEF l, label
    <3> QED BY <2>4, <3>4, <3>5, <3>6, StepTyped
  <2> QED BY <2>5, <2>6
<1>5. CASE LookupsArrive(p)
  <2> DEFINE l == [proc[p] EXCEPT !.lookups = Result(p)]
  <2>1. pc[p] = "lookups" /\ Result(p) \in Observations
    BY <1>0, <1>5, SlotFacts DEF LookupsArrive, Resolved, Result, AnswerOK, Observations
  <2>2. l \in LocalSet /\ l.got = proc[p].got /\ l.accounts = proc[p].accounts
    BY <1>0, <2>1 DEF LocalSet
  <2>3. LocalOK(l, "block")
    <3> HIDE DEF l
    <3> QED BY <1>0, <2>1, <2>2 DEF LocalOK, Labels, Inspecting, Reading
  <2>4. proc' = [proc EXCEPT ![p] = l] /\ pc' = [pc EXCEPT ![p] = "block"]
    BY <1>5 DEF LookupsArrive, LocalSet
  <2>5. /\ calls' \in [Calls -> CallSet]
        /\ \A k \in CallsOf(p) : CallOK(calls'[k])
        /\ \A k \in Calls \ CallsOf(p) : calls'[k] = calls[k]
        /\ AnswerOK(calls'[First(p)], "block")
        /\ UNCHANGED <<now, dir, bundle, started>>
    BY <1>5, NextCallSent DEF LookupsArrive
  <2> HIDE DEF l
  <2> QED BY <2>3, <2>4, <2>5, StepTyped DEF Reading
<1>6. CASE BlockSettled(p)
  <2> DEFINE l == [proc[p] EXCEPT !.todo = Artifacts, !.group = 0, !.troubles = 0, !.denied = FALSE]
  <2>1. pc[p] = "block"
    BY <1>6 DEF BlockSettled
  <2>0. 0 \in 0..Len(Groups) /\ 0 \in 0..(Retries + 1) /\ Artifacts \subseteq Paths
    BY GroupsCover, RetriesAssumption DEF Paths
  <2>2. l \in LocalSet /\ l.got = proc[p].got /\ l.accounts = proc[p].accounts /\ l.todo = Artifacts
    BY <1>0, <2>0 DEF LocalSet
  <2>3. LocalOK(l, "write")
    <3> HIDE DEF l
    <3> QED BY <1>0, <2>1, <2>2 DEF LocalOK, Labels, Inspecting
  <2>4. proc' = [proc EXCEPT ![p] = l] /\ pc' = [pc EXCEPT ![p] = "write"]
    BY <1>6 DEF BlockSettled, LocalSet
  <2>5. /\ calls' \in [Calls -> CallSet]
        /\ \A k \in CallsOf(p) : CallOK(calls'[k])
        /\ \A k \in Calls \ CallsOf(p) : calls'[k] = calls[k]
        /\ AnswerOK(calls'[First(p)], "write")
        /\ \A k \in CallsOf(p) : calls'[k].phase = "idle"
        /\ UNCHANGED <<now, dir, bundle, started>>
    <3>1. Drop(CallsOf(p)) /\ UNCHANGED <<now, dir, bundle, started>>
      BY <1>6 DEF BlockSettled
    <3>2. calls' = [k \in Calls |-> IF k \in CallsOf(p) THEN Silent ELSE calls[k]]
      BY <3>1 DEF Drop
    <3>3. First(p) \in CallsOf(p)
      BY DEF First, CallsOf
    <3> QED BY ZenonT(60), <1>0, <3>1, <3>2, <3>3, SetCalls, BegunFacts
  <2> HIDE DEF l
  <2> QED BY <2>3, <2>4, <2>5, StepTyped
<1> QED BY <1>1, <1>2, <1>3, <1>4, <1>5, <1>6

\* A file of a directory is truncated or gets its content.
LEMMA WriteTyped ==
    ASSUME NEW d \in Directories, NEW f \in Paths, NEW v \in {Absent, Torn} \cup Good(f)
    PROVE  [d EXCEPT ![f] = v] \in Directories
BY GoodFacts DEF Directories, Stuff

\* collectPrograms, with the files it writes on the way.
LEMMA ProgramTyped ==
    ASSUME Typed, NEW p \in Processes, ProgramArrives(p) \/ WriteExecutable(p)
    PROVE  Typed'
<1> USE DEF Typed
<1> DEFINE x == proc[p].program
<1>0. /\ proc[p] \in LocalSet /\ LocalOK(proc[p], pc[p]) /\ pc[p] \in {"program", "executable"}
      /\ First(p) \in CallsOf(p)
      /\ proc[p].todo \subseteq Programs /\ x \in proc[p].todo /\ x \in Programs
  BY CallFacts DEF ProgramArrives, WriteExecutable, LocalOK
<1>1. ASSUME NEW r \in ProgramsFound, NextProgram(p, r),
             UNCHANGED <<now, bundle, started>>, dir' \in Directories
      PROVE  Typed'
  <2> DEFINE left == proc[p].todo \ {x}
             l == [proc[p] EXCEPT !.recorded = r, !.todo = left, !.program = Pick(left)]
             label == NextRead(left)
  <2>1. left \subseteq Programs /\ left \subseteq Paths /\ Pick(left) \in Programs \cup {Null}
        /\ (left # {} => Pick(left) \in left)
    BY <1>0 DEF Pick, Paths
  <2>2. proc' = [proc EXCEPT ![p] = l] /\ pc' = [pc EXCEPT ![p] = label]
    BY <1>0, <1>1 DEF NextProgram, LocalSet
  <2> HIDE DEF left
  <2>3. /\ l \in LocalSet /\ l.got = proc[p].got /\ l.accounts = proc[p].accounts
        /\ l.todo = left /\ l.program = Pick(left)
    BY <1>0, <1>1, <2>1 DEF LocalSet
  <2>4. LocalOK(l, label)
    <3> HIDE DEF l
    <3> QED BY <1>0, <2>1, <2>3 DEF LocalOK, NextRead, Labels, Inspecting, Reading
  <2>5. /\ calls' \in [Calls -> CallSet]
        /\ \A k \in CallsOf(p) : CallOK(calls'[k])
        /\ \A k \in Calls \ CallsOf(p) : calls'[k] = calls[k]
        /\ AnswerOK(calls'[First(p)], label)
    BY <1>1, NextCallSent DEF NextProgram
  <2>6. label \in Reading
    BY DEF NextRead, Reading
  <2> HIDE DEF l, label
  <2> QED BY <1>1, <2>2, <2>4, <2>5, <2>6, StepTyped
<1>2. CASE ProgramArrives(p)
  <2> DEFINE v == IF Result(p).executable THEN Result(p).at ELSE Null
             r == [proc[p].recorded EXCEPT ![x] = v]
  <2>1. Result(p) \in Observed /\ pc[p] = "program"
    BY <1>2 DEF ProgramArrives, Resolved, Result, AnswerOK
  <2>2. r \in ProgramsFound /\ (Result(p).executable => r[x] \in After)
    BY <1>0, <2>1 DEF Observed, ProgramsFound, LocalSet
  <2>3. CASE ~HasBytes(p)
    BY <1>1, <1>2, <2>2, <2>3 DEF ProgramArrives
  <2>4. CASE HasBytes(p)
    <3>1. /\ pc' = [pc EXCEPT ![p] = "executable"]
          /\ dir' = [dir EXCEPT ![x] = Torn]
          /\ proc' = [proc EXCEPT ![p].recorded = r]
          /\ Drop(CallsOf(p))
          /\ UNCHANGED <<now, bundle, started>>
      BY <1>2, <2>4 DEF ProgramArrives
    <3> HIDE DEF r
    <3> DEFINE l == [proc[p] EXCEPT !.recorded = r]
    <3>2. /\ l \in LocalSet /\ l.got = proc[p].got /\ l.accounts = proc[p].accounts
          /\ l.todo = proc[p].todo /\ l.program = x /\ l.recorded = r
      BY <1>0, <2>2 DEF LocalSet
    <3>3. LocalOK(l, "executable")
      <4> HIDE DEF l
      <4> QED BY <1>0, <2>1, <2>2, <2>4, <3>2 DEF LocalOK, HasBytes, Labels, Inspecting
    <3>4. proc' = [proc EXCEPT ![p] = l]
      BY <3>1 DEF LocalSet
    <3>5. dir' \in Directories
      BY <1>0, <3>1, WriteTyped DEF Paths
    <3>6. /\ calls' \in [Calls -> CallSet]
          /\ \A k \in CallsOf(p) : CallOK(calls'[k])
          /\ \A k \in Calls \ CallsOf(p) : calls'[k] = calls[k]
          /\ AnswerOK(calls'[First(p)], "executable")
          /\ \A k \in CallsOf(p) : calls'[k].phase = "idle"
      BY ZenonT(60), <1>0, <3>1, SetCalls, BegunFacts DEF Drop
    <3> HIDE DEF l
    <3> QED BY <3>1, <3>3, <3>4, <3>5, <3>6, StepTyped
  <2> QED BY <2>3, <2>4
<1>3. CASE WriteExecutable(p)
  <2>0. proc[p].recorded[x] \in After
    BY <1>0, <1>3 DEF WriteExecutable, LocalOK
  <2>1. proc[p].recorded[x] \in Good(x)
    BY <1>0, <2>0, GoodFacts, SlotFacts DEF Observations
  <2>2. dir' \in Directories
    BY <1>0, <1>3, <2>1, WriteTyped DEF WriteExecutable, Paths
  <2>3. proc[p].recorded \in ProgramsFound
    BY <1>0 DEF LocalSet
  <2> QED BY <1>1, <1>3, <2>2, <2>3 DEF WriteExecutable
<1> QED BY <1>2, <1>3

\* The steps that make no calls.
LEMMA LocalStepTyped ==
    ASSUME Typed, NEW p \in Processes, NEW l, NEW label, LocalOK(l, label), pc[p] \notin Reading,
           pc' = [pc EXCEPT ![p] = label], proc' = [proc EXCEPT ![p] = l],
           calls' = calls, now' = now, dir' \in Directories,
           bundle' = Null \/ bundle' \in Directories, started' = started
    PROVE  Typed'
<1>1. /\ calls' \in [Calls -> CallSet]
      /\ \A k \in CallsOf(p) : CallOK(calls'[k])
      /\ \A k \in CallsOf(p) : calls'[k].phase = "idle"
      /\ AnswerOK(calls'[First(p)], label)
  BY CallFacts DEF Typed, AnswerOK
<1> QED BY <1>1, StepTyped DEF Typed

\* The artifacts are written.
LEMMA ArtifactTyped ==
    ASSUME Typed, NEW p \in Processes, OpenArtifact(p) \/ WriteArtifact(p) \/ FinishInspection(p)
    PROVE  Typed'
<1> USE DEF Typed
<1>0. /\ proc[p] \in LocalSet /\ LocalOK(proc[p], "write") /\ pc[p] = "write"
      /\ proc[p].todo \subseteq Artifacts /\ proc[p].open \subseteq Artifacts /\ Artifacts \subseteq Paths
      /\ proc[p].accounts \in AccountsFound /\ pc[p] \notin Reading /\ "write" \in Labels
  BY DEF OpenArtifact, WriteArtifact, FinishInspection, LocalOK, LocalSet, Paths, Reading
<1>1. CASE OpenArtifact(p)
  <2> PICK f \in proc[p].todo :
        /\ dir' = [dir EXCEPT ![f] = Torn]
        /\ proc' = [proc EXCEPT ![p].todo = @ \ {f}, ![p].open = @ \cup {f}]
    BY <1>1 DEF OpenArtifact
  <2> DEFINE l == [proc[p] EXCEPT !.todo = @ \ {f}, !.open = @ \cup {f}]
  <2>1. /\ l \in LocalSet /\ l.got = proc[p].got /\ l.accounts = proc[p].accounts
        /\ l.todo \subseteq Artifacts
    BY <1>0 DEF LocalSet
  <2>2. LocalOK(l, "write")
    <3> HIDE DEF l
    <3> QED BY <1>0, <2>1 DEF LocalOK
  <2>3. proc' = [proc EXCEPT ![p] = l] /\ pc' = [pc EXCEPT ![p] = "write"]
    BY <1>0, <1>1 DEF OpenArtifact, LocalSet
  <2>4. dir' \in Directories
    BY <1>0, WriteTyped
  <2> HIDE DEF l
  <2> QED BY <1>0, <1>1, <2>2, <2>3, <2>4, LocalStepTyped DEF OpenArtifact
<1>2. CASE WriteArtifact(p)
  <2> PICK f \in proc[p].open :
        /\ dir' = [dir EXCEPT ![f] = Produced(p, f)]
        /\ proc' = [proc EXCEPT ![p].open = @ \ {f}]
    BY <1>2 DEF WriteArtifact
  <2> DEFINE l == [proc[p] EXCEPT !.open = @ \ {f}]
  <2>1. /\ l \in LocalSet /\ l.got = proc[p].got /\ l.accounts = proc[p].accounts
        /\ l.todo \subseteq Artifacts
    BY <1>0 DEF LocalSet
  <2>2. LocalOK(l, "write")
    <3> HIDE DEF l
    <3> QED BY <1>0, <2>1 DEF LocalOK
  <2>3. proc' = [proc EXCEPT ![p] = l] /\ pc' = [pc EXCEPT ![p] = "write"]
    BY <1>0, <1>2 DEF WriteArtifact, LocalSet
  <2>4. f \in Artifacts
    BY <1>0
  <2>5. Produced(p, f) \in Good(f)
    BY <1>0, <2>4 DEF Produced, Good, Holds, Immutable, Artifacts, LocalSet
  <2>6. dir' \in Directories
    BY <1>0, <2>4, <2>5, WriteTyped
  <2> HIDE DEF l
  <2> QED BY <1>0, <1>2, <2>2, <2>3, <2>6, LocalStepTyped DEF WriteArtifact
<1>3. CASE FinishInspection(p)
  <2>1. CASE proc[p].job = "capture"
    <3> DEFINE l == [NoLocals EXCEPT !.job = "capture", !.todo = Parsed]
    <3>1. NoLocals \in LocalSet /\ \A f \in Parsed : NoLocals.got[f] # Torn
      BY NoLocalsOK DEF LocalOK
    <3>2. "capture" \in Jobs \cup {Null} /\ Parsed \subseteq Paths
      BY <1>0, <2>1 DEF LocalSet, Parsed, Paths
    <3>3. l \in LocalSet /\ l.got = NoLocals.got
      BY <3>1, <3>2 DEF LocalSet
    <3>4. LocalOK(l, "read")
      <4> HIDE DEF l
      <4> QED BY <3>1, <3>3 DEF LocalOK, Labels
    <3>5. proc' = [proc EXCEPT ![p] = l] /\ pc' = [pc EXCEPT ![p] = "read"]
      BY <1>3, <2>1 DEF FinishInspection
    <3> HIDE DEF l
    <3> QED BY <1>0, <1>3, <2>1, <3>4, <3>5, LocalStepTyped DEF FinishInspection
  <2>2. CASE proc[p].job # "capture"
    BY <1>3, <2>2, ReturnTyped DEF FinishInspection
  <2> QED BY <2>1, <2>2
<1> QED BY <1>1, <1>2, <1>3

\* createBundle reads the artifacts.
LEMMA BundleTyped ==
    ASSUME Typed, NEW p \in Processes,
           ReadArtifact(p) \/ PlanBundle(p) \/ CopyExecutable(p) \/ ReadLogs(p) \/ MakeBundle(p)
    PROVE  Typed'
<1> USE DEF Typed
<1>0. /\ proc[p] \in LocalSet /\ LocalOK(proc[p], pc[p]) /\ pc[p] \in {"read", "copy", "bundle"}
      /\ pc[p] \notin Reading
      /\ proc[p].got \in Directories /\ \A f \in Parsed : proc[p].got[f] # Torn
      /\ proc[p].todo \subseteq Paths
      /\ pc[p] = "copy" => proc[p].todo \subseteq Programs
      /\ "logs.txt" \in Paths /\ "transaction.json" \in Paths
  BY DEF ReadArtifact, PlanBundle, CopyExecutable, ReadLogs, MakeBundle, LocalOK, LocalSet, Reading,
     Paths, Artifacts
<1>1. \A f \in Paths : dir[f] \in {Absent, Torn} \cup Good(f)
  BY DEF Directories
\* Something more has been read.
<1>2. ASSUME NEW f \in Paths, f \in Parsed => dir[f] # Torn,
             NEW todo \in SUBSET Paths, NEW label \in {"read", "copy", "bundle"},
             label = "copy" => todo \subseteq Programs,
             proc' = [proc EXCEPT ![p] = [proc[p] EXCEPT !.todo = todo, !.got = [@ EXCEPT ![f] = dir[f]]]],
             pc' = [pc EXCEPT ![p] = label],
             UNCHANGED <<calls, now, dir, bundle, started>>
      PROVE  Typed'
  <2> DEFINE got == [proc[p].got EXCEPT ![f] = dir[f]]
             l == [proc[p] EXCEPT !.todo = todo, !.got = got]
  <2>1. got \in Directories
    BY <1>0, <1>1, <1>2, WriteTyped
  <2>2. \A g \in Parsed : got[g] # Torn
    BY <1>0, <1>2 DEF Directories, Parsed, Paths
  <2> HIDE DEF got
  <2>3. l \in LocalSet /\ l.got = got /\ l.todo = todo
    BY <1>0, <1>2, <2>1 DEF LocalSet
  <2>4. LocalOK(l, label)
    <3> HIDE DEF l
    <3> QED BY <1>2, <2>2, <2>3 DEF LocalOK, Labels
  <2>5. proc' = [proc EXCEPT ![p] = l]
    BY <1>2 DEF got
  <2> HIDE DEF l
  <2> QED BY <1>0, <1>2, <2>4, <2>5, LocalStepTyped
<1>3. CASE ReadArtifact(p) /\ ~Return(p)
  <2> PICK f \in proc[p].todo :
        /\ Parses(f)
        /\ proc' = [proc EXCEPT ![p].todo = @ \ {f}, ![p].got[f] = dir[f]]
        /\ UNCHANGED <<calls, pc, now, dir, bundle, started>> /\ pc[p] = "read"
    BY <1>3 DEF ReadArtifact
  <2> DEFINE todo == proc[p].todo \ {f}
  <2>1. proc' = [proc EXCEPT ![p] = [proc[p] EXCEPT !.todo = todo, !.got = [@ EXCEPT ![f] = dir[f]]]]
    BY <1>0 DEF LocalSet
  <2>2. todo \in SUBSET Paths /\ f \in Paths /\ dir[f] # Torn /\ pc' = [pc EXCEPT ![p] = "read"]
    BY <1>0 DEF Parses
  <2> HIDE DEF todo
  <2> QED BY <1>2, <2>1, <2>2
<1>4. CASE PlanBundle(p)
  <2> DEFINE todo == {x \in Programs : proc[p].got["programs.json"][x] # Null}
             l == [proc[p] EXCEPT !.todo = todo]
  <2>1. todo \subseteq Programs /\ todo \subseteq Paths
    BY DEF Paths
  <2>2. proc' = [proc EXCEPT ![p] = l] /\ pc' = [pc EXCEPT ![p] = "copy"]
    BY <1>4 DEF PlanBundle
  <2> HIDE DEF todo
  <2>3. l \in LocalSet /\ l.got = proc[p].got /\ l.todo = todo
    BY <1>0, <2>1 DEF LocalSet
  <2>4. LocalOK(l, "copy")
    <3> HIDE DEF l
    <3> QED BY <1>0, <2>1, <2>3 DEF LocalOK, Labels
  <2> HIDE DEF l
  <2> QED BY <1>0, <1>4, <2>2, <2>4, LocalStepTyped DEF PlanBundle
<1>5. CASE CopyExecutable(p) /\ ~Return(p)
  <2> PICK x \in proc[p].todo :
        /\ proc' = [proc EXCEPT ![p].todo = @ \ {x}, ![p].got[x] = dir[x]]
        /\ UNCHANGED <<calls, pc, now, dir, bundle, started>> /\ pc[p] = "copy"
    BY <1>5 DEF CopyExecutable
  <2> DEFINE todo == proc[p].todo \ {x}
  <2>1. proc' = [proc EXCEPT ![p] = [proc[p] EXCEPT !.todo = todo, !.got = [@ EXCEPT ![x] = dir[x]]]]
    BY <1>0 DEF LocalSet
  <2>2. /\ todo \in SUBSET Paths /\ todo \subseteq Programs /\ x \in Paths /\ pc' = [pc EXCEPT ![p] = "copy"]
        /\ x \notin Parsed
    BY <1>0, CaptureAssumption DEF Parsed, Paths
  <2> HIDE DEF todo
  <2> QED BY <1>2, <2>1, <2>2
<1>6. CASE ReadLogs(p) /\ ~Return(p)
  <2>1. /\ proc' = [proc EXCEPT ![p].got["logs.txt"] = dir["logs.txt"]]
        /\ pc' = [pc EXCEPT ![p] = "bundle"] /\ proc[p].todo = {}
        /\ UNCHANGED <<calls, now, dir, bundle, started>>
    BY <1>6 DEF ReadLogs
  <2>2. proc' = [proc EXCEPT ![p] = [proc[p] EXCEPT !.todo = proc[p].todo,
                                                   !.got = [@ EXCEPT !["logs.txt"] = dir["logs.txt"]]]]
    BY <1>0, <2>1 DEF LocalSet
  <2>3. "logs.txt" \notin Parsed
    BY DEF Parsed
  <2> QED BY <1>0, <1>2, <2>1, <2>2, <2>3
<1>7. CASE MakeBundle(p)
  <2>1. bundle' \in Directories
    BY <1>0, <1>1, <1>7, WriteTyped DEF MakeBundle
  <2> QED BY <1>7, <2>1, ReturnTyped DEF MakeBundle
<1>8. CASE Return(p) /\ UNCHANGED <<now, dir, bundle, started>>
  BY <1>8, ReturnTyped
<1> QED BY <1>3, <1>4, <1>5, <1>6, <1>7, <1>8 DEF ReadArtifact, CopyExecutable, ReadLogs

LEMMA NextTyped == Typed /\ [Next]_vars => Typed'
<1> SUFFICES ASSUME Typed, [Next]_vars PROVE Typed'
  OBVIOUS
<1>1. CASE UNCHANGED vars
  BY <1>1 DEF vars, Typed
<1>2. CASE Tick
  BY <1>2, SlotFacts DEF Tick, Typed, After
<1>3. ASSUME NEW p \in Processes, NEW j \in Jobs, StartCommand(p, j) PROVE Typed'
  BY <1>3, StartTyped
<1>4. ASSUME NEW p \in Processes, Answer(p) PROVE Typed'
  BY <1>4, CallTyped
<1>5. ASSUME NEW p \in Processes, Step(p) PROVE Typed'
  BY <1>5, CallTyped, ReadTyped, ProgramTyped, ArtifactTyped, BundleTyped DEF Step
<1>6. ASSUME NEW p \in Processes, Crash(p) PROVE Typed'
  BY <1>6, ReturnTyped DEF Crash, Typed
<1> QED BY <1>1, <1>2, <1>3, <1>4, <1>5, <1>6 DEF Next

\* Every variable keeps its type.
THEOREM TypeCorrect == Spec => []TypeOK
BY TypedIsTypeOK, InitTyped, NextTyped, PTL DEF Spec

\* No artifact and no bundle holds an observation older than the transaction,
\* whether or not inspections of it are kept apart.
THEOREM ObservationsAreLater == Spec => []ObservedAfterExecution
<1>1. Typed => ObservedAfterExecution
  <2>1. ASSUME NEW d \in Directories PROVE AllAfter(d)
    <3>1. {"accounts.json", "programs.json"} \subseteq Paths
      BY DEF Paths, Artifacts
    <3>2. d["accounts.json"] \in {Absent, Torn} \cup AccountsFound
      BY <3>1 DEF Directories, Good
    <3>3. d["programs.json"] \in {Absent, Torn} \cup ProgramsFound
      BY <3>1 DEF Directories, Good
    <3> QED BY <3>2, <3>3 DEF AllAfter, AccountsAfter, ProgramsAfter, AccountsFound, ProgramsFound, After
  <2> QED BY <2>1 DEF Typed, ObservedAfterExecution
<1> QED BY <1>1, InitTyped, NextTyped, PTL DEF Spec
=============================================================================
