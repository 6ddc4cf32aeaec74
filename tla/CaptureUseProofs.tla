--------------------------- MODULE CaptureUseProofs ---------------------------
(***************************************************************************)
(* Proofs about Capture: why an inspection gives up, and what it leaves    *)
(* behind when it does not.                                                *)
(***************************************************************************)
EXTENDS CaptureProofs

USE DEF Goto, Return

-----------------------------------------------------------------------------
(* Giving up.                                                              *)

\* What went wrong with a call has been noted by the process that made it.
Noted(c, l) ==
    /\ c.phase = "waiting" => c.attempt <= l.troubles
    /\ c.phase = "backoff" => c.attempt + 1 <= l.troubles
    /\ c.phase = "rejected" => l.denied \/ l.troubles > Retries
    /\ c.phase = "resolved" /\ c.result = Null => l.denied

CauseInv ==
    \A p \in Processes :
        /\ pc[p] \in Reading => \A k \in CallsOf(p) : Noted(calls[k], proc[p])
        /\ pc[p] = "gaveUp" => proc[p].denied \/ proc[p].troubles > Retries

\* What happens to a call leaves no more in the process than a note of it.
LEMMA OnlyNotes ==
    ASSUME Typed, NEW p \in Processes, Answer(p) \/ AttemptTimesOut(p) \/ NextAttempt(p)
    PROVE  /\ proc'[p].accounts = proc[p].accounts /\ proc'[p].group = proc[p].group
           /\ proc'[p].recorded = proc[p].recorded
           /\ proc'[p].todo = proc[p].todo /\ proc'[p].open = proc[p].open
<1>0. proc[p] \in LocalSet /\ DOMAIN proc = Processes
  BY DEF Typed
<1>1. CASE NextAttempt(p)
  BY <1>1 DEF NextAttempt
<1>2. CASE AttemptTimesOut(p)
  <2> PICK n : proc' = [proc EXCEPT ![p].troubles = n]
    BY <1>2 DEF AttemptTimesOut
  <2>1. proc'[p] = [proc[p] EXCEPT !.troubles = n]
    BY <1>0
  <2> QED BY <1>0, <2>1 DEF LocalSet
<1>3. CASE Answer(p)
  <2> PICK n, d : proc' = [proc EXCEPT ![p].troubles = n, ![p].denied = d]
    BY <1>3 DEF Answer
  <2>1. proc'[p] = [proc[p] EXCEPT !.troubles = n, !.denied = d]
    BY <1>0
  <2> QED BY <1>0, <2>1 DEF LocalSet
<1> QED BY <1>1, <1>2, <1>3

LEMMA NotedAtFirst ==
    ASSUME NEW l \in LocalSet PROVE Noted(Begun, l) /\ Noted(Silent, l)
BY RetriesAssumption DEF Noted, Begun, Silent, LocalSet

\* A step of p that leaves the calls of the others alone.
LEMMA StepNoted ==
    ASSUME Typed, CauseInv, NEW p \in Processes, NEW l, NEW label,
           pc' = [pc EXCEPT ![p] = label], proc' = [proc EXCEPT ![p] = l],
           \A k \in Calls \ CallsOf(p) : calls'[k] = calls[k],
           label \in Reading => \A k \in CallsOf(p) : Noted(calls'[k], l),
           label = "gaveUp" => l.denied \/ l.troubles > Retries
    PROVE  CauseInv'
<1> SUFFICES ASSUME NEW q \in Processes
             PROVE  /\ pc'[q] \in Reading => \A k \in CallsOf(q) : Noted(calls'[k], proc'[q])
                    /\ pc'[q] = "gaveUp" => proc'[q].denied \/ proc'[q].troubles > Retries
  BY DEF CauseInv
<1>1. CASE q = p
  BY <1>1 DEF Typed
<1>2. CASE q # p
  <2>1. pc'[q] = pc[q] /\ proc'[q] = proc[q]
    BY <1>2 DEF Typed
  <2>2. \A k \in CallsOf(q) : calls'[k] = calls[k]
    BY <1>2, CallFacts
  <2> QED BY <2>1, <2>2 DEF CauseInv
<1> QED BY <1>1, <1>2

\* Calls that begin have not failed yet, the others are as they were, and so
\* is what p has noted.
LEMMA QuietlyNoted ==
    ASSUME Typed, CauseInv, NEW p \in Processes, NEW l \in LocalSet, NEW label,
           pc' = [pc EXCEPT ![p] = label], proc' = [proc EXCEPT ![p] = l],
           \A k \in Calls \ CallsOf(p) : calls'[k] = calls[k],
           \A k \in CallsOf(p) : calls'[k] \in {Begun, Silent, calls[k]},
           label \in Reading /\ pc[p] \in Reading =>
               l.troubles = proc[p].troubles /\ l.denied = proc[p].denied,
           label # "gaveUp"
    PROVE  CauseInv'
<1>1. ASSUME label \in Reading, NEW k \in CallsOf(p) PROVE Noted(calls'[k], l)
  <2>1. CASE calls'[k] # calls[k]
    BY <2>1, NotedAtFirst
  <2>2. CASE calls'[k] = calls[k] /\ pc[p] \notin Reading
    BY <2>2 DEF Typed, Noted
  <2>3. CASE calls'[k] = calls[k] /\ pc[p] \in Reading
    BY <1>1, <2>3 DEF CauseInv, Noted
  <2> QED BY <2>1, <2>2, <2>3
<1> QED BY <1>1, StepNoted

LEMMA ReadsNoted ==
    ASSUME Typed, CauseInv, NEW p \in Processes,
           \/ TransactionArrives(p) \/ AccountsArrive(p) \/ ProgramArrives(p) \/ WriteExecutable(p)
           \/ LookupsArrive(p) \/ BlockSettled(p)
    PROVE  CauseInv'
<1> DEFINE l == proc'[p]
           label == pc'[p]
<1>0. proc[p] \in LocalSet /\ l \in LocalSet
  <2>1. Typed'
    BY ReadTyped, ProgramTyped
  <2> QED BY <2>1 DEF Typed
<1>1. /\ pc' = [pc EXCEPT ![p] = label] /\ proc' = [proc EXCEPT ![p] = l]
      /\ label \in Reading /\ pc[p] \in Reading =>
           l.troubles = proc[p].troubles /\ l.denied = proc[p].denied
      /\ \A k \in Calls \ CallsOf(p) : calls'[k] = calls[k]
      /\ \A k \in CallsOf(p) : calls'[k] \in {Begun, Silent, calls[k]}
  <2> USE <1>0, CallFacts
  <2>1. CASE TransactionArrives(p) /\ ~(\E k \in CallsOf(p) : calls[k].result = Null)
    BY <2>1 DEF TransactionArrives, Typed, LocalSet
  <2>2. CASE TransactionArrives(p) /\ \E k \in CallsOf(p) : calls[k].result = Null
    BY <2>2 DEF TransactionArrives, Typed, Drop
  <2>3. CASE AccountsArrive(p)
    <3>1. CASE proc[p].group < Len(Groups)
      BY <2>3, <3>1 DEF AccountsArrive, Typed, LocalSet, Send
    <3>2. CASE ~(proc[p].group < Len(Groups))
      <4>1. PICK a : proc' = [proc EXCEPT ![p].accounts = a, ![p].todo = Programs,
                                         ![p].program = Pick(Programs)]
        BY <2>3, <3>2 DEF AccountsArrive
      <4>2. pc' = [pc EXCEPT ![p] = label]
        BY <2>3, <3>2 DEF AccountsArrive, Typed
      <4>3. /\ proc' = [proc EXCEPT ![p] = l]
            /\ l.troubles = proc[p].troubles /\ l.denied = proc[p].denied
        BY <4>1 DEF Typed, LocalSet
      <4>4. /\ \A k \in Calls \ CallsOf(p) : calls'[k] = calls[k]
            /\ \A k \in CallsOf(p) : calls'[k] \in {Begun, Silent, calls[k]}
        BY <2>3 DEF AccountsArrive, Typed, Send
      <4> QED BY <4>2, <4>3, <4>4
    <3> QED BY <3>1, <3>2
  <2>4. ASSUME NEW r, NextProgram(p, r)
        PROVE  /\ pc' = [pc EXCEPT ![p] = label] /\ proc' = [proc EXCEPT ![p] = l]
               /\ l.troubles = proc[p].troubles /\ l.denied = proc[p].denied
               /\ \A k \in Calls \ CallsOf(p) : calls'[k] = calls[k]
               /\ \A k \in CallsOf(p) : calls'[k] \in {Begun, Silent, calls[k]}
    BY <2>4 DEF NextProgram, Typed, LocalSet, Send
  <2>5. CASE ProgramArrives(p)
    <3>1. CASE HasBytes(p)
      BY <2>5, <3>1 DEF ProgramArrives, Typed, LocalSet, Drop
    <3>2. CASE ~HasBytes(p)
      BY <2>4, <2>5, <3>2 DEF ProgramArrives
    <3> QED BY <3>1, <3>2
  <2>6. CASE WriteExecutable(p)
    BY <2>4, <2>6 DEF WriteExecutable
  <2>7. CASE LookupsArrive(p)
    BY <2>7 DEF LookupsArrive, Typed, LocalSet, Send
  <2>8. CASE BlockSettled(p)
    BY <2>8 DEF BlockSettled, Typed, LocalSet, Drop, Reading
  <2> QED BY <2>1, <2>2, <2>3, <2>5, <2>6, <2>7, <2>8
<1> HIDE DEF l, label
<1>2. CASE label # "gaveUp"
  BY <1>0, <1>1, <1>2, QuietlyNoted
<1>3. CASE label = "gaveUp"
  <2>1. TransactionArrives(p) /\ \E k \in CallsOf(p) : calls[k].result = Null
    BY <1>3
    DEF label, TransactionArrives, AccountsArrive, ProgramArrives, WriteExecutable, NextProgram,
        LookupsArrive, BlockSettled, NextRead, Typed
  <2>2. l.denied
    BY <1>1, <2>1 DEF TransactionArrives, CauseInv, Noted, Reading, l
  <2> QED BY <1>1, <1>3, <2>2, StepNoted DEF Reading
<1> QED BY <1>2, <1>3

\* A call fails, is answered or is tried again.
LEMMA CallNoted ==
    ASSUME Typed, CauseInv, NEW p \in Processes,
           Answer(p) \/ AttemptTimesOut(p) \/ NextAttempt(p)
    PROVE  CauseInv'
<1> DEFINE l == proc'[p]
           more == IF proc[p].troubles <= Retries THEN proc[p].troubles + 1 ELSE proc[p].troubles
<1>0. /\ proc[p] \in LocalSet /\ l \in LocalSet
      /\ proc[p].troubles \in Nat /\ proc[p].troubles <= more /\ Retries \in Nat /\ more \in Nat
  <2>1. Typed'
    BY CallTyped
  <2>2. proc[p] \in LocalSet /\ l \in LocalSet
    BY <2>1 DEF Typed
  <2> QED BY <2>2, RetriesAssumption DEF LocalSet
<1>1. /\ pc' = [pc EXCEPT ![p] = pc[p]] /\ proc' = [proc EXCEPT ![p] = l]
  BY DEF Answer, AttemptTimesOut, NextAttempt, Typed
<1>2. PICK k \in CallsOf(p) :
        /\ calls[k].phase \in {"waiting", "backoff"} /\ k \in Calls
        /\ \A q \in Calls \ {k} : calls'[q] = calls[q]
        /\ proc[p].troubles <= l.troubles /\ (proc[p].denied => l.denied)
        /\ Noted(calls[k], proc[p]) => Noted(calls'[k], l)
  <2>0. ASSUME NEW k \in CallsOf(p), Fail(k), calls[k].phase = "waiting", l.troubles = more,
               Noted(calls[k], proc[p])
        PROVE  Noted(calls'[k], l)
    <3>1. k \in Calls /\ calls[k] \in CallSet
      BY CallFacts DEF Typed
    <3>2. calls[k].attempt \in 0..Retries /\ calls[k].attempt <= proc[p].troubles
      BY <2>0, <3>1 DEF CallSet, Noted
    <3>3. CASE LastAttempt(k)
      <4>1. calls'[k].phase = "rejected"
        BY <2>0, <3>1, <3>3 DEF Fail, Typed, CallSet
      <4>2. l.troubles > Retries
        BY <1>0, <2>0, <3>2, <3>3 DEF LastAttempt
      <4> QED BY <4>1, <4>2 DEF Noted
    <3>4. CASE ~LastAttempt(k)
      <4>1. calls'[k].phase = "backoff" /\ calls'[k].attempt = calls[k].attempt
        BY <2>0, <3>1, <3>4 DEF Fail, Typed, CallSet
      <4>2. calls[k].attempt + 1 <= l.troubles
        BY <1>0, <2>0, <3>2, <3>4 DEF LastAttempt
      <4> QED BY <4>1, <4>2 DEF Noted
    <3> QED BY <3>3, <3>4
  <2>1. CASE Answer(p)
    <3> PICK k \in CallsOf(p), reply \in Replies, value \in Results(p) \cup {NoResult} :
          /\ (Meaning(reply) = "result") <=> (value # NoResult)
          /\ Respond(k, reply, value)
          /\ proc' = [proc EXCEPT
              ![p].troubles = IF Meaning(reply) = "failure" /\ @ <= Retries THEN @ + 1 ELSE @,
              ![p].denied = @ \/ Meaning(reply) = "RpcError" \/ value = Null]
      BY <2>1 DEF Answer
    <3>1. k \in Calls /\ calls[k] \in CallSet /\ calls[k].phase = "waiting"
      BY CallFacts DEF Respond, Typed
    <3>2. /\ l.troubles = IF Meaning(reply) = "failure" THEN more ELSE proc[p].troubles
          /\ l.denied = (proc[p].denied \/ Meaning(reply) = "RpcError" \/ value = Null)
      BY <1>0 DEF Typed, LocalSet
    <3>5. (proc[p].denied \/ Meaning(reply) = "RpcError" \/ value = Null) => l.denied
      BY <3>2
    <3>6. CASE Meaning(reply) = "failure"
      <4>1. Fail(k)
        BY <3>6 DEF Respond
      <4>2. \A q \in Calls \ {k} : calls'[q] = calls[q]
        BY <4>1 DEF Fail, Typed
      <4> QED BY <1>0, <2>0, <3>1, <3>2, <3>5, <3>6, <4>1, <4>2
    <3>7. CASE Meaning(reply) = "RpcError"
      <4>1. calls' = [calls EXCEPT ![k].phase = "rejected"]
        BY <3>7 DEF Respond
      <4>2. calls'[k].phase = "rejected" /\ \A q \in Calls \ {k} : calls'[q] = calls[q]
        BY <3>1, <4>1 DEF Typed, CallSet
      <4>3. l.denied /\ Noted(calls'[k], l)
        BY <3>5, <3>7, <4>2 DEF Noted
      <4>4. l.troubles = proc[p].troubles
        BY <3>2, <3>7
      <4> QED BY <1>0, <3>1, <4>2, <4>3, <4>4
    <3>8. CASE Meaning(reply) = "result"
      <4>1. calls' = [calls EXCEPT ![k].phase = "resolved", ![k].result = value]
        BY <3>8 DEF Respond
      <4>2. /\ calls'[k].phase = "resolved" /\ calls'[k].result = value
            /\ \A q \in Calls \ {k} : calls'[q] = calls[q]
        BY <3>1, <4>1 DEF Typed, CallSet
      <4>3. Noted(calls'[k], l)
        BY <3>5, <4>2 DEF Noted
      <4>4. l.troubles = proc[p].troubles
        BY <3>2, <3>8
      <4> QED BY <1>0, <3>1, <3>5, <4>2, <4>3, <4>4
    <3>9. Meaning(reply) \in {"failure", "RpcError", "result"}
      BY DEF Meaning
    <3> QED BY <3>6, <3>7, <3>8, <3>9
  <2>2. CASE AttemptTimesOut(p)
    <3> PICK k \in CallsOf(p) :
          /\ TimeOut(k)
          /\ proc' = [proc EXCEPT ![p].troubles = IF @ <= Retries THEN @ + 1 ELSE @]
      BY <2>2 DEF AttemptTimesOut
    <3>1. l.troubles = more /\ l.denied = proc[p].denied
      BY <1>0 DEF Typed, LocalSet
    <3>2. /\ calls[k].phase = "waiting" /\ Fail(k) /\ k \in Calls
          /\ \A q \in Calls \ {k} : calls'[q] = calls[q]
      BY CallFacts DEF TimeOut, Fail, Typed
    <3> QED BY <1>0, <2>0, <3>1, <3>2
  <2>3. CASE NextAttempt(p)
    <3> PICK k \in CallsOf(p) : Retry(k) /\ proc' = proc
      BY <2>3 DEF NextAttempt
    <3>1. k \in Calls /\ calls[k] \in CallSet
      BY CallFacts DEF Typed
    <3>2. /\ calls[k].phase = "backoff"
          /\ calls'[k].phase = "waiting" /\ calls'[k].attempt = calls[k].attempt + 1
          /\ \A q \in Calls \ {k} : calls'[q] = calls[q]
      BY <3>1 DEF Retry, Typed, CallSet
    <3> QED BY <1>0, <3>1, <3>2 DEF Noted
  <2> QED BY <2>1, <2>2, <2>3
<1> HIDE DEF l
<1>3. ASSUME pc[p] \in Reading, NEW q \in CallsOf(p) PROVE Noted(calls'[q], l)
  <2>1. q \in Calls /\ calls[q] \in CallSet /\ calls[q].attempt \in 0..Retries
        /\ Noted(calls[q], proc[p])
    BY <1>3, CallFacts DEF CauseInv, Typed, CallSet
  <2>2. CASE q = k
    BY <1>2, <2>1, <2>2
  <2>3. CASE q # k
    <3>1. calls'[q] = calls[q]
      BY <1>2, <2>1, <2>3
    <3>2. l.troubles \in Nat
      BY <1>0, RetriesAssumption DEF LocalSet
    <3> QED BY <1>0, <1>2, <2>1, <3>1, <3>2 DEF Noted
  <2> QED BY <2>2, <2>3
<1>4. \A q \in Calls \ CallsOf(p) : calls'[q] = calls[q]
  BY <1>2
<1>5. pc[p] \in Reading
  BY <1>2 DEF Typed
<1> QED BY <1>1, <1>3, <1>4, <1>5, StepNoted DEF Reading

LEMMA NextNoted == Typed /\ CauseInv /\ [Next]_vars => CauseInv'
<1> SUFFICES ASSUME Typed, CauseInv, [Next]_vars PROVE CauseInv'
  OBVIOUS
<1>1. CASE UNCHANGED vars \/ Tick
  BY <1>1 DEF vars, Tick, CauseInv
\* The process leaves the reading, or the steps after it.
<1>2. ASSUME NEW p \in Processes, pc'[p] \notin Reading, pc'[p] # "gaveUp",
             \A q \in Processes \ {p} : pc'[q] = pc[q] /\ proc'[q] = proc[q],
             \A k \in Calls \ CallsOf(p) : calls'[k] = calls[k]
      PROVE  CauseInv'
  BY <1>2, CallFacts DEF CauseInv
<1>3. ASSUME NEW p \in Processes, Return(p)
      PROVE  /\ pc'[p] = "idle"
             /\ \A q \in Processes \ {p} : pc'[q] = pc[q] /\ proc'[q] = proc[q]
             /\ \A k \in Calls \ CallsOf(p) : calls'[k] = calls[k]
  BY <1>3 DEF Typed, Drop
<1>4. ASSUME NEW p \in Processes, Return(p) PROVE CauseInv'
  BY <1>2, <1>3, <1>4 DEF Reading
<1>5. ASSUME NEW p \in Processes, NEW j \in Jobs, StartCommand(p, j) PROVE CauseInv'
  <2>1. CASE j = "bundle"
    BY <1>2, <1>5, <2>1, CallFacts DEF StartCommand, Typed, Reading
  <2>2. CASE j # "bundle"
    <3> DEFINE l == [proc[p] EXCEPT !.job = j]
    <3>0. proc[p] \in LocalSet
      BY DEF Typed
    <3>1. l \in LocalSet
      BY <3>0 DEF LocalSet
    <3>2. proc' = [proc EXCEPT ![p] = l] /\ pc' = [pc EXCEPT ![p] = "transaction"] /\ pc[p] = "idle"
      BY <1>5, <2>2 DEF StartCommand, Typed, LocalSet
    <3>3. /\ \A k \in CallsOf(p) : calls'[k] \in {Begun, Silent, calls[k]}
          /\ \A k \in Calls \ CallsOf(p) : calls'[k] = calls[k]
      BY <1>5, <2>2, CallFacts DEF StartCommand, Send
    <3> HIDE DEF l
    <3> QED BY <3>1, <3>2, <3>3, QuietlyNoted DEF Reading
  <2> QED BY <2>1, <2>2
<1>6. ASSUME NEW p \in Processes, GiveUp(p) PROVE CauseInv'
  <2>1. proc[p].denied \/ proc[p].troubles > Retries
    BY <1>6 DEF GiveUp, Failed, CauseInv, Noted
  <2>2. /\ pc' = [pc EXCEPT ![p] = "gaveUp"] /\ proc' = [proc EXCEPT ![p] = proc[p]]
        /\ \A k \in Calls \ CallsOf(p) : calls'[k] = calls[k]
    BY <1>6 DEF GiveUp, Drop, Typed
  <2> QED BY <2>1, <2>2, StepNoted DEF Reading
<1>7. ASSUME NEW p \in Processes,
             OpenArtifact(p) \/ WriteArtifact(p) \/ (FinishInspection(p) /\ ~Return(p))
      PROVE  CauseInv'
  BY <1>2, <1>7, CallFacts DEF OpenArtifact, WriteArtifact, FinishInspection, Typed, Reading
<1>8. ASSUME NEW p \in Processes,
             \/ (ReadArtifact(p) \/ CopyExecutable(p) \/ ReadLogs(p)) /\ ~Return(p)
             \/ PlanBundle(p)
      PROVE  CauseInv'
  BY <1>2, <1>8, CallFacts DEF ReadArtifact, PlanBundle, CopyExecutable, ReadLogs, Typed, Reading
<1>9. ASSUME NEW p \in Processes, MakeBundle(p) \/ Crash(p) \/ ReportFailure(p) PROVE CauseInv'
  BY <1>4, <1>9 DEF MakeBundle, Crash, ReportFailure
<1> QED BY <1>1, <1>4, <1>5, <1>6, <1>7, <1>8, <1>9, ReadsNoted, CallNoted DEF Next, Step

\* An inspection that gives up was told no, or the same call failed on its
\* last attempt: for every number of retries, processes and groups.
THEOREM GivesUpRightly == Spec => []GivesUpForCause
<1>1. Init => CauseInv
  BY DEF Init, CauseInv, Reading
<1>2. CauseInv => GivesUpForCause
  BY DEF CauseInv, GivesUpForCause
<1> QED BY <1>1, <1>2, InitTyped, NextTyped, NextNoted, PTL DEF Spec
-----------------------------------------------------------------------------
(* What an inspection that ends has replaced, when the users keep          *)
(* inspections of the transaction apart.                                   *)

OneInspector ==
    \A p, q \in Processes : pc[p] \in Inspecting /\ pc[q] \in Inspecting => p = q

\* The programs recorded are on disk, but for the one that is being written;
\* so are the artifacts that have been closed.
OnDisk(l, label, d) ==
    /\ label \in Inspecting =>
         \A x \in Programs :
             l.recorded[x] # Null /\ ~(label = "executable" /\ x = l.program) => d[x] = l.recorded[x]
    /\ label = "write" =>
         /\ \A f \in Immutable \ (l.todo \cup l.open) : d[f] = "history"
         /\ "accounts.json" \notin l.todo \cup l.open => d["accounts.json"] = l.accounts
         /\ "programs.json" \notin l.todo \cup l.open => d["programs.json"] = l.recorded
         /\ "lookup-tables.json" \notin l.todo \cup l.open => d["lookup-tables.json"] = l.lookups

WholeInv == OneInspector /\ \A p \in Processes : OnDisk(proc[p], pc[p], dir)

\* Only an inspection writes to the directory, so the others do not notice.
LEMMA StepWhole ==
    ASSUME Typed, WholeInv, NEW p \in Processes, NEW l, NEW label,
           pc' = [pc EXCEPT ![p] = label], proc' = [proc EXCEPT ![p] = l],
           label \in Inspecting =>
               \/ pc[p] \in Inspecting
               \/ \A q \in Processes : pc[q] \notin Inspecting,
           dir' = dir \/ pc[p] \in Inspecting,
           OnDisk(l, label, dir')
    PROVE  WholeInv'
<1>1. OneInspector'
  BY DEF WholeInv, OneInspector, Typed
<1>2. ASSUME NEW q \in Processes PROVE OnDisk(proc'[q], pc'[q], dir')
  <2>1. CASE q = p
    BY <2>1 DEF Typed
  <2>2. CASE q # p
    <3>1. pc'[q] = pc[q] /\ proc'[q] = proc[q]
      BY <2>2 DEF Typed
    <3>2. CASE dir' = dir
      BY <3>1, <3>2 DEF WholeInv
    <3>3. CASE pc[p] \in Inspecting
      <4>1. pc[q] \notin Inspecting
        BY <2>2, <3>3 DEF WholeInv, OneInspector
      <4> QED BY <3>1, <4>1 DEF OnDisk, Inspecting
    <3> QED BY <3>2, <3>3
  <2> QED BY <2>1, <2>2
<1> QED BY <1>1, <1>2 DEF WholeInv

\* A step to a label where nothing has to be on disk.
LEMMA IdleWhole ==
    ASSUME Typed, WholeInv, NEW p \in Processes, NEW l, NEW label,
           pc' = [pc EXCEPT ![p] = label], proc' = [proc EXCEPT ![p] = l],
           label \notin Inspecting, dir' = dir
    PROVE  WholeInv'
<1>1. OnDisk(l, label, dir')
  BY DEF OnDisk, Inspecting
<1> QED BY <1>1, StepWhole

\* A step of an inspection that reads on and records no program.
LEMMA ReadWhole ==
    ASSUME Typed, WholeInv, NEW p \in Processes, NEW l, NEW label,
           pc' = [pc EXCEPT ![p] = label], proc' = [proc EXCEPT ![p] = l],
           pc[p] \in Inspecting \ {"executable"}, l.recorded = proc[p].recorded, dir' = dir,
           label = "write" => l.todo = Artifacts
    PROVE  WholeInv'
<1>1. OnDisk(proc[p], pc[p], dir)
  BY DEF WholeInv
<1>2. OnDisk(l, label, dir')
  BY <1>1 DEF OnDisk, Artifacts, Immutable
<1> QED BY <1>2, StepWhole

\* What the answers change that record no program.
LEMMA ReadFacts ==
    ASSUME Typed, NEW p \in Processes,
           \/ Answer(p) \/ AttemptTimesOut(p) \/ NextAttempt(p) \/ TransactionArrives(p)
           \/ AccountsArrive(p) \/ LookupsArrive(p) \/ BlockSettled(p) \/ GiveUp(p)
    PROVE  /\ pc[p] \in Reading
           /\ pc' = [pc EXCEPT ![p] = pc'[p]] /\ proc' = [proc EXCEPT ![p] = proc'[p]] /\ dir' = dir
           /\ pc'[p] \notin {"read", "copy"}
           /\ proc'[p].recorded = proc[p].recorded
           /\ pc'[p] = "write" => proc'[p].todo = Artifacts
<1> DEFINE l == proc'[p]
           label == pc'[p]
<1>0. proc[p] \in LocalSet
  BY DEF Typed
<1>1. pc[p] \in Reading
  BY DEF Answer, Respond, AttemptTimesOut, TimeOut, NextAttempt, Retry, TransactionArrives,
         AccountsArrive, LookupsArrive, BlockSettled, GiveUp, Typed, Reading
<1>2. pc' = [pc EXCEPT ![p] = label] /\ proc' = [proc EXCEPT ![p] = l] /\ dir' = dir
  BY DEF Answer, AttemptTimesOut, NextAttempt, TransactionArrives,
         AccountsArrive, LookupsArrive, BlockSettled, GiveUp, Typed
<1>3. l.recorded = proc[p].recorded /\ (label = "write" => l.todo = Artifacts)
  <2>1. CASE Answer(p) \/ AttemptTimesOut(p) \/ NextAttempt(p)
    <3>1. label # "write"
      BY <1>1, <2>1 DEF Answer, AttemptTimesOut, NextAttempt, Reading
    <3>2. l.recorded = proc[p].recorded
      BY <2>1, OnlyNotes
    <3> QED BY <3>1, <3>2
  <2>2. CASE TransactionArrives(p) \/ LookupsArrive(p) \/ GiveUp(p)
    BY <1>0, <2>2 DEF TransactionArrives, LookupsArrive, GiveUp, Typed, LocalSet
  <2>3. CASE BlockSettled(p)
    BY <1>0, <2>3 DEF BlockSettled, Typed, LocalSet
  <2>4. CASE AccountsArrive(p)
    <3>1. CASE proc[p].group < Len(Groups)
      <4>1. PICK a, n : proc' = [proc EXCEPT ![p].accounts = a, ![p].group = n]
        BY <2>4, <3>1 DEF AccountsArrive
      <4>2. label # "write"
        BY <2>4, <3>1 DEF AccountsArrive
      <4> QED BY <1>0, <4>1, <4>2 DEF Typed, LocalSet
    <3>2. CASE ~(proc[p].group < Len(Groups))
      <4>1. PICK a : proc' = [proc EXCEPT ![p].accounts = a, ![p].todo = Programs,
                                         ![p].program = Pick(Programs)]
        BY <2>4, <3>2 DEF AccountsArrive
      <4>2. label # "write"
        BY <2>4, <3>2 DEF AccountsArrive, NextRead, Typed
      <4> QED BY <1>0, <4>1, <4>2 DEF Typed, LocalSet
    <3> QED BY <3>1, <3>2
  <2> QED BY <2>1, <2>2, <2>3, <2>4
<1>4. label \notin {"read", "copy"}
  BY <1>1 DEF Answer, AttemptTimesOut, NextAttempt, TransactionArrives, AccountsArrive,
         LookupsArrive, BlockSettled, GiveUp, NextRead, Typed, Reading
<1> HIDE DEF l, label
<1> QED BY <1>1, <1>2, <1>3, <1>4 DEF l, label

LEMMA ReadsWhole ==
    ASSUME Typed, WholeInv, NEW p \in Processes,
           \/ Answer(p) \/ AttemptTimesOut(p) \/ NextAttempt(p) \/ TransactionArrives(p)
           \/ AccountsArrive(p) \/ LookupsArrive(p) \/ BlockSettled(p) \/ GiveUp(p)
    PROVE  WholeInv'
<1> DEFINE l == proc'[p]
           label == pc'[p]
<1>1. /\ pc' = [pc EXCEPT ![p] = label] /\ proc' = [proc EXCEPT ![p] = l] /\ dir' = dir
      /\ pc[p] \in Inspecting \ {"executable"}
      /\ l.recorded = proc[p].recorded /\ (label = "write" => l.todo = Artifacts)
  BY ReadFacts DEF Inspecting, Reading
<1> HIDE DEF l, label
<1> QED BY <1>1, ReadWhole

\* collectPrograms: the bytes are on disk before the next program is asked for.
LEMMA ProgramWhole ==
    ASSUME Typed, WholeInv, NEW p \in Processes, ProgramArrives(p) \/ WriteExecutable(p)
    PROVE  WholeInv'
<1> DEFINE x == proc[p].program
           l == proc'[p]
           label == pc'[p]
<1>0. /\ proc[p] \in LocalSet /\ x \in Programs /\ dir \in Directories
      /\ pc[p] \in {"program", "executable"} /\ OnDisk(proc[p], pc[p], dir)
      /\ DOMAIN proc[p].recorded = Programs
      /\ DOMAIN dir = Paths /\ x \in Paths
  BY DEF ProgramArrives, WriteExecutable, Typed, LocalOK, WholeInv, LocalSet, ProgramsFound,
         Directories, Paths
<1>1. ASSUME NEW r, NextProgram(p, r),
             \A y \in Programs : r[y] # Null => dir'[y] = r[y]
      PROVE  WholeInv'
  <2>1. /\ pc' = [pc EXCEPT ![p] = label] /\ proc' = [proc EXCEPT ![p] = l]
        /\ l.recorded = r /\ label \in {"program", "lookups", "block"}
    BY <1>0, <1>1 DEF NextProgram, NextRead, Typed, LocalSet
  <2>2. OnDisk(l, label, dir')
    BY <1>1, <2>1 DEF OnDisk
  <2> HIDE DEF l, label
  <2> QED BY <1>0, <2>1, <2>2, StepWhole DEF Inspecting, Reading
<1>2. CASE ProgramArrives(p) /\ HasBytes(p)
  <2> DEFINE r == [proc[p].recorded EXCEPT ![x] =
                     IF Result(p).executable THEN Result(p).at ELSE Null]
  <2>1. /\ pc' = [pc EXCEPT ![p] = "executable"] /\ proc' = [proc EXCEPT ![p].recorded = r]
        /\ dir' = [dir EXCEPT ![x] = Torn] /\ pc[p] = "program"
    BY <1>2 DEF ProgramArrives
  <2>2. \A y \in Programs \ {x} : r[y] = proc[p].recorded[y] /\ dir'[y] = dir[y]
    BY <1>0, <2>1 DEF Paths
  <2> HIDE DEF r
  <2>3. /\ proc' = [proc EXCEPT ![p] = l] /\ l.recorded = r /\ l.program = x
    BY <1>0, <2>1 DEF Typed, LocalSet
  <2>4. OnDisk(l, "executable", dir')
    BY <1>0, <2>1, <2>2, <2>3 DEF OnDisk, Inspecting, Reading
  <2> HIDE DEF l, label
  <2> QED BY <2>1, <2>3, <2>4, StepWhole DEF Inspecting, Reading
<1>3. CASE ProgramArrives(p) /\ ~HasBytes(p)
  <2> DEFINE r == [proc[p].recorded EXCEPT ![x] =
                     IF Result(p).executable THEN Result(p).at ELSE Null]
  <2>1. NextProgram(p, r) /\ dir' = dir /\ pc[p] = "program" /\ r[x] = Null
    BY <1>0, <1>3 DEF ProgramArrives, HasBytes
  <2>2. \A y \in Programs : r[y] # Null => dir'[y] = r[y]
    BY <1>0, <2>1 DEF OnDisk, Inspecting, Reading
  <2> HIDE DEF r
  <2> QED BY <1>1, <2>1, <2>2
<1>4. CASE WriteExecutable(p)
  <2>1. /\ pc[p] = "executable" /\ NextProgram(p, proc[p].recorded)
        /\ dir' = [dir EXCEPT ![x] = proc[p].recorded[x]]
    BY <1>4 DEF WriteExecutable
  <2>2. \A y \in Programs : proc[p].recorded[y] # Null => dir'[y] = proc[p].recorded[y]
    BY <1>0, <2>1 DEF OnDisk, Inspecting, Paths
  <2> QED BY <1>1, <2>1, <2>2
<1> QED BY <1>2, <1>3, <1>4

\* The artifacts are no program's file.
LEMMA ArtifactWhole ==
    ASSUME Typed, WholeInv, NEW p \in Processes, OpenArtifact(p) \/ WriteArtifact(p)
    PROVE  WholeInv'
<1> DEFINE l == proc'[p]
<1>0. /\ pc[p] = "write" /\ pc' = [pc EXCEPT ![p] = "write"]
      /\ proc[p] \in LocalSet /\ OnDisk(proc[p], "write", dir) /\ DOMAIN dir = Paths
      /\ proc[p].todo \subseteq Artifacts /\ proc[p].open \subseteq Artifacts
  BY DEF OpenArtifact, WriteArtifact, WholeInv, Typed, LocalOK, LocalSet, Directories
<1>1. PICK f \in Artifacts :
        /\ dir' = [dir EXCEPT ![f] = dir'[f]]
        /\ dir'[f] = Produced(p, f) \/ f \in l.todo \cup l.open
        /\ proc' = [proc EXCEPT ![p] = l]
        /\ l.recorded = proc[p].recorded /\ l.accounts = proc[p].accounts /\ l.lookups = proc[p].lookups
        /\ proc[p].todo \cup proc[p].open \subseteq l.todo \cup l.open \cup {f}
  <2>1. CASE OpenArtifact(p)
    <3> PICK f \in proc[p].todo :
          /\ dir' = [dir EXCEPT ![f] = Torn]
          /\ proc' = [proc EXCEPT ![p].todo = @ \ {f}, ![p].open = @ \cup {f}]
      BY <2>1 DEF OpenArtifact
    <3>1. /\ proc' = [proc EXCEPT ![p] = l]
          /\ l.recorded = proc[p].recorded /\ l.accounts = proc[p].accounts /\ l.lookups = proc[p].lookups
          /\ l.todo = proc[p].todo \ {f} /\ l.open = proc[p].open \cup {f}
      BY <1>0 DEF Typed, LocalSet
    <3>2. f \in Artifacts /\ dir' = [dir EXCEPT ![f] = dir'[f]]
      BY <1>0 DEF Paths
    <3> QED BY <1>0, <3>1, <3>2
  <2>2. CASE WriteArtifact(p)
    <3> PICK f \in proc[p].open :
          /\ dir' = [dir EXCEPT ![f] = Produced(p, f)]
          /\ proc' = [proc EXCEPT ![p].open = @ \ {f}]
      BY <2>2 DEF WriteArtifact
    <3>1. /\ proc' = [proc EXCEPT ![p] = l]
          /\ l.recorded = proc[p].recorded /\ l.accounts = proc[p].accounts /\ l.lookups = proc[p].lookups
          /\ l.todo = proc[p].todo /\ l.open = proc[p].open \ {f}
      BY <1>0 DEF Typed, LocalSet
    <3>2. f \in Artifacts /\ f \in DOMAIN dir
      BY <1>0 DEF Paths
    <3> DEFINE v == Produced(p, f)
    <3>3. dir' = [dir EXCEPT ![f] = v]
      OBVIOUS
    <3> HIDE DEF v
    <3>4. dir' = [dir EXCEPT ![f] = dir'[f]] /\ dir'[f] = v
      BY <3>2, <3>3
    <3> USE DEF v
    <3> QED BY <1>0, <3>1, <3>2, <3>4
  <2> QED BY <2>1, <2>2
<1>2. \A g \in Paths \ {f} : dir'[g] = dir[g]
  BY <1>0, <1>1
<1>3. f \notin l.todo \cup l.open => dir'[f] = Produced(p, f)
  BY <1>0, <1>1 DEF Paths
<1> HIDE DEF l
<1>4. \A x \in Programs : l.recorded[x] # Null => dir'[x] = l.recorded[x]
  <2>1. \A x \in Programs : x \in Paths \ {f}
    BY CaptureAssumption DEF Paths
  <2> QED BY <1>0, <1>1, <1>2, <2>1 DEF OnDisk, Inspecting
<1>5. /\ \A g \in Immutable \ (l.todo \cup l.open) : dir'[g] = "history"
      /\ "accounts.json" \notin l.todo \cup l.open => dir'["accounts.json"] = l.accounts
      /\ "programs.json" \notin l.todo \cup l.open => dir'["programs.json"] = l.recorded
      /\ "lookup-tables.json" \notin l.todo \cup l.open => dir'["lookup-tables.json"] = l.lookups
  <2>1. \A g \in Artifacts : g # f => dir'[g] = dir[g] /\ (g \notin l.todo \cup l.open => g \notin proc[p].todo \cup proc[p].open)
    BY <1>1, <1>2 DEF Paths
  <2>2. \A g \in Immutable \ (l.todo \cup l.open) : dir'[g] = "history"
    BY <1>0, <1>3, <2>1 DEF OnDisk, Produced, Artifacts, Immutable
  <2>3. "accounts.json" \notin l.todo \cup l.open => dir'["accounts.json"] = l.accounts
    BY <1>0, <1>1, <1>3, <2>1 DEF OnDisk, Produced, Artifacts, Immutable
  <2>4. "programs.json" \notin l.todo \cup l.open => dir'["programs.json"] = l.recorded
    BY <1>0, <1>1, <1>3, <2>1 DEF OnDisk, Produced, Artifacts, Immutable
  <2>5. "lookup-tables.json" \notin l.todo \cup l.open => dir'["lookup-tables.json"] = l.lookups
    BY <1>0, <1>1, <1>3, <2>1 DEF OnDisk, Produced, Artifacts, Immutable
  <2> QED BY <2>2, <2>3, <2>4, <2>5
<1>6. OnDisk(l, "write", dir')
  BY <1>4, <1>5 DEF OnDisk
<1> QED BY <1>0, <1>1, <1>6, StepWhole DEF Inspecting

LEMMA NextWhole ==
    ASSUME Apart = TRUE
    PROVE  Typed /\ WholeInv /\ [Next]_vars => WholeInv'
<1> SUFFICES ASSUME Typed, WholeInv, [Next]_vars PROVE WholeInv'
  OBVIOUS
<1>1. CASE UNCHANGED vars \/ Tick
  BY <1>1 DEF vars, Tick, WholeInv, OneInspector
<1>2. ASSUME NEW p \in Processes, Return(p), dir' = dir PROVE WholeInv'
  BY <1>2, IdleWhole DEF Inspecting, Reading
<1>3. ASSUME NEW p \in Processes, NEW j \in Jobs, StartCommand(p, j) PROVE WholeInv'
  <2> DEFINE l == proc'[p]
             label == pc'[p]
  <2>1. /\ pc[p] = "idle" /\ proc[p] = NoLocals /\ dir' = dir
        /\ label = IF j = "bundle" THEN "read" ELSE "transaction"
        /\ pc' = [pc EXCEPT ![p] = label]
        /\ j # "bundle" => \A q \in Processes : pc[q] \notin Inspecting
    BY <1>3 DEF StartCommand, MayStart, Typed, LocalOK
  <2>2. /\ proc' = [proc EXCEPT ![p] = l] /\ l.recorded = NoLocals.recorded
    <3>0. NoLocals \in LocalSet
      BY NoLocalsOK DEF LocalOK
    <3>1. CASE j = "bundle"
      BY <1>3, <2>1, <3>0, <3>1 DEF StartCommand, Typed, LocalSet
    <3>2. CASE j # "bundle"
      BY <1>3, <2>1, <3>0, <3>2 DEF StartCommand, Typed, LocalSet
    <3> QED BY <3>1, <3>2
  <2>3. OnDisk(l, label, dir')
    BY <2>1, <2>2 DEF OnDisk, NoLocals
  <2> HIDE DEF l, label
  <2> QED BY <2>1, <2>2, <2>3, StepWhole DEF Inspecting, Reading
<1>4. ASSUME NEW p \in Processes, FinishInspection(p) /\ ~Return(p) PROVE WholeInv'
  BY <1>4, IdleWhole DEF FinishInspection, Inspecting, Reading
<1>5. ASSUME NEW p \in Processes,
             \/ (ReadArtifact(p) \/ CopyExecutable(p) \/ ReadLogs(p)) /\ ~Return(p)
             \/ PlanBundle(p)
      PROVE  WholeInv'
  <2>1. /\ pc'[p] \notin Inspecting /\ dir' = dir
        /\ pc' = [pc EXCEPT ![p] = pc'[p]] /\ proc' = [proc EXCEPT ![p] = proc'[p]]
    BY <1>5 DEF ReadArtifact, PlanBundle, CopyExecutable, ReadLogs, Typed, Inspecting, Reading
  <2> QED BY <2>1, IdleWhole
<1>6. ASSUME NEW p \in Processes,
             \/ MakeBundle(p) \/ Crash(p) \/ ReportFailure(p)
             \/ (FinishInspection(p) \/ ReadArtifact(p) \/ CopyExecutable(p) \/ ReadLogs(p)) /\ Return(p)
      PROVE  WholeInv'
  BY <1>2, <1>6 DEF MakeBundle, Crash, ReportFailure, FinishInspection, ReadArtifact, CopyExecutable, ReadLogs
<1> QED BY <1>1, <1>3, <1>4, <1>5, <1>6, ReadsWhole, ProgramWhole, ArtifactWhole DEF Next, Step

\* When inspections of the transaction are kept apart, one that ends has
\* replaced all that a bundle takes from the directory, whatever earlier ones
\* left there when they failed or died.
THEOREM EndedIsWhole ==
    ASSUME Apart = TRUE
    PROVE  Spec => FinishedCaptureIsWhole
<1>1. Init => WholeInv
  BY DEF Init, WholeInv, OneInspector, OnDisk, Inspecting, Reading
<1>2. Typed /\ WholeInv /\ [Next]_vars =>
        [\A p \in Processes : FinishInspection(p) =>
           /\ \A f \in Artifacts : dir[f] = Produced(p, f)
           /\ \A x \in Programs : proc[p].recorded[x] # Null => dir[x] = proc[p].recorded[x]]_vars
  <2> SUFFICES ASSUME Typed, WholeInv, NEW p \in Processes, FinishInspection(p)
               PROVE  /\ \A f \in Artifacts : dir[f] = Produced(p, f)
                      /\ \A x \in Programs : proc[p].recorded[x] # Null => dir[x] = proc[p].recorded[x]
    OBVIOUS
  <2>1. OnDisk(proc[p], "write", dir) /\ proc[p].todo = {} /\ proc[p].open = {}
    BY DEF FinishInspection, WholeInv
  <2>2. \A f \in Artifacts : dir[f] = Produced(p, f)
    BY <2>1 DEF OnDisk, Produced, Artifacts, Immutable
  <2>3. \A x \in Programs : proc[p].recorded[x] # Null => dir[x] = proc[p].recorded[x]
    BY <2>1 DEF OnDisk, Inspecting
  <2> QED BY <2>2, <2>3
<1> QED BY <1>1, <1>2, InitTyped, NextTyped, NextWhole, PTL DEF Spec, FinishedCaptureIsWhole
-----------------------------------------------------------------------------
(* The program files that programs.json names, whoever else writes there.  *)

Covers(programs, d) == \A x \in NamedIn(programs) : d[x] # Absent

\* What a process has recorded, read or planned to copy is there.
NamedOK(l, label, d) ==
    /\ label \in Inspecting => Covers(l.recorded, d)
    /\ label = "read" /\ "programs.json" \notin l.todo => Covers(l.got["programs.json"], d)
    /\ label = "copy" => \A x \in l.todo : d[x] # Absent

NamedInv ==
    /\ Parses("programs.json") => Covers(dir["programs.json"], dir)
    /\ \A p \in Processes : NamedOK(proc[p], pc[p], dir)

\* No file is ever deleted, and programs.json is written by inspections only.
LEMMA StepNamed ==
    ASSUME Typed, NamedInv, NEW p \in Processes, NEW l, NEW label,
           pc' = [pc EXCEPT ![p] = label], proc' = [proc EXCEPT ![p] = l],
           \A x \in Programs : dir[x] # Absent => dir'[x] # Absent,
           dir'["programs.json"] \in {Torn, dir["programs.json"]} \/ Covers(dir'["programs.json"], dir'),
           NamedOK(l, label, dir')
    PROVE  NamedInv'
<1>1. \A programs : Covers(programs, dir) => Covers(programs, dir')
  BY DEF Covers, NamedIn
<1>2. Parses("programs.json")' => Covers(dir'["programs.json"], dir')
  BY <1>1 DEF NamedInv, Parses
<1>3. ASSUME NEW q \in Processes PROVE NamedOK(proc'[q], pc'[q], dir')
  <2>1. CASE q = p
    BY <2>1 DEF Typed
  <2>2. CASE q # p
    <3>1. pc'[q] = pc[q] /\ proc'[q] = proc[q] /\ NamedOK(proc[q], pc[q], dir)
      BY <2>2 DEF Typed, NamedInv
    <3>2. pc[q] = "copy" => proc[q].todo \subseteq Programs
      BY DEF Typed, LocalOK
    <3> QED BY <1>1, <3>1, <3>2 DEF NamedOK
  <2> QED BY <2>1, <2>2
<1> QED BY <1>2, <1>3 DEF NamedInv

LEMMA QuietNamed ==
    ASSUME Typed, NamedInv, NEW p \in Processes, NEW l, NEW label,
           pc' = [pc EXCEPT ![p] = label], proc' = [proc EXCEPT ![p] = l],
           dir' = dir, NamedOK(l, label, dir)
    PROVE  NamedInv'
BY StepNamed

LEMMA ReadsNamed ==
    ASSUME Typed, NamedInv, NEW p \in Processes,
           \/ Answer(p) \/ AttemptTimesOut(p) \/ NextAttempt(p) \/ TransactionArrives(p)
           \/ AccountsArrive(p) \/ LookupsArrive(p) \/ BlockSettled(p) \/ GiveUp(p)
    PROVE  NamedInv'
<1>1. Covers(proc[p].recorded, dir)
  BY ReadFacts DEF NamedInv, NamedOK, Inspecting
<1>2. NamedOK(proc'[p], pc'[p], dir)
  BY <1>1, ReadFacts DEF NamedOK
<1> QED BY <1>2, ReadFacts, QuietNamed

\* A program is recorded as soon as its file has been opened.
LEMMA ProgramNamed ==
    ASSUME Typed, NamedInv, NEW p \in Processes, ProgramArrives(p) \/ WriteExecutable(p)
    PROVE  NamedInv'
<1> DEFINE x == proc[p].program
           l == proc'[p]
           label == pc'[p]
<1>0. /\ proc[p] \in LocalSet /\ x \in Programs /\ DOMAIN dir = Paths /\ x \in Paths
      /\ DOMAIN proc[p].recorded = Programs
      /\ Covers(proc[p].recorded, dir)
      /\ "programs.json" \in Paths /\ x # "programs.json"
  <2>1. pc[p] \in {"program", "executable"}
    BY DEF ProgramArrives, WriteExecutable
  <2>2. Covers(proc[p].recorded, dir)
    BY <2>1 DEF NamedInv, NamedOK, Inspecting, Reading
  <2>3. x \in Programs
    BY <2>1 DEF Typed, LocalOK
  <2> QED BY <2>2, <2>3, CaptureAssumption
          DEF Typed, LocalSet, ProgramsFound, Directories, Paths, Artifacts
<1>1. ASSUME NEW r, NextProgram(p, r), Covers(r, dir'),
             \A y \in Programs : dir[y] # Absent => dir'[y] # Absent,
             dir'["programs.json"] = dir["programs.json"]
      PROVE  NamedInv'
  <2>1. /\ pc' = [pc EXCEPT ![p] = label] /\ proc' = [proc EXCEPT ![p] = l]
        /\ l.recorded = r /\ label \in {"program", "lookups", "block"}
    BY <1>0, <1>1 DEF NextProgram, NextRead, Typed, LocalSet
  <2>2. NamedOK(l, label, dir')
    BY <1>1, <2>1 DEF NamedOK
  <2> HIDE DEF l, label
  <2> QED BY <1>1, <2>1, <2>2, StepNamed
<1>2. CASE ProgramArrives(p) /\ HasBytes(p)
  <2> DEFINE r == [proc[p].recorded EXCEPT ![x] =
                     IF Result(p).executable THEN Result(p).at ELSE Null]
  <2>1. /\ pc' = [pc EXCEPT ![p] = "executable"] /\ proc' = [proc EXCEPT ![p].recorded = r]
        /\ dir' = [dir EXCEPT ![x] = Torn]
    BY <1>2 DEF ProgramArrives
  <2>2. \A y \in Programs \ {x} : r[y] = proc[p].recorded[y]
    BY <1>0
  <2> HIDE DEF r
  <2>3. proc' = [proc EXCEPT ![p] = l] /\ l.recorded = r
    BY <1>0, <2>1 DEF Typed, LocalSet
  <2>4. /\ dir'[x] = Torn /\ Torn # Absent /\ \A y \in Paths \ {x} : dir'[y] = dir[y]
        /\ Programs \subseteq Paths
    BY <1>0, <2>1, CaptureAssumption DEF Paths
  <2>5. Covers(r, dir')
    BY <1>0, <2>2, <2>4 DEF Covers, NamedIn
  <2>6. NamedOK(l, "executable", dir')
    BY <2>3, <2>5 DEF NamedOK
  <2> HIDE DEF l, label
  <2> QED BY <1>0, <2>1, <2>3, <2>4, <2>6, StepNamed
<1>3. CASE ProgramArrives(p) /\ ~HasBytes(p)
  <2> DEFINE r == [proc[p].recorded EXCEPT ![x] =
                     IF Result(p).executable THEN Result(p).at ELSE Null]
  <2>1. NextProgram(p, r) /\ dir' = dir /\ r[x] = Null
    BY <1>0, <1>3 DEF ProgramArrives, HasBytes
  <2>2. Covers(r, dir')
    BY <1>0, <2>1 DEF Covers, NamedIn
  <2> HIDE DEF r
  <2> QED BY <1>1, <2>1, <2>2
<1>4. CASE WriteExecutable(p)
  <2>1. /\ NextProgram(p, proc[p].recorded)
        /\ dir' = [dir EXCEPT ![x] = proc[p].recorded[x]]
        /\ proc[p].recorded[x] \in After
    BY <1>4 DEF WriteExecutable, Typed, LocalOK
  <2>2. proc[p].recorded[x] # Absent
    BY <2>1, SlotFacts, CaptureAssumption
  <2>3. \A y \in Paths : dir[y] # Absent => dir'[y] # Absent
    BY <1>0, <2>1, <2>2
  <2>4. Covers(proc[p].recorded, dir') /\ dir'["programs.json"] = dir["programs.json"]
    BY <1>0, <2>1, <2>3 DEF Covers, NamedIn, Paths
  <2> QED BY <1>1, <2>1, <2>3, <2>4 DEF Paths
<1> QED BY <1>2, <1>3, <1>4

\* programs.json is written by a process whose records are all there.
LEMMA ArtifactNamed ==
    ASSUME Typed, NamedInv, NEW p \in Processes, OpenArtifact(p) \/ WriteArtifact(p)
    PROVE  NamedInv'
<1> DEFINE l == proc'[p]
<1>0. /\ pc[p] = "write" /\ pc' = [pc EXCEPT ![p] = "write"]
      /\ proc[p] \in LocalSet /\ DOMAIN dir = Paths /\ Artifacts \subseteq Paths /\ Programs \subseteq Paths
      /\ proc[p].todo \subseteq Artifacts /\ proc[p].open \subseteq Artifacts
      /\ Covers(proc[p].recorded, dir)
  BY DEF OpenArtifact, WriteArtifact, NamedInv, NamedOK, Inspecting, Typed, LocalOK, LocalSet,
         Directories, Paths
<1>1. PICK f \in Artifacts : \E v \in {Torn, Produced(p, f)} : dir' = [dir EXCEPT ![f] = v]
  BY <1>0 DEF OpenArtifact, WriteArtifact
<1>2. proc' = [proc EXCEPT ![p] = l] /\ l.recorded = proc[p].recorded
  <2>1. CASE OpenArtifact(p)
    <3> PICK g : proc' = [proc EXCEPT ![p].todo = @ \ {g}, ![p].open = @ \cup {g}]
      BY <2>1 DEF OpenArtifact
    <3> QED BY <1>0 DEF Typed, LocalSet
  <2>2. CASE WriteArtifact(p)
    <3> PICK g : proc' = [proc EXCEPT ![p].open = @ \ {g}]
      BY <2>2 DEF WriteArtifact
    <3> QED BY <1>0 DEF Typed, LocalSet
  <2> QED BY <2>1, <2>2
<1>3. \A x \in Programs : dir'[x] = dir[x]
  BY <1>0, <1>1, CaptureAssumption
<1>4. Covers(proc[p].recorded, dir')
  BY <1>0, <1>3 DEF Covers, NamedIn
<1>5. dir'["programs.json"] \in {Torn, dir["programs.json"], proc[p].recorded}
  <2>1. CASE f = "programs.json"
    BY <1>0, <1>1, <2>1 DEF Produced, Immutable
  <2>2. CASE f # "programs.json"
    BY <1>0, <1>1, <2>2 DEF Artifacts
  <2> QED BY <2>1, <2>2
<1>6. NamedOK(l, "write", dir')
  BY <1>2, <1>4 DEF NamedOK
<1> HIDE DEF l
<1> QED BY <1>0, <1>2, <1>3, <1>4, <1>5, <1>6, StepNamed

\* createBundle reads programs.json, and then the files it names.
LEMMA BundleNamed ==
    ASSUME Typed, NamedInv, NEW p \in Processes,
           \/ (ReadArtifact(p) \/ CopyExecutable(p) \/ ReadLogs(p)) /\ ~Return(p)
           \/ PlanBundle(p)
    PROVE  NamedInv'
<1> DEFINE l == proc'[p]
           label == pc'[p]
<1>0. /\ proc[p] \in LocalSet /\ NamedOK(proc[p], pc[p], dir)
      /\ proc[p].got \in Directories /\ DOMAIN proc[p].got = Paths
      /\ Artifacts \subseteq Paths
  BY DEF Typed, NamedInv, LocalSet, Directories, Paths
<1>1. CASE ReadArtifact(p) /\ ~Return(p)
  <2> PICK f \in proc[p].todo :
        /\ Parses(f) /\ pc[p] = "read" /\ UNCHANGED <<calls, pc, dir>>
        /\ proc' = [proc EXCEPT ![p].todo = @ \ {f}, ![p].got[f] = dir[f]]
    BY <1>1 DEF ReadArtifact
  <2>1. /\ proc' = [proc EXCEPT ![p] = l] /\ l.todo = proc[p].todo \ {f}
        /\ l.got = [proc[p].got EXCEPT ![f] = dir[f]]
    BY <1>0 DEF Typed, LocalSet
  <2>2. "programs.json" \in Paths
    BY <1>0 DEF Artifacts
  <2>3. "programs.json" \notin l.todo => Covers(l.got["programs.json"], dir)
    <3>1. CASE f = "programs.json"
      BY <1>0, <2>1, <2>2, <3>1 DEF NamedInv
    <3>2. CASE f # "programs.json"
      BY <1>0, <2>1, <2>2, <3>2 DEF NamedOK
    <3> QED BY <3>1, <3>2
  <2>4. NamedOK(l, "read", dir)
    BY <2>3 DEF NamedOK, Inspecting, Reading
  <2>5. pc' = [pc EXCEPT ![p] = "read"]
    BY DEF Typed
  <2> HIDE DEF l
  <2> QED BY <2>1, <2>4, <2>5, QuietNamed
<1>2. CASE PlanBundle(p)
  <2> DEFINE named == {x \in Programs : proc[p].got["programs.json"][x] # Null}
  <2>1. /\ proc[p].todo = {} /\ pc[p] = "read" /\ pc' = [pc EXCEPT ![p] = "copy"] /\ dir' = dir
        /\ proc' = [proc EXCEPT ![p].todo = named]
    BY <1>2 DEF PlanBundle
  <2>2. \A x \in named : dir[x] # Absent
    BY <1>0, <2>1 DEF NamedOK, Covers, NamedIn
  <2> HIDE DEF named
  <2>3. proc' = [proc EXCEPT ![p] = l] /\ l.todo = named
    BY <1>0, <2>1 DEF Typed, LocalSet
  <2>4. NamedOK(l, "copy", dir)
    BY <2>2, <2>3 DEF NamedOK, Inspecting, Reading
  <2> HIDE DEF l
  <2> QED BY <2>1, <2>3, <2>4, QuietNamed
<1>3. CASE CopyExecutable(p) /\ ~Return(p)
  <2> PICK f \in proc[p].todo :
        /\ pc[p] = "copy" /\ UNCHANGED <<calls, pc, dir>>
        /\ proc' = [proc EXCEPT ![p].todo = @ \ {f}, ![p].got[f] = dir[f]]
    BY <1>3 DEF CopyExecutable
  <2>1. proc' = [proc EXCEPT ![p] = l] /\ l.todo = proc[p].todo \ {f}
    BY <1>0 DEF Typed, LocalSet
  <2>2. NamedOK(l, "copy", dir)
    BY <1>0, <2>1 DEF NamedOK, Inspecting, Reading
  <2>3. pc' = [pc EXCEPT ![p] = "copy"]
    BY DEF Typed
  <2> HIDE DEF l
  <2> QED BY <2>1, <2>2, <2>3, QuietNamed
<1>4. CASE ReadLogs(p) /\ ~Return(p)
  <2>1. pc' = [pc EXCEPT ![p] = "bundle"] /\ proc' = [proc EXCEPT ![p] = l] /\ dir' = dir
    BY <1>4 DEF ReadLogs, Typed
  <2>2. NamedOK(l, "bundle", dir)
    BY DEF NamedOK, Inspecting, Reading
  <2> QED BY <2>1, <2>2, QuietNamed
<1> QED BY <1>1, <1>2, <1>3, <1>4

LEMMA NextNamed == Typed /\ NamedInv /\ [Next]_vars => NamedInv'
<1> SUFFICES ASSUME Typed, NamedInv, [Next]_vars PROVE NamedInv'
  OBVIOUS
<1>1. CASE UNCHANGED vars \/ Tick
  BY <1>1 DEF vars, Tick, NamedInv, Parses
<1>2. ASSUME NEW p \in Processes, Return(p), dir' = dir PROVE NamedInv'
  <2>1. NamedOK(NoLocals, "idle", dir)
    BY DEF NamedOK, Inspecting, Reading
  <2> QED BY <1>2, <2>1, QuietNamed
<1>3. ASSUME NEW p \in Processes, NEW j \in Jobs, StartCommand(p, j) PROVE NamedInv'
  <2> DEFINE l == proc'[p]
  <2>0. proc[p] = NoLocals /\ NoLocals \in LocalSet /\ dir' = dir
    BY <1>3, NoLocalsOK DEF StartCommand, Typed, LocalOK
  <2>1. CASE j = "bundle"
    <3>1. /\ pc' = [pc EXCEPT ![p] = "read"] /\ proc' = [proc EXCEPT ![p] = l] /\ l.todo = Parsed
      BY <1>3, <2>0, <2>1 DEF StartCommand, Typed, LocalSet
    <3>2. NamedOK(l, "read", dir)
      BY <3>1 DEF NamedOK, Inspecting, Reading, Parsed, Artifacts
    <3> QED BY <2>0, <3>1, <3>2, QuietNamed
  <2>2. CASE j # "bundle"
    <3>1. /\ pc' = [pc EXCEPT ![p] = "transaction"] /\ proc' = [proc EXCEPT ![p] = l]
          /\ l.recorded = NoLocals.recorded
      BY <1>3, <2>0, <2>2 DEF StartCommand, Typed, LocalSet
    <3>2. NamedOK(l, "transaction", dir)
      BY <3>1 DEF NamedOK, NoLocals, Covers, NamedIn
    <3> QED BY <2>0, <3>1, <3>2, QuietNamed
  <2> QED BY <2>1, <2>2
<1>4. ASSUME NEW p \in Processes, FinishInspection(p) /\ ~Return(p) PROVE NamedInv'
  <2> DEFINE l == [NoLocals EXCEPT !.job = "capture", !.todo = Parsed]
  <2>1. pc' = [pc EXCEPT ![p] = "read"] /\ proc' = [proc EXCEPT ![p] = l] /\ dir' = dir
    BY <1>4 DEF FinishInspection
  <2>2. l.todo = Parsed
    BY DEF NoLocals
  <2>3. NamedOK(l, "read", dir)
    BY <2>2 DEF NamedOK, Inspecting, Reading, Parsed, Artifacts
  <2> HIDE DEF l
  <2> QED BY <2>1, <2>3, QuietNamed
<1>5. ASSUME NEW p \in Processes,
             \/ MakeBundle(p) \/ Crash(p) \/ ReportFailure(p)
             \/ (FinishInspection(p) \/ ReadArtifact(p) \/ CopyExecutable(p) \/ ReadLogs(p)) /\ Return(p)
      PROVE  NamedInv'
  BY <1>2, <1>5 DEF MakeBundle, Crash, ReportFailure, FinishInspection, ReadArtifact, CopyExecutable, ReadLogs
<1> QED BY <1>1, <1>3, <1>4, <1>5, ReadsNamed, ProgramNamed, ArtifactNamed, BundleNamed DEF Next, Step

\* programs.json never names a program whose file is missing, however many
\* inspections write to the directory at once and wherever they die, so a
\* bundle command never misses one that it has read of.
THEOREM NamedAreThere == Spec => []NamedProgramsAreThere
<1>1. Init => NamedInv
  BY DEF Init, NamedInv, NamedOK, Parses, Inspecting, Reading, Artifacts
<1>2. NamedInv => NamedProgramsAreThere
  BY DEF NamedInv, NamedOK, NamedProgramsAreThere, Covers
<1> QED BY <1>1, <1>2, InitTyped, NextTyped, NextNamed, PTL DEF Spec
-----------------------------------------------------------------------------
(* The slot of a capture, when no account is listed twice.                 *)

Distinct ==
    \A i, j \in DOMAIN AccountKeys : AccountKeys[i] = AccountKeys[j] => i = j

\* An account is asked for once, and no group is empty.
LEMMA GroupsPartition ==
    ASSUME Distinct
    PROVE  /\ \A i \in 1..Len(Groups) : \E k \in Keys : InGroup(k, i)
           /\ \A k \in Keys : \A i, j \in 1..Len(Groups) : InGroup(k, i) /\ InGroup(k, j) => i = j
<1> DEFINE n == Len(AccountKeys)
           s == GroupSize
           Q == (n + s - 1) \div s
           low(i) == (i - 1) * s + 1
           high(i) == IF i * s < n THEN i * s ELSE n
<1>1. n \in Nat \ {0} /\ s \in Nat \ {0} /\ AccountKeys \in Seq(Keys) /\ DOMAIN AccountKeys = 1..n
  BY CaptureAssumption
<1>2. Len(Groups) = Q /\ Q \in Nat /\ Q * s <= n + s - 1
  BY <1>1 DEF Groups, Chunks
<1> HIDE DEF Q
<1>3. ASSUME NEW i \in 1..Q
      PROVE  /\ low(i) \in 1..n /\ high(i) \in 1..n /\ low(i) <= high(i) /\ high(i) <= i * s
             /\ Groups[i] = SubSeq(AccountKeys, low(i), high(i))
  <2>1. i * s \in Nat /\ (i - 1) * s \in Nat /\ i * s = (i - 1) * s + s
    BY <1>1, <1>2
  <2>2. i * s <= Q * s
    BY <1>1, <1>2
  <2>3. Q * s \in Nat
    BY <1>1, <1>2
  <2>4. low(i) \in 1..n /\ high(i) \in 1..n /\ low(i) <= high(i) /\ high(i) <= i * s
    BY <1>1, <1>2, <2>1, <2>2, <2>3
  <2>5. Groups[i] = SubSeq(AccountKeys, low(i), high(i))
    BY <1>1, <1>2 DEF Groups, Chunks, Q
  <2> QED BY <2>4, <2>5
<1>4. ASSUME NEW i \in 1..Q, NEW k, InGroup(k, i)
      PROVE  \E m \in 1..n : AccountKeys[m] = k /\ low(i) <= m /\ m <= i * s
  <2> PICK j \in DOMAIN Groups[i] : Groups[i][j] = k
    BY <1>4 DEF InGroup
  <2> DEFINE a == low(i)
             b == high(i)
  <2>1. a \in 1..n /\ b \in 1..n /\ a <= b /\ b <= i * s /\ Groups[i] = SubSeq(AccountKeys, a, b)
    BY <1>3
  <2> HIDE DEF a, b
  <2>2. j \in 1..(b - a + 1) /\ Groups[i][j] = AccountKeys[a + j - 1]
    BY <1>1, <2>1
  <2>3. a + j - 1 \in 1..n /\ a <= a + j - 1 /\ a + j - 1 <= i * s
    BY <1>1, <1>2, <2>1, <2>2
  <2> QED BY <2>2, <2>3 DEF a
<1>5. ASSUME NEW i \in 1..Q PROVE \E k \in Keys : InGroup(k, i)
  <2> DEFINE a == low(i)
             b == high(i)
  <2>1. a \in 1..n /\ b \in 1..n /\ a <= b /\ Groups[i] = SubSeq(AccountKeys, a, b)
    BY <1>3
  <2> HIDE DEF a, b
  <2>2. 1 \in DOMAIN Groups[i] /\ Groups[i][1] = AccountKeys[a]
    BY <1>1, <2>1
  <2>3. InGroup(AccountKeys[a], i) /\ AccountKeys[a] \in Keys
    BY <1>1, <2>1, <2>2 DEF InGroup, Keys
  <2> QED BY <2>3
<1>6. ASSUME NEW k \in Keys, NEW i \in 1..Q, NEW j \in 1..Q, InGroup(k, i), InGroup(k, j), i < j
      PROVE  FALSE
  <2> PICK m \in 1..n : AccountKeys[m] = k /\ m <= i * s
    BY <1>4, <1>6
  <2> PICK m2 \in 1..n : AccountKeys[m2] = k /\ low(j) <= m2
    BY <1>4, <1>6
  <2>1. m = m2
    BY <1>1 DEF Distinct
  <2>2. i * s <= (j - 1) * s
    BY <1>1, <1>2, <1>6
  <2>3. i * s \in Nat /\ (j - 1) * s \in Nat
    BY <1>1, <1>2
  <2> QED BY <2>1, <2>2, <2>3
<1>7. \A k \in Keys : \A i, j \in 1..Q : InGroup(k, i) /\ InGroup(k, j) => i = j
  <2> SUFFICES ASSUME NEW k \in Keys, NEW i \in 1..Q, NEW j \in 1..Q, InGroup(k, i), InGroup(k, j)
               PROVE  i = j
    OBVIOUS
  <2>1. ~(i < j) /\ ~(j < i)
    BY <1>6
  <2> QED BY <1>2, <2>1
<1> QED BY <1>2, <1>5, <1>7
Latest(a) ==
    /\ \A k \in Keys : a.observed[k] <= a.capturedAt
    /\ \E k \in Keys : a.observed[k] = a.capturedAt

\* The same of the groups that have arrived when the next one is g.
LatestUpTo(a, g) ==
    /\ g = 1 => a = NoAccounts
    /\ \A i \in 1..(g - 1), k \in Keys : InGroup(k, i) => a.observed[k] <= a.capturedAt
    /\ g > 1 => \E i \in 1..(g - 1), k \in Keys : InGroup(k, i) /\ a.observed[k] = a.capturedAt

LatestLocals(l, label) ==
    /\ label = "transaction" => l.accounts = NoAccounts
    /\ label = "accounts" => LatestUpTo(l.accounts, l.group)
    /\ label \in {"program", "executable", "lookups", "block", "write"} => Latest(l.accounts)
    /\ label = "read" /\ "accounts.json" \notin l.todo => Latest(l.got["accounts.json"])
    /\ label \in {"copy", "bundle"} => Latest(l.got["accounts.json"])

LatestInv ==
    /\ \A p \in Processes : LatestLocals(proc[p], pc[p])
    /\ dir["accounts.json"] \in {Absent, Torn} \/ Latest(dir["accounts.json"])
    /\ CapturedSlotIsLatest

\* A step of p, for what it writes.
LEMMA StepLatest ==
    ASSUME Typed, LatestInv, NEW p \in Processes, NEW l, NEW label,
           pc' = [pc EXCEPT ![p] = label], proc' = [proc EXCEPT ![p] = l],
           LatestLocals(l, label),
           \/ dir'["accounts.json"] \in {Absent, Torn, dir["accounts.json"]}
           \/ Latest(dir'["accounts.json"]),
           bundle' = bundle \/ Latest(bundle'["accounts.json"])
    PROVE  LatestInv'
<1>1. \A q \in Processes : LatestLocals(proc'[q], pc'[q])
  BY DEF LatestInv, Typed
<1>2. CapturedSlotIsLatest'
  BY DEF LatestInv, CapturedSlotIsLatest, Latest
<1>3. dir'["accounts.json"] \in {Absent, Torn} \/ Latest(dir'["accounts.json"])
  BY DEF LatestInv
<1> QED BY <1>1, <1>2, <1>3 DEF LatestInv

\* The step of getAccountsAtSlot: the latest observation of the groups so far
\* is not asked for again.
LEMMA GroupLatest ==
    ASSUME Distinct, NEW a \in AccountRecords, NEW g \in 1..Len(Groups), LatestUpTo(a, g),
           \A i \in 1..(g - 1), k \in Keys : InGroup(k, i) => a.observed[k] \in After,
           NEW slot \in After
    PROVE  LET b == [observed |-> [k \in Keys |-> IF InGroup(k, g) THEN slot ELSE a.observed[k]],
                     capturedAt |-> LatestSlot(a.capturedAt, slot)]
           IN  LatestUpTo(b, g + 1)
<1> DEFINE b == [observed |-> [k \in Keys |-> IF InGroup(k, g) THEN slot ELSE a.observed[k]],
                 capturedAt |-> LatestSlot(a.capturedAt, slot)]
<1>0. /\ g \in Nat /\ g >= 1 /\ Len(Groups) \in Nat /\ g <= Len(Groups) /\ g + 1 - 1 = g /\ g + 1 > 1
      /\ slot \in Nat /\ slot >= 1 /\ a.capturedAt \in Nat
  BY GroupsCover, SlotFacts DEF AccountRecords, Slots, After
<1>1. /\ b.capturedAt \in {a.capturedAt, slot} /\ slot <= b.capturedAt /\ a.capturedAt <= b.capturedAt
      /\ \A k \in Keys : b.observed[k] = IF InGroup(k, g) THEN slot ELSE a.observed[k]
  BY <1>0 DEF LatestSlot
<1> HIDE DEF b
<1>2. ASSUME NEW i \in 1..g, NEW k \in Keys, InGroup(k, i)
      PROVE  b.observed[k] <= b.capturedAt
  <2>1. CASE InGroup(k, g)
    BY <1>1, <2>1
  <2>2. CASE ~InGroup(k, g)
    <3>1. i \in 1..(g - 1)
      BY <1>0, <1>2, <2>2
    <3>2. a.observed[k] <= a.capturedAt /\ a.observed[k] \in Nat
      BY <1>2, <3>1, SlotFacts DEF LatestUpTo
    <3> QED BY <1>0, <1>1, <2>2, <3>2
  <2> QED BY <2>1, <2>2
<1>3. \E i \in 1..g, k \in Keys : InGroup(k, i) /\ b.observed[k] = b.capturedAt
  <2>1. CASE b.capturedAt = slot
    <3>1. PICK k \in Keys : InGroup(k, g)
      BY GroupsPartition
    <3> QED BY <1>0, <1>1, <2>1, <3>1
  <2>2. CASE b.capturedAt # slot
    <3>1. b.capturedAt = a.capturedAt /\ a.capturedAt # 0
      BY <1>0, <1>1, <2>2
    <3>2. g > 1
      BY <1>0, <3>1 DEF LatestUpTo, NoAccounts
    <3>3. PICK i \in 1..(g - 1), k \in Keys : InGroup(k, i) /\ a.observed[k] = a.capturedAt
      BY <3>2 DEF LatestUpTo
    <3>4. i \in 1..Len(Groups) /\ i \in 1..g /\ i # g
      BY <1>0
    <3>5. ~InGroup(k, g)
      BY <3>3, <3>4, GroupsPartition
    <3> QED BY <1>1, <3>1, <3>3, <3>4, <3>5
  <2> QED BY <2>1, <2>2
<1> HIDE DEF LatestUpTo
<1>4. LatestUpTo(b, g + 1)
  BY <1>0, <1>2, <1>3 DEF LatestUpTo
<1> QED BY <1>4 DEF b

LEMMA AccountsLatest ==
    ASSUME Distinct, Typed, LatestInv, NEW p \in Processes, AccountsArrive(p)
    PROVE  LatestInv'
<1> DEFINE slot == Result(p)
           g == proc[p].group
           a == proc[p].accounts
           answer == [observed |-> [k \in Keys |-> IF InGroup(k, g) THEN slot ELSE a.observed[k]],
                      capturedAt |-> LatestSlot(a.capturedAt, slot)]
<1>1. /\ proc[p] \in LocalSet /\ slot \in After /\ g \in 1..Len(Groups) /\ a \in AccountRecords
      /\ \A i \in 1..(g - 1), k \in Keys : InGroup(k, i) => a.observed[k] \in After
      /\ LatestUpTo(a, g)
  BY DEF AccountsArrive, Resolved, Result, AnswerOK, LocalOK, LocalSet, Typed, LatestInv, LatestLocals
<1>2. LatestUpTo(answer, g + 1)
  BY <1>1, GroupLatest
<1>3. dir' = dir /\ bundle' = bundle
  BY DEF AccountsArrive
<1>4. CASE g < Len(Groups)
  <2>1. /\ proc' = [proc EXCEPT ![p] = [proc[p] EXCEPT !.accounts = answer, !.group = g + 1]]
        /\ pc' = [pc EXCEPT ![p] = "accounts"]
    BY <1>1, <1>4 DEF AccountsArrive, Typed, LocalSet
  <2> HIDE DEF answer, g
  <2> DEFINE l == [proc[p] EXCEPT !.accounts = answer, !.group = g + 1]
  <2>2. l.accounts = answer /\ l.group = g + 1
    BY <1>1 DEF LocalSet
  <2> HIDE DEF l
  <2>3. LatestLocals(l, "accounts")
    BY <1>2, <2>2 DEF LatestLocals
  <2> QED BY <1>3, <2>1, <2>3, StepLatest DEF l
<1>5. CASE ~(g < Len(Groups))
  <2>1. /\ proc' = [proc EXCEPT ![p] = [proc[p] EXCEPT !.accounts = answer, !.todo = Programs,
                                                     !.program = Pick(Programs)]]
        /\ pc' = [pc EXCEPT ![p] = NextRead(Programs)]
    BY <1>1, <1>5 DEF AccountsArrive, Typed, LocalSet
  <2>2. g = Len(Groups) /\ g + 1 - 1 = g /\ g + 1 > 1
    BY <1>1, <1>5, GroupsCover
  <2> HIDE DEF answer, g
  <2> DEFINE l == [proc[p] EXCEPT !.accounts = answer, !.todo = Programs, !.program = Pick(Programs)]
  <2>3. l.accounts = answer
    BY <1>1 DEF LocalSet
  <2> HIDE DEF l
  <2>4. Latest(answer)
    BY <1>2, <2>2, GroupsCover DEF LatestUpTo, Latest
  <2>5. LatestLocals(l, NextRead(Programs))
    BY <2>3, <2>4 DEF LatestLocals, NextRead
  <2> QED BY <1>3, <2>1, <2>5, StepLatest DEF l
<1> QED BY <1>4, <1>5
\* Where an inspection is that has all the accounts.
Late == {"program", "executable", "lookups", "block", "write"}

LEMMA ReturnLatest ==
    ASSUME Typed, LatestInv, NEW p \in Processes, Return(p), dir' = dir,
           bundle' = bundle \/ Latest(bundle'["accounts.json"])
    PROVE  LatestInv'
<1>1. LatestLocals(NoLocals, "idle")
  BY DEF LatestLocals
<1> QED BY <1>1, StepLatest

LEMMA ReadsLatest ==
    ASSUME Typed, LatestInv, NEW p \in Processes,
           \/ Answer(p) \/ AttemptTimesOut(p) \/ NextAttempt(p) \/ LookupsArrive(p)
           \/ BlockSettled(p) \/ GiveUp(p)
    PROVE  LatestInv'
<1> DEFINE l == proc'[p]
           label == pc'[p]
<1>0. proc[p] \in LocalSet
  BY DEF Typed
<1>1. /\ pc' = [pc EXCEPT ![p] = label] /\ proc' = [proc EXCEPT ![p] = l]
      /\ dir' = dir /\ bundle' = bundle
  BY DEF Answer, AttemptTimesOut, NextAttempt, LookupsArrive, BlockSettled, GiveUp, Typed
<1>2. /\ l.accounts = proc[p].accounts
      /\ \/ label = pc[p] /\ l.group = proc[p].group /\ pc[p] \notin {"read", "copy", "bundle"}
         \/ label \in Late /\ pc[p] \in Late
         \/ label = "gaveUp"
  <2>1. CASE Answer(p) \/ AttemptTimesOut(p) \/ NextAttempt(p)
    <3>1. pc[p] \in Reading /\ label = pc[p]
      BY <2>1 DEF Answer, Respond, AttemptTimesOut, TimeOut, NextAttempt, Retry, Typed
    <3>2. l.accounts = proc[p].accounts /\ l.group = proc[p].group
      BY <2>1, OnlyNotes
    <3> QED BY <3>1, <3>2 DEF Reading
  <2>2. CASE LookupsArrive(p) \/ GiveUp(p)
    BY <1>0, <2>2 DEF LookupsArrive, GiveUp, Typed, LocalSet, Late
  <2>3. CASE BlockSettled(p)
    BY <1>0, <2>3 DEF BlockSettled, Typed, LocalSet, Late
  <2> QED BY <2>1, <2>2, <2>3
<1> HIDE DEF l, label
<1>3. LatestLocals(proc[p], pc[p])
  BY DEF LatestInv
<1>4. LatestLocals(l, label)
  BY <1>2, <1>3 DEF LatestLocals, Late
<1> QED BY <1>1, <1>4, StepLatest

LEMMA TransactionLatest ==
    ASSUME Typed, LatestInv, NEW p \in Processes, TransactionArrives(p)
    PROVE  LatestInv'
<1> DEFINE l == proc'[p]
           label == pc'[p]
<1>0. proc[p] \in LocalSet /\ LatestLocals(proc[p], pc[p]) /\ pc[p] = "transaction"
  BY DEF Typed, LatestInv, TransactionArrives
<1>1. /\ pc' = [pc EXCEPT ![p] = label] /\ proc' = [proc EXCEPT ![p] = l]
      /\ dir' = dir /\ bundle' = bundle
  BY DEF TransactionArrives, Typed
<1>2. label = "gaveUp" \/ (label = "accounts" /\ l.accounts = proc[p].accounts /\ l.group = 1)
  BY <1>0 DEF TransactionArrives, Typed, LocalSet
<1> HIDE DEF l, label
<1>3. LatestLocals(l, label)
  BY <1>0, <1>2 DEF LatestLocals, LatestUpTo
<1> QED BY <1>1, <1>3, StepLatest

LEMMA ProgramLatest ==
    ASSUME Typed, LatestInv, NEW p \in Processes, ProgramArrives(p) \/ WriteExecutable(p)
    PROVE  LatestInv'
<1> DEFINE l == proc'[p]
           label == pc'[p]
<1>0. /\ proc[p] \in LocalSet /\ LatestLocals(proc[p], pc[p]) /\ pc[p] \in Late
      /\ proc[p].program \in Programs /\ proc[p].program # "accounts.json" /\ DOMAIN dir = Paths
  <2>1. proc[p].program \in Programs
    BY DEF Typed, LocalOK, ProgramArrives, WriteExecutable
  <2> QED BY <2>1, CaptureAssumption
      DEF Typed, LatestInv, ProgramArrives, WriteExecutable, Late, Artifacts, Directories
<1>1. ASSUME NEW r, NextProgram(p, r)
      PROVE  /\ pc' = [pc EXCEPT ![p] = label] /\ proc' = [proc EXCEPT ![p] = l]
             /\ l.accounts = proc[p].accounts /\ label \in Late
  BY <1>0, <1>1 DEF NextProgram, NextRead, Typed, LocalSet, Late
<1>2. /\ pc' = [pc EXCEPT ![p] = label] /\ proc' = [proc EXCEPT ![p] = l]
      /\ l.accounts = proc[p].accounts /\ label \in Late
  <2>1. CASE ProgramArrives(p) /\ HasBytes(p)
    BY <1>0, <2>1 DEF ProgramArrives, Typed, LocalSet, Late
  <2>2. CASE ProgramArrives(p) /\ ~HasBytes(p)
    BY <1>1, <2>2 DEF ProgramArrives
  <2>3. CASE WriteExecutable(p)
    BY <1>1, <2>3 DEF WriteExecutable
  <2> QED BY <2>1, <2>2, <2>3
<1>3. dir'["accounts.json"] = dir["accounts.json"] /\ bundle' = bundle
  BY <1>0 DEF ProgramArrives, WriteExecutable, Paths, Artifacts
<1> HIDE DEF l, label
<1>4. LatestLocals(l, label)
  BY <1>0, <1>2 DEF LatestLocals, Late
<1> QED BY <1>2, <1>3, <1>4, StepLatest

LEMMA ArtifactLatest ==
    ASSUME Typed, LatestInv, NEW p \in Processes,
           OpenArtifact(p) \/ WriteArtifact(p) \/ FinishInspection(p)
    PROVE  LatestInv'
<1> DEFINE l == proc'[p]
<1>0. /\ proc[p] \in LocalSet /\ Latest(proc[p].accounts) /\ pc[p] = "write" /\ DOMAIN dir = Paths
      /\ "accounts.json" \in Paths
  BY DEF Typed, LatestInv, LatestLocals, OpenArtifact, WriteArtifact, FinishInspection, Directories,
         Paths, Artifacts
<1>1. CASE OpenArtifact(p) \/ WriteArtifact(p)
  <2>1. /\ pc' = [pc EXCEPT ![p] = "write"] /\ proc' = [proc EXCEPT ![p] = l]
        /\ l.accounts = proc[p].accounts /\ bundle' = bundle
    <3>1. pc' = pc /\ pc[p] = "write" /\ bundle' = bundle
      BY <1>0, <1>1 DEF OpenArtifact, WriteArtifact
    <3>2. \/ \E a, b : proc' = [proc EXCEPT ![p].todo = a, ![p].open = b]
          \/ \E b : proc' = [proc EXCEPT ![p].open = b]
      BY <1>1 DEF OpenArtifact, WriteArtifact
    <3>3. proc' = [proc EXCEPT ![p] = l] /\ l.accounts = proc[p].accounts
      BY <1>0, <3>2 DEF Typed, LocalSet
    <3> QED BY <3>1, <3>3 DEF Typed
  <2>2. dir'["accounts.json"] \in {Torn, dir["accounts.json"], proc[p].accounts}
    BY <1>0, <1>1 DEF OpenArtifact, WriteArtifact, Produced, Immutable
  <2> HIDE DEF l
  <2>3. LatestLocals(l, "write")
    BY <1>0, <2>1 DEF LatestLocals
  <2> QED BY <1>0, <2>1, <2>2, <2>3, StepLatest
<1>2. CASE FinishInspection(p) /\ ~Return(p)
  <2> DEFINE n == [NoLocals EXCEPT !.job = "capture", !.todo = Parsed]
  <2>1. pc' = [pc EXCEPT ![p] = "read"] /\ proc' = [proc EXCEPT ![p] = n]
        /\ dir' = dir /\ bundle' = bundle
    BY <1>2 DEF FinishInspection
  <2>2. LatestLocals(n, "read")
    BY DEF LatestLocals, NoLocals, Parsed, Artifacts
  <2> HIDE DEF n
  <2> QED BY <2>1, <2>2, StepLatest
<1>3. CASE FinishInspection(p) /\ Return(p)
  BY <1>3, ReturnLatest DEF FinishInspection
<1> QED BY <1>1, <1>2, <1>3

LEMMA BundleLatest ==
    ASSUME Typed, LatestInv, NEW p \in Processes,
           ReadArtifact(p) \/ PlanBundle(p) \/ CopyExecutable(p) \/ ReadLogs(p) \/ MakeBundle(p)
    PROVE  LatestInv'
<1> DEFINE l == proc'[p]
           label == pc'[p]
<1>0. /\ proc[p] \in LocalSet /\ LatestLocals(proc[p], pc[p]) /\ DOMAIN proc[p].got = Paths
      /\ "accounts.json" \in Paths /\ (pc[p] = "copy" => proc[p].todo \subseteq Programs)
      /\ "accounts.json" \notin Programs
      /\ dir["accounts.json"] \in {Absent, Torn} \/ Latest(dir["accounts.json"])
  BY CaptureAssumption DEF Typed, LatestInv, LocalOK, LocalSet, Directories, Paths, Artifacts
<1>1. CASE ReadArtifact(p) /\ ~Return(p)
  <2> PICK f \in proc[p].todo :
        /\ Parses(f) /\ pc[p] = "read"
        /\ proc' = [proc EXCEPT ![p].todo = @ \ {f}, ![p].got[f] = dir[f]]
        /\ UNCHANGED <<calls, pc, now, dir, bundle, started>>
    BY <1>1 DEF ReadArtifact
  <2>1. /\ proc' = [proc EXCEPT ![p] = l] /\ pc' = [pc EXCEPT ![p] = "read"]
        /\ l.todo = proc[p].todo \ {f} /\ l.got = [proc[p].got EXCEPT ![f] = dir[f]]
    BY <1>0 DEF Typed, LocalSet
  <2> HIDE DEF l
  <2>2. LatestLocals(l, "read")
    BY <1>0, <2>1 DEF LatestLocals, Parses
  <2> QED BY <2>1, <2>2, StepLatest
<1>2. CASE PlanBundle(p)
  <2>1. /\ proc' = [proc EXCEPT ![p] = l] /\ pc' = [pc EXCEPT ![p] = "copy"] /\ l.got = proc[p].got
        /\ pc[p] = "read" /\ proc[p].todo = {} /\ dir' = dir /\ bundle' = bundle
    BY <1>0, <1>2 DEF PlanBundle, Typed, LocalSet
  <2> HIDE DEF l
  <2>2. LatestLocals(l, "copy")
    BY <1>0, <2>1 DEF LatestLocals
  <2> QED BY <2>1, <2>2, StepLatest
<1>3. CASE CopyExecutable(p) /\ ~Return(p)
  <2> PICK x \in proc[p].todo :
        /\ proc' = [proc EXCEPT ![p].todo = @ \ {x}, ![p].got[x] = dir[x]] /\ pc[p] = "copy"
        /\ UNCHANGED <<calls, pc, now, dir, bundle, started>>
    BY <1>3 DEF CopyExecutable
  <2>1. /\ proc' = [proc EXCEPT ![p] = l] /\ pc' = [pc EXCEPT ![p] = "copy"]
        /\ l.got["accounts.json"] = proc[p].got["accounts.json"]
    BY <1>0 DEF Typed, LocalSet
  <2> HIDE DEF l
  <2>2. LatestLocals(l, "copy")
    BY <1>0, <2>1 DEF LatestLocals
  <2> QED BY <2>1, <2>2, StepLatest
<1>4. CASE ReadLogs(p) /\ ~Return(p)
  <2>1. /\ proc' = [proc EXCEPT ![p] = l] /\ pc' = [pc EXCEPT ![p] = "bundle"]
        /\ l.got["accounts.json"] = proc[p].got["accounts.json"] /\ pc[p] = "copy"
        /\ dir' = dir /\ bundle' = bundle
    BY <1>0, <1>4 DEF ReadLogs, Typed, LocalSet
  <2> HIDE DEF l
  <2>2. LatestLocals(l, "bundle")
    BY <1>0, <2>1 DEF LatestLocals
  <2> QED BY <2>1, <2>2, StepLatest
<1>5. CASE MakeBundle(p)
  <2>1. bundle'["accounts.json"] = proc[p].got["accounts.json"]
    BY <1>0, <1>5 DEF MakeBundle
  <2>2. Latest(bundle'["accounts.json"])
    BY <1>0, <1>5, <2>1 DEF MakeBundle, LatestLocals
  <2> QED BY <1>5, <2>2, ReturnLatest DEF MakeBundle
<1>6. CASE Return(p) /\ UNCHANGED <<now, dir, bundle, started>>
  BY <1>6, ReturnLatest
<1> QED BY <1>1, <1>2, <1>3, <1>4, <1>5, <1>6 DEF ReadArtifact, CopyExecutable, ReadLogs

LEMMA NextLatest ==
    ASSUME Distinct
    PROVE  Typed /\ LatestInv /\ [Next]_vars => LatestInv'
<1> SUFFICES ASSUME Typed, LatestInv, [Next]_vars PROVE LatestInv'
  OBVIOUS
<1>1. CASE UNCHANGED vars \/ Tick
  BY <1>1 DEF vars, Tick, LatestInv, CapturedSlotIsLatest
<1>2. ASSUME NEW p \in Processes, NEW j \in Jobs, StartCommand(p, j) PROVE LatestInv'
  <2> DEFINE l == proc'[p]
             label == pc'[p]
  <2>1. /\ pc' = [pc EXCEPT ![p] = label] /\ proc' = [proc EXCEPT ![p] = l]
        /\ label = IF j = "bundle" THEN "read" ELSE "transaction"
        /\ dir' = dir /\ bundle' = bundle /\ proc[p] = NoLocals
    BY <1>2 DEF StartCommand, Typed, LocalOK
  <2>2. l.accounts = NoAccounts /\ (j = "bundle" => l.todo = Parsed)
    <3>0. NoLocals \in LocalSet /\ NoLocals.accounts = NoAccounts
      BY NoLocalsOK DEF LocalOK, NoLocals
    <3>1. CASE j = "bundle"
      BY <1>2, <2>1, <3>0, <3>1 DEF StartCommand, Typed, LocalSet
    <3>2. CASE j # "bundle"
      BY <1>2, <2>1, <3>0, <3>2 DEF StartCommand, Typed, LocalSet
    <3> QED BY <3>1, <3>2
  <2> HIDE DEF l, label
  <2>3. LatestLocals(l, label)
    BY <2>1, <2>2 DEF LatestLocals, Parsed, Artifacts
  <2> QED BY <2>1, <2>3, StepLatest
<1>3. ASSUME NEW p \in Processes, Crash(p) \/ ReportFailure(p) PROVE LatestInv'
  BY <1>3, ReturnLatest DEF Crash, ReportFailure
<1> QED BY <1>1, <1>2, <1>3, ReadsLatest, TransactionLatest, AccountsLatest, ProgramLatest,
           ArtifactLatest, BundleLatest DEF Next, Step

\* When no account is listed twice, capturedSlot is the slot of the latest
\* account observation, for every number of groups and however far the nodes
\* that answer them lag.
THEOREM SlotIsLatest ==
    ASSUME Distinct
    PROVE  Spec => []CapturedSlotIsLatest
<1>1. Init => LatestInv
  <2> SUFFICES ASSUME Init PROVE LatestInv
    OBVIOUS
  <2>1. dir["accounts.json"] = Absent
    BY DEF Init, Artifacts
  <2>2. \A p \in Processes : LatestLocals(proc[p], pc[p])
    BY DEF Init, LatestLocals
  <2> QED BY <2>1, <2>2 DEF Init, LatestInv, CapturedSlotIsLatest
<1>2. LatestInv => CapturedSlotIsLatest
  BY DEF LatestInv
<1> QED BY <1>1, <1>2, InitTyped, NextTyped, NextLatest, PTL DEF Spec

-----------------------------------------------------------------------------
(* A command never comes back to where it was.                             *)

\* Anything a process does but begin a command.
Act(p) == Answer(p) \/ Step(p) \/ Crash(p)

LEMMA Removed ==
    ASSUME NEW S, NEW f \in S PROVE Shrinks(S, S \ {f})
BY DEF Shrinks

\* A process changes its own control point, locals and calls only.
LEMMA OthersUnchanged ==
    ASSUME Typed, NEW p \in Processes, Act(p) \/ \E j \in Jobs : StartCommand(p, j)
    PROVE  \A q \in Processes : q # p => ~Changes(q)
<1>1. ASSUME NEW K, K \subseteq CallsOf(p), Send(K) \/ Drop(K)
      PROVE  \A k \in Calls \ CallsOf(p) : calls'[k] = calls[k]
  BY <1>1 DEF Send, Drop
<1>2. {First(p)} \subseteq CallsOf(p) /\ CallsOf(p) \subseteq CallsOf(p)
  BY CallFacts
<1>3. /\ \A q \in Processes : q # p => pc'[q] = pc[q] /\ proc'[q] = proc[q]
      /\ \A k \in Calls \ CallsOf(p) : calls'[k] = calls[k]
  <2> USE DEF Typed
  <2>1. CASE \E j \in Jobs : StartCommand(p, j)
    BY <1>1, <1>2, <2>1 DEF StartCommand
  <2>2. CASE Answer(p) \/ AttemptTimesOut(p) \/ NextAttempt(p)
    <3>1. /\ pc' = pc
          /\ \A q \in Processes : q # p => proc'[q] = proc[q]
      BY <2>2 DEF Answer, AttemptTimesOut, NextAttempt
    <3>2. \E k \in CallsOf(p) : \A q \in Calls \ {k} : calls'[q] = calls[q]
      <4>1. CASE Answer(p)
        <5> PICK k \in CallsOf(p), reply \in Replies, value \in Results(p) \cup {NoResult} :
              Respond(k, reply, value)
          BY <4>1 DEF Answer
        <5>1. Meaning(reply) \in {"failure", "RpcError", "result"}
          BY DEF Meaning
        <5>2. \A q \in Calls \ {k} : calls'[q] = calls[q]
          BY <5>1 DEF Respond, Fail
        <5> QED BY <5>2
      <4>2. CASE AttemptTimesOut(p)
        BY <4>2 DEF AttemptTimesOut, TimeOut, Fail
      <4>3. CASE NextAttempt(p)
        BY <4>3 DEF NextAttempt, Retry
      <4> QED BY <2>2, <4>1, <4>2, <4>3
    <3> QED BY <3>1, <3>2
  <2>3. CASE GiveUp(p) \/ ReportFailure(p) \/ Crash(p) \/ TransactionArrives(p) \/ BlockSettled(p)
    BY <1>1, <1>2, <2>3 DEF GiveUp, ReportFailure, Crash, TransactionArrives, BlockSettled
  <2>4. CASE LookupsArrive(p)
    BY <1>1, <1>2, <2>4 DEF LookupsArrive
  <2>8. CASE AccountsArrive(p)
    <3>0. \A k \in Calls \ CallsOf(p) : calls'[k] = calls[k]
      <4>1. Send({First(p)})
        BY <2>8 DEF AccountsArrive
      <4> QED BY <1>1, <1>2, <4>1
    <3>1. CASE proc[p].group < Len(Groups)
      <4>1. /\ pc' = pc
            /\ \E a : proc' = [proc EXCEPT ![p].accounts = a, ![p].group = proc[p].group + 1]
        BY <2>8, <3>1 DEF AccountsArrive
      <4> QED BY <3>0, <4>1
    <3>2. CASE ~(proc[p].group < Len(Groups))
      <4>1. /\ pc' = [pc EXCEPT ![p] = NextRead(Programs)]
            /\ \E a : proc' = [proc EXCEPT ![p].accounts = a, ![p].todo = Programs,
                                          ![p].program = Pick(Programs)]
        BY <2>8, <3>2 DEF AccountsArrive
      <4> QED BY <3>0, <4>1
    <3> QED BY <3>1, <3>2
  <2>5. CASE ProgramArrives(p) \/ WriteExecutable(p)
    BY <1>1, <1>2, <2>5 DEF ProgramArrives, WriteExecutable, NextProgram
  <2>6. CASE OpenArtifact(p) \/ WriteArtifact(p) \/ FinishInspection(p)
    BY <1>1, <1>2, <2>6 DEF OpenArtifact, WriteArtifact, FinishInspection
  <2>7. CASE ReadArtifact(p) \/ PlanBundle(p) \/ CopyExecutable(p) \/ ReadLogs(p) \/ MakeBundle(p)
    BY <1>1, <1>2, <2>7 DEF ReadArtifact, PlanBundle, CopyExecutable, ReadLogs, MakeBundle
  <2> QED BY <2>1, <2>2, <2>3, <2>4, <2>5, <2>6, <2>7, <2>8 DEF Act, Step
<1>4. \A q \in Processes : q # p => CallsOf(q) \subseteq Calls \ CallsOf(p)
  BY CallFacts
<1> QED BY <1>3, <1>4 DEF Changes

LEMMA Settles ==
    ASSUME NEW c, NEW d, c.phase = "waiting", d.phase \in {"backoff", "rejected", "resolved"}
    PROVE  Standing(c.phase) < Standing(d.phase) /\ d # c
<1>1. Standing("waiting") = 0 /\ \A phase \in {"backoff", "rejected", "resolved"} : Standing(phase) \in {1, 2}
  BY DEF Standing
<1>2. Standing(c.phase) = 0 /\ Standing(d.phase) \in {1, 2}
  BY <1>1
<1> QED BY <1>2

\* A call is answered, times out or is tried again.
LEMMA CallMove ==
    ASSUME Typed, NEW p \in Processes, Answer(p) \/ AttemptTimesOut(p) \/ NextAttempt(p)
    PROVE  Changes(p) /\ MovesOn(p)
<1> USE DEF Typed
<1>1. PICK k \in CallsOf(p) :
        /\ CallMoves(k) /\ calls'[k] # calls[k]
        /\ \A q \in Calls \ {k} : calls'[q] = calls[q]
  <2>0. \A k \in CallsOf(p) : k \in Calls /\ calls[k] \in CallSet
    BY CallFacts
  <2>1. ASSUME NEW k \in CallsOf(p), calls[k].phase = "waiting",
               NEW phase \in {"backoff", "rejected", "resolved"}, NEW result,
               calls' = [calls EXCEPT ![k].phase = phase, ![k].result = result]
        PROVE  /\ CallMoves(k) /\ calls'[k] # calls[k]
               /\ \A q \in Calls \ {k} : calls'[q] = calls[q]
    <3>1. calls'[k].phase = phase /\ calls'[k].attempt = calls[k].attempt
      BY <2>0, <2>1 DEF CallSet
    <3>2. \A q \in Calls \ {k} : calls'[q] = calls[q]
      BY <2>1
    <3> QED BY <2>1, <3>1, <3>2, Settles DEF CallMoves
  <2>2. ASSUME NEW k \in CallsOf(p), calls[k].phase = "waiting", NEW phase \in {"backoff", "rejected"},
               calls' = [calls EXCEPT ![k].phase = phase]
        PROVE  /\ CallMoves(k) /\ calls'[k] # calls[k]
               /\ \A q \in Calls \ {k} : calls'[q] = calls[q]
    <3>1. calls'[k].phase = phase /\ calls'[k].attempt = calls[k].attempt
      BY <2>0, <2>2 DEF CallSet
    <3>2. \A q \in Calls \ {k} : calls'[q] = calls[q]
      BY <2>2
    <3> QED BY <2>2, <3>1, <3>2, Settles DEF CallMoves
  <2>3. CASE Answer(p)
    <3> PICK k \in CallsOf(p), reply \in Replies, value \in Results(p) \cup {NoResult} :
          Respond(k, reply, value)
      BY <2>3 DEF Answer
    <3>1. Meaning(reply) \in {"failure", "RpcError", "result"}
      BY DEF Meaning
    <3> QED BY <2>1, <2>2, <3>1 DEF Respond, Fail
  <2>4. CASE AttemptTimesOut(p)
    BY <2>2, <2>4 DEF AttemptTimesOut, TimeOut, Fail
  <2>5. CASE NextAttempt(p)
    <3> PICK k \in CallsOf(p) : Retry(k)
      BY <2>5 DEF NextAttempt
    <3>1. calls'[k].attempt = calls[k].attempt + 1 /\ calls[k].attempt \in Nat
      BY <2>0, RetriesAssumption DEF Retry, CallSet
    <3>2. \A q \in Calls \ {k} : calls'[q] = calls[q]
      BY DEF Retry
    <3> QED BY <3>1, <3>2 DEF CallMoves
  <2> QED BY <2>3, <2>4, <2>5
<1>2. \A q \in CallsOf(p) \ {k} : calls'[q] = calls[q]
  BY <1>1, CallFacts
<1>3. pc' = pc
  BY DEF Answer, AttemptTimesOut, NextAttempt
<1> QED BY <1>1, <1>2, <1>3, OnlyNotes DEF Changes, MovesOn

\* What any other step does to the process that takes it.
LEMMA MoveStep ==
    ASSUME Typed, NEW p \in Processes, Act(p)
    PROVE  Changes(p) /\ MovesOn(p)
<1> USE DEF Typed
<1>0. proc[p] \in LocalSet /\ LocalOK(proc[p], pc[p])
  OBVIOUS
\* The next stage.
<1>1. ASSUME pc'[p] # pc[p], Stage(pc[p]) < Stage(pc'[p]) PROVE Changes(p) /\ MovesOn(p)
  BY <1>1 DEF Changes, MovesOn
\* The command ends.
<1>2. ASSUME pc[p] # "idle", pc'[p] = "idle" PROVE Changes(p) /\ MovesOn(p)
  BY <1>2 DEF Changes, MovesOn
\* There is less to do.
<1>3. ASSUME Stage(pc'[p]) = Stage(pc[p]), proc'[p].group = proc[p].group,
             \/ Shrinks(proc[p].todo, proc'[p].todo)
             \/ proc'[p].todo = proc[p].todo /\ Shrinks(proc[p].open, proc'[p].open)
      PROVE  Changes(p) /\ MovesOn(p)
  BY <1>3 DEF Changes, MovesOn, Shrinks
<1>4. CASE Answer(p) \/ AttemptTimesOut(p) \/ NextAttempt(p)
  BY <1>4, CallMove
<1>5. CASE Crash(p) \/ ReportFailure(p)
  BY <1>2, <1>5 DEF Crash, ReportFailure
<1>6. CASE GiveUp(p)
  <2>1. pc[p] \in {"transaction", "accounts", "program", "lookups"} /\ pc'[p] = "gaveUp"
    BY <1>6 DEF GiveUp, Reading
  <2> QED BY <1>1, <2>1 DEF Stage
<1>7. CASE TransactionArrives(p)
  <2>1. pc[p] = "transaction" /\ pc'[p] \in {"accounts", "gaveUp"}
    BY <1>7 DEF TransactionArrives
  <2> QED BY <1>1, <2>1 DEF Stage
<1>8. CASE AccountsArrive(p)
  <2>1. CASE proc[p].group < Len(Groups)
    <3>1. \E a : proc' = [proc EXCEPT ![p].accounts = a, ![p].group = proc[p].group + 1]
      BY <1>8, <2>1 DEF AccountsArrive
    <3>2. proc'[p].group = proc[p].group + 1 /\ pc' = pc /\ proc[p].group \in Nat
      BY <1>0, <1>8, <2>1, <3>1, GroupsCover DEF AccountsArrive, LocalOK, LocalSet
    <3> QED BY <3>2 DEF Changes, MovesOn
  <2>2. CASE ~(proc[p].group < Len(Groups))
    <3>1. pc[p] = "accounts" /\ pc'[p] = NextRead(Programs)
      BY <1>8, <2>2 DEF AccountsArrive
    <3> QED BY <1>1, <3>1 DEF NextRead, Stage
  <2> QED BY <2>1, <2>2
<1>9. ASSUME NEW r, NextProgram(p, r), pc[p] \in {"program", "executable"}
      PROVE  Changes(p) /\ MovesOn(p)
  <2> DEFINE left == proc[p].todo \ {proc[p].program}
  <2>1. /\ pc'[p] = NextRead(left)
        /\ proc' = [proc EXCEPT ![p].recorded = r, ![p].todo = left, ![p].program = Pick(left)]
        /\ Shrinks(proc[p].todo, left)
    BY <1>0, <1>9, Removed DEF NextProgram, LocalOK
  <2> HIDE DEF left
  <2>2. proc'[p].todo = left /\ proc'[p].group = proc[p].group
    BY <1>0, <2>1 DEF LocalSet
  <2>3. CASE left # {}
    BY <1>3, <1>9, <2>1, <2>2, <2>3 DEF NextRead, Stage
  <2>4. CASE left = {}
    BY <1>1, <1>9, <2>1, <2>4 DEF NextRead, Stage
  <2> QED BY <2>3, <2>4
<1>10. CASE ProgramArrives(p)
  <2>1. CASE HasBytes(p)
    <3>1. /\ pc[p] = "program" /\ pc'[p] = "executable"
          /\ \E r : proc' = [proc EXCEPT ![p].recorded = r]
      BY <1>10, <2>1 DEF ProgramArrives
    <3>2. /\ proc'[p].todo = proc[p].todo /\ proc'[p].open = proc[p].open
          /\ proc'[p].group = proc[p].group
      BY <1>0, <3>1 DEF LocalSet
    <3> QED BY <3>1, <3>2 DEF Changes, MovesOn, Stage
  <2>2. CASE ~HasBytes(p)
    BY <1>9, <1>10, <2>2 DEF ProgramArrives
  <2> QED BY <2>1, <2>2
<1>11. CASE WriteExecutable(p)
  BY <1>9, <1>11 DEF WriteExecutable
<1>12. CASE LookupsArrive(p) \/ BlockSettled(p)
  <2>1. \/ pc[p] = "lookups" /\ pc'[p] = "block"
        \/ pc[p] = "block" /\ pc'[p] = "write"
    BY <1>12 DEF LookupsArrive, BlockSettled
  <2> QED BY <1>1, <2>1 DEF Stage
<1>13. CASE OpenArtifact(p)
  <2> PICK f \in proc[p].todo : proc' = [proc EXCEPT ![p].todo = @ \ {f}, ![p].open = @ \cup {f}]
    BY <1>13 DEF OpenArtifact
  <2>1. proc'[p].todo = proc[p].todo \ {f} /\ proc'[p].group = proc[p].group /\ pc' = pc
    BY <1>0, <1>13 DEF OpenArtifact, LocalSet
  <2> QED BY <1>3, <2>1, Removed
<1>14. CASE WriteArtifact(p)
  <2> PICK f \in proc[p].open : proc' = [proc EXCEPT ![p].open = @ \ {f}]
    BY <1>14 DEF WriteArtifact
  <2>1. /\ proc'[p].open = proc[p].open \ {f} /\ proc'[p].todo = proc[p].todo
        /\ proc'[p].group = proc[p].group /\ pc' = pc
    BY <1>0, <1>14 DEF WriteArtifact, LocalSet
  <2> QED BY <1>3, <2>1, Removed
<1>15. CASE FinishInspection(p)
  <2>1. pc[p] = "write" /\ pc'[p] \in {"read", "idle"}
    BY <1>15 DEF FinishInspection
  <2> QED BY <1>1, <1>2, <2>1 DEF Stage
<1>16. CASE ReadArtifact(p) \/ CopyExecutable(p)
  <2>0. pc[p] # "idle"
    BY <1>16 DEF ReadArtifact, CopyExecutable
  <2>1. CASE pc'[p] = "idle"
    BY <1>2, <2>0, <2>1
  <2>2. CASE pc'[p] # "idle"
    <3>1. PICK f \in proc[p].todo :
            /\ proc' = [proc EXCEPT ![p].todo = @ \ {f}, ![p].got[f] = dir[f]]
            /\ pc' = pc
      BY <1>16, <2>2 DEF ReadArtifact, CopyExecutable
    <3>2. proc'[p].todo = proc[p].todo \ {f} /\ proc'[p].group = proc[p].group
      BY <1>0, <3>1 DEF LocalSet
    <3> QED BY <1>3, <3>1, <3>2, Removed
  <2> QED BY <2>1, <2>2
<1>17. CASE PlanBundle(p) \/ ReadLogs(p) \/ MakeBundle(p)
  <2>1. \/ pc[p] = "read" /\ pc'[p] = "copy"
        \/ pc[p] = "copy" /\ pc'[p] \in {"bundle", "idle"}
        \/ pc[p] = "bundle" /\ pc'[p] = "idle"
    BY <1>17 DEF PlanBundle, ReadLogs, MakeBundle
  <2> QED BY <1>1, <1>2, <2>1 DEF Stage
<1> QED BY <1>4, <1>5, <1>6, <1>7, <1>8, <1>10, <1>11, <1>12, <1>13, <1>14, <1>15, <1>16, <1>17 DEF Act, Step

\* The part of termination that does not depend on fairness: whatever the
\* node answers, every step of a process starts a command or brings one nearer
\* to its end, for every number of retries, accounts and programs.
THEOREM StepsMoveOn == Spec => CommandsMoveOn
<1> DEFINE Moves == /\ now' = now => \E p \in Processes : Changes(p)
                    /\ \A p \in Processes : (pc[p] # "idle" /\ Changes(p)) => MovesOn(p)
<1>1. Typed /\ [Next]_vars => [Moves]_vars
  <2> SUFFICES ASSUME Typed, Next PROVE Moves
    OBVIOUS
  <2>1. CASE Tick
    <3>1. now' # now
      BY <2>1, SlotFacts DEF Tick, Typed
    <3>2. \A p \in Processes : ~Changes(p)
      BY <2>1 DEF Tick, Changes
    <3> QED BY <3>1, <3>2
  <2>2. ASSUME NEW p \in Processes, NEW j \in Jobs, StartCommand(p, j) PROVE Moves
    <3>1. pc[p] = "idle" /\ Changes(p)
      BY <2>2 DEF StartCommand, Typed, Changes
    <3>2. \A q \in Processes : q # p => ~Changes(q)
      BY <2>2, OthersUnchanged
    <3> QED BY <3>1, <3>2
  <2>3. ASSUME NEW p \in Processes, Act(p) PROVE Moves
    <3>1. Changes(p) /\ MovesOn(p)
      BY <2>3, MoveStep
    <3>2. \A q \in Processes : q # p => ~Changes(q)
      BY <2>3, OthersUnchanged
    <3> QED BY <3>1, <3>2
  <2> QED BY <2>1, <2>2, <2>3 DEF Next, Act
<1> QED BY <1>1, InitTyped, NextTyped, PTL DEF Spec, CommandsMoveOn

=============================================================================
