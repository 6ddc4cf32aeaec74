------------------------------ MODULE RpcClient ------------------------------
(***************************************************************************)
(* RpcClient.call: one POST per attempt, cut off by an AbortSignal, and a  *)
(* pause before the next.  What a call asks for and what the node may      *)
(* answer is up to the module that makes the calls.                        *)
(***************************************************************************)
EXTENDS Naturals, Sequences

CONSTANTS
    Calls,    \* the calls the program can have under way at once
    Retries,  \* attempts after the first
    NoResult

ASSUME RetriesAssumption == Retries \in Nat

VARIABLE calls

Phases == {"idle", "waiting", "backoff", "resolved", "rejected"}

Silent == [phase |-> "idle", attempt |-> 0, result |-> NoResult]

Begun == [Silent EXCEPT !.phase = "waiting"]

Send(K) == calls' = [k \in Calls |-> IF k \in K THEN Begun ELSE calls[k]]

Drop(K) == calls' = [k \in Calls |-> IF k \in K THEN Silent ELSE calls[k]]

\* What the HTTP layer hands back: 429 and 5xx ("busy"), another status that
\* is not ok, or a body that is no JSON-RPC answer, an error, or a result.
Replies == [status : {"ok", "busy", "refused"}, body : {"garbled", "error", "result"}]

Meaning(reply) ==
    CASE reply.status # "ok" -> "failure"
      [] reply.body = "garbled" -> "failure"
      [] reply.body = "error" -> "RpcError"
      [] OTHER -> "result"

\* Mutant: the attempt before the last is taken for the last.
OneAttemptShort(k) == calls[k].attempt + 1 >= Retries

LastAttempt(k) == calls[k].attempt = Retries

\* The catch clause for everything but an RpcError.
Fail(k) ==
    calls' = [calls EXCEPT ![k].phase = IF LastAttempt(k) THEN "rejected" ELSE "backoff"]

\* The answer to the attempt under way; the value is the payload's result.
Respond(k, reply, value) ==
    /\ calls[k].phase = "waiting"
    /\ CASE Meaning(reply) = "failure" -> Fail(k)
         [] Meaning(reply) = "RpcError" -> calls' = [calls EXCEPT ![k].phase = "rejected"]
         [] Meaning(reply) = "result" ->
              calls' = [calls EXCEPT ![k].phase = "resolved", ![k].result = value]

\* Mutant: no AbortSignal, so an attempt nobody answers waits for ever.
NeverTimesOut(k) ==
    /\ calls[k].phase = "waiting"
    /\ FALSE
    /\ Fail(k)

\* The network fails, or timeoutMs have passed; an answer that comes later
\* finds nobody listening.
TimeOut(k) ==
    /\ calls[k].phase = "waiting"
    /\ Fail(k)

\* Mutant: the attempt is not counted.
RetryUncounted(k) ==
    /\ calls[k].phase = "backoff"
    /\ calls' = [calls EXCEPT ![k].phase = "waiting"]

\* The pause is over.
Retry(k) ==
    /\ calls[k].phase = "backoff"
    /\ calls' = [calls EXCEPT ![k].phase = "waiting", ![k].attempt = @ + 1]

-----------------------------------------------------------------------------
(* chunks: the groups a list is requested in.                              *)

Chunks(values, size) ==
    [i \in 1..((Len(values) + size - 1) \div size) |->
        SubSeq(values, (i - 1) * size + 1,
               IF i * size < Len(values) THEN i * size ELSE Len(values))]
=============================================================================
