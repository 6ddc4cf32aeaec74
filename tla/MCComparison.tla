---------------------------- MODULE MCComparison ----------------------------
(* Instances of Comparison for TLC: all short logs; all ways two outcomes  *)
(* and their compute units can differ; all ways their states can.          *)
EXTENDS Comparison

CONSTANTS payer, peer, x, y, MaxLines

MCAccounts == {payer, peer}
Logs == UNION {[1..n -> Lines] : n \in 0..MaxLines}

Custom == [kind |-> "custom", detail |-> 1]
Object == [kind |-> "object", detail |-> 1]

\* A transfer that went as it should, and what the backend makes of it.
BaseOriginal ==
    [success |-> TRUE, error |-> Null, logs |-> <<x, y>>, units |-> 100,
     writable |-> {payer, peer}, lamports |-> [a \in MCAccounts |-> 1],
     tokens |-> [a \in MCAccounts |-> Null], inner |-> FALSE, returnData |-> Null]
BaseReplay ==
    [refused |-> FALSE, success |-> TRUE, error |-> Null, logs |-> <<x, y>>, units |-> 100,
     post |-> [a \in MCAccounts |-> [lamports |-> 1, amount |-> Null]], returnData |-> Null]

LogPairs ==
    {<<[BaseOriginal EXCEPT !.logs = s], [BaseReplay EXCEPT !.logs = t]>> : s, t \in Logs}

OutcomePairs ==
    {<<[BaseOriginal EXCEPT !.error = e, !.success = e = Null, !.units = n],
       [BaseReplay EXCEPT !.error = f, !.success = f = Null, !.units = m, !.logs = t]>> :
     e, f \in {Null, Custom, Object}, n \in {Null, 0, 100}, m \in {Null, 0, 100, 101, 102},
     t \in {<<x, y>>, <<x>>}}

PostStates == {Null} \cup [lamports : 0..2, amount : {Null, 1, 2}]

StatePairs ==
    {<<[BaseOriginal EXCEPT !.lamports[peer] = n, !.tokens[peer] = k, !.inner = i,
                            !.writable = w],
       [BaseReplay EXCEPT !.post[peer] = s, !.returnData = d, !.units = m]>> :
     n \in 0..1, k \in {Null, 1}, i \in BOOLEAN, w \in {{payer}, {payer, peer}},
     s \in PostStates, d \in {Null, 1}, m \in {100, 101, 102}}

Refused == {<<BaseOriginal, [BaseReplay EXCEPT !.refused = TRUE]>>}

MCExecutions == LogPairs \cup OutcomePairs \cup StatePairs \cup Refused
=============================================================================
