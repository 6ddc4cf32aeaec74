---------------------------- MODULE MCEvidence ----------------------------
(* Instances of Evidence for TLC: a system transfer, one of them failing,  *)
(* SPL transfers with and without the mint, and transactions outside the   *)
(* supported classes, over two wallets, two token accounts and a mint.     *)
EXTENDS Evidence, TLC

CONSTANTS alice, bob, src, dst, mint, other, v1, v2

MCAccounts == {alice, bob, src, dst, mint, WrappedSol}
MCPrograms == {System, Token, ComputeBudget, other}
MCRuntimePrograms == {System, Token, ComputeBudget}
MCUpgradeable == {other}
MCBytes == {Nothing, v1, v2}

St(o, d, n) == [owner |-> o, data |-> d, lamports |-> n]
Blob(k, v, e) == [kind |-> k, value |-> v, extra |-> e]
Holding(m, n, e) ==
    St(Token, Blob("token", [mint |-> m, holder |-> alice, amount |-> n], e), 1)

Wallets == {St(System, EmptyData, n) : n \in 1..2}
Nonces == {St(System, Blob("other", v, "normal"), 1) : v \in {v1, v2}}
Escrows == {St(other, Blob("other", v1, "normal"), 1), St(other, EmptyData, 1)}
Tokens == {Holding(mint, 1, "normal"), Holding(mint, 2, "used"), Holding(WrappedSol, 1, "normal")}
Mints == {St(Token, Blob("mint", Nothing, "used"), 1)}
Code == St(Loader, Blob("other", v1, "normal"), 1)

MCStates == {Missing, Code} \cup Wallets \cup Nonces \cup Escrows \cup Tokens \cup Mints

\* What each address could have been when the transaction executed.
MCLedgers ==
    {[a \in MCAccounts \cup MCPrograms |->
        CASE a = alice -> w [] a = bob -> b [] a = src -> s [] a = dst -> d
          [] a \in {mint, WrappedSol} -> m [] OTHER -> Code] :
     w \in {St(System, EmptyData, 2)},
     <<b, s, d>> \in
        ({Missing} \cup Wallets \cup Nonces \cup Escrows)
            \X {Holding(mint, 2, "used")} \X {Holding(mint, 1, "normal")}
        \cup {<<Missing, Holding(WrappedSol, 1, "normal"), Holding(WrappedSol, 1, "normal")>>},
     m \in Mints}

Transfer(programs, failed, lookups) ==
    [accounts |-> {alice, bob}, programs |-> programs, writable |-> {alice, bob},
     signers |-> {alice}, failed |-> failed, lookups |-> lookups, inner |-> FALSE,
     systemTransfer |-> TRUE, post |-> {}, holders |-> {}, token |-> Nothing]

TokenTransfer(accounts, programs, failed, inner, m) ==
    [accounts |-> accounts, programs |-> programs, writable |-> {alice, src, dst},
     signers |-> {alice}, failed |-> failed, lookups |-> FALSE, inner |-> inner,
     systemTransfer |-> FALSE, post |-> {src, dst}, holders |-> {src, dst},
     token |-> [source |-> src, destination |-> dst, authority |-> alice, mint |-> m]]

\* Old metadata: no holder of a token account is named, or no balance after
\* the transaction.
OldMetadata ==
    LET t == TokenTransfer({alice, src, dst}, {Token}, FALSE, FALSE, Nothing)
    IN  {[t EXCEPT !.holders = {}], [t EXCEPT !.post = {src}]}

\* A second transfer pays no one: bob is only read.
ReadsBob == [Transfer({System, ComputeBudget}, FALSE, FALSE) EXCEPT !.writable = {alice}]

MCTransactions ==
    OldMetadata \cup {Transfer({System}, failed, FALSE) : failed \in BOOLEAN}
    \cup {Transfer({System}, FALSE, TRUE), Transfer({System, other}, FALSE, FALSE), ReadsBob}
    \cup {TokenTransfer({alice, src, dst}, {Token}, FALSE, FALSE, Nothing),
          TokenTransfer({alice, src, dst, mint}, {Token, ComputeBudget}, FALSE, FALSE, mint),
          TokenTransfer({alice, src, dst, bob}, {Token}, FALSE, FALSE, Nothing),
          TokenTransfer({alice, src, dst}, {Token}, TRUE, FALSE, Nothing),
          TokenTransfer({alice, src, dst}, {Token}, FALSE, TRUE, Nothing)}

MCChunks == <<{alice, src} \cup MCPrograms, {bob, dst, mint, WrappedSol}>>

=============================================================================
