------------------------------ MODULE MCBundle ------------------------------
(* Small instances of Bundle for TLC.                                      *)
EXTENDS Bundle, TLC

CONSTANTS c1, c2, c3, s1, s2, a1, a2, x1, o1, p1, p2

\* c1 and c2 are captures of one transaction; when c2 was taken an account it
\* needs could no longer be defended.  c3 is another transaction, with fewer
\* accounts and no executable.
MCSignatureOf == [c \in Captures |-> IF c = c3 THEN s2 ELSE s1]
MCEligibilityOf == [c \in Captures |-> IF c = c2 THEN "UNSUPPORTED" ELSE "SUPPORTED"]
MCAccountsOf == [c \in Captures |-> IF c = c3 THEN {a1} ELSE {a1, a2}]
MCProgramsOf == [c \in Captures |-> IF c = c3 THEN {} ELSE ProgramFiles]

Build(c) == [command |-> "bundle", capture |-> c]
Run(command) == [command |-> command, out |-> Default, replayFile |-> "replay.json", fresh |-> FALSE]

\* Builds over the remains of builds, while others look at the directory.
RebuildJobs == {Build(c1), Build(c3), Run("inspect")}

\* A bundle that is used, built again for less, and used again.
UseJobs ==
    {Build(c2), Build(c3), Run("assert"),
     [Run("assert") EXCEPT !.fresh = TRUE, !.replayFile = o1],
     [Run("assert") EXCEPT !.fresh = TRUE, !.out = o1],
     [Run("replay") EXCEPT !.out = o1]}

\* One replay beside one build over a bundle of another transaction.
ReplaceJobs == {Build(c3), Run("replay")}

\* The three commands that wait for the backend, and a build.
EndingJobs == {Build(c2), Run("replay"), Run("compare"), [Run("assert") EXCEPT !.fresh = TRUE]}

ProcessSymmetry == Permutations(Processes)
=============================================================================
