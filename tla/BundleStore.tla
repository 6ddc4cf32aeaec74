----------------------------- MODULE BundleStore -----------------------------
(***************************************************************************)
(* What a bundle directory promises when nobody builds into it while it is *)
(* used.  Builds replace what it holds; from the moment a build touches it *)
(* until its manifest is written, the directory is at best still the       *)
(* bundle it was, and then it is the build's.  An assertion passes on what *)
(* the directory holds and on nothing else.                                *)
(***************************************************************************)
CONSTANTS
    Captures,
    Supported,      \* the captures that may be replayed
    Runtimes,
    PinnedRuntime,
    Users,
    None

VARIABLES
    described,  \* the bundle the manifest describes, or None
    usable,     \* whether a command would accept the directory as that bundle
    building,   \* the capture of the build under way, or None
    passing     \* the users whose assertion passes

storeVars == <<described, usable, building, passing>>

Bundles == [capture : Captures, runtime : Runtimes]

Init ==
    /\ \/ described = None /\ usable = FALSE
       \/ described \in Bundles /\ usable = TRUE
    /\ building = None
    /\ passing = {}

BeginBuild(c) ==
    /\ building = None
    /\ passing = {}
    /\ building' = c
    /\ UNCHANGED <<described, usable, passing>>

\* A build spoils the bundle that is there, or happens to restore it.
Disturb ==
    /\ building # None
    /\ described # None
    /\ usable' \in BOOLEAN
    /\ UNCHANGED <<described, building, passing>>

Withdraw ==
    /\ building # None
    /\ described' = None
    /\ usable' = FALSE
    /\ UNCHANGED <<building, passing>>

Publish ==
    /\ building # None
    /\ described' = [capture |-> building, runtime |-> PinnedRuntime]
    /\ usable' = TRUE
    /\ building' = None
    /\ UNCHANGED passing

\* The build dies.
Abandon ==
    /\ building # None
    /\ building' = None
    /\ UNCHANGED <<described, usable, passing>>

Pass(u) ==
    /\ building = None
    /\ usable
    /\ described.runtime = PinnedRuntime
    /\ described.capture \in Supported
    /\ passing' = passing \cup {u}
    /\ UNCHANGED <<described, usable, building>>

EndPass(u) ==
    /\ passing' = passing \ {u}
    /\ UNCHANGED <<described, usable, building>>

Next ==
    \/ \E c \in Captures : BeginBuild(c)
    \/ Disturb \/ Withdraw \/ Publish \/ Abandon
    \/ \E u \in Users : Pass(u) \/ EndPass(u)

Spec == Init /\ [][Next]_storeVars
=============================================================================
