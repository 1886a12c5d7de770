----------------------------- MODULE SharedLock -----------------------------
(***************************************************************************)
(* What the shared VTP lock promises the programs that use it: one of them *)
(* at a time is between vtpLock and vtpUnlock, and the lock of one that    *)
(* died there is stale until another takes it over.                        *)
(***************************************************************************)
CONSTANT Proc

VARIABLES
    using,  \* the processes between taking and giving back the lock
    stale   \* the last holder died with it

vars == <<using, stale>>

Init == using = {} /\ stale = FALSE

Take(p) ==
    /\ using = {}
    /\ using' = {p}
    /\ stale' = FALSE

GiveBack(p) ==
    /\ p \in using
    /\ using' = using \ {p}
    /\ UNCHANGED stale

DieHolding(p) ==
    /\ p \in using
    /\ using' = using \ {p}
    /\ stale' = TRUE

Next == \E p \in Proc : Take(p) \/ GiveBack(p) \/ DieHolding(p)

Spec == Init /\ [][Next]_vars
=============================================================================
