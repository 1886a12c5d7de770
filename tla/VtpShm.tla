------------------------------- MODULE VtpShm -------------------------------
(***************************************************************************)
(* The robust mutex in shared memory by which the programs of one VTP (the *)
(* ROC, the diagnostic servers, the command-line tools) exclude each other *)
(* (vtpLib.c, vtpCreateLockShm to vtpCheckMutexHealth).                    *)
(*                                                                         *)
(* One process is one thread that uses the lock.  The steps are the system *)
(* calls on state that the processes share: opening, creating and sizing   *)
(* the file, initialising the mutex, each attempt to take or release it.   *)
(* The pthread operations themselves are not code of the repository; they  *)
(* follow POSIX: a robust mutex whose owner died gives EOWNERDEAD to the   *)
(* next one that takes it, and only its owner can unlock it.               *)
(***************************************************************************)
CONSTANTS
    Proc,       \* the processes
    Free,       \* owner of a mutex that nobody holds
    Dead,       \* owner of a mutex whose holder died
    Hazards     \* what the schedule may do: see HazardKind

\* "race": several processes create the file at once; "torn": one dies while it
\* does; "slow": a holder keeps the lock for longer than a health check waits.
HazardKind == {"race", "torn", "slow"}

ASSUME OwnerAssumption == Free \notin Proc /\ Dead \notin Proc /\ Free # Dead
ASSUME HazardsAssumption == Hazards \subseteq HazardKind

VARIABLES
    exists,     \* the shared memory file is there
    sized,      \* ftruncate has given it its length
    robust,     \* the mutex in it has been initialised (zero bytes until then)
    owner,      \* who holds the mutex
    pc          \* [p] where the process stands

shmVars == <<exists, sized, robust, owner>>
vars == <<shmVars, pc>>

CreatePc == {"creat", "trunc", "map_new", "minit", "map_old"}
\* Between a successful lock call and its unlock.
HoldPc == {"recover", "cs", "h_recover", "h_unlock"}
WaitPc == {"lock", "h_try", "h_busy", "h_timed", "h_init"}
HealthPc == {"h_try", "h_busy", "h_timed", "h_init", "h_recover", "h_unlock"}

PcValue == {"dead", "closed", "idle"} \union CreatePc \union HoldPc \union WaitPc

\* The state of the shared file and of every process has its type.
TypeOK ==
    /\ exists \in BOOLEAN /\ sized \in BOOLEAN /\ robust \in BOOLEAN
    /\ owner \in Proc \union {Free, Dead}
    /\ pc \in [Proc -> PcValue]

Init ==
    /\ exists = FALSE /\ sized = FALSE /\ robust = FALSE
    /\ owner = Free
    /\ pc = [p \in Proc |-> "closed"]

Goto(p, from, to) == pc[p] = from /\ pc' = [pc EXCEPT ![p] = to]

-----------------------------------------------------------------------------
(* vtpCreateLockShm *)

\* shm_open without O_CREAT.  Without "race", a process that finds the file
\* missing or half made does not run beside the one that makes it.
OpenExisting(p) ==
    /\ "race" \in Hazards \/ \A q \in Proc : pc[q] \notin CreatePc
    /\ Goto(p, "closed", IF exists THEN "map_old" ELSE "creat")
    /\ UNCHANGED shmVars

\* shm_open with O_CREAT, but not O_EXCL.
Create(p) ==
    /\ Goto(p, "creat", "trunc")
    /\ exists' = TRUE
    /\ UNCHANGED <<sized, robust, owner>>

Truncate(p) ==
    /\ Goto(p, "trunc", "map_new")
    /\ sized' = TRUE
    /\ UNCHANGED <<exists, robust, owner>>

MapNew(p) ==
    /\ Goto(p, "map_new", "minit")
    /\ UNCHANGED shmVars

\* Mutant: PTHREAD_MUTEX_ROBUST_NP is not set.
PlainMutexInit == robust' = FALSE /\ owner' = Free

\* vtpMutexInit: whoever held the mutex no longer does.
MutexInit == robust' = TRUE /\ owner' = Free

\* Mutant: the creator ends in a state vtpOpen does not know.
InitNewFails(p) ==
    /\ Goto(p, "minit", "failed")
    /\ MutexInit
    /\ UNCHANGED <<exists, sized>>

InitNew(p) ==
    /\ Goto(p, "minit", "idle")
    /\ MutexInit
    /\ UNCHANGED <<exists, sized>>

\* Mutant: whoever maps the file initialises the mutex.
MapOldInits(p) ==
    /\ Goto(p, "map_old", IF sized THEN "idle" ELSE "dead")
    /\ MutexInit
    /\ UNCHANGED <<exists, sized>>

\* p_sync is set before shmSize is compared, and vtpOpen ignores the result of
\* the comparison: the process goes on with the mutex as it is.  In a file
\* that has no length yet, reading shmSize kills the process.
MapOld(p) ==
    /\ Goto(p, "map_old", IF sized THEN "idle" ELSE "dead")
    /\ UNCHANGED shmVars

\* vtpKillLockShm(0), from vtpClose: the file stays.
KillLockShm(p) ==
    /\ Goto(p, "idle", "closed")
    /\ UNCHANGED shmVars

-----------------------------------------------------------------------------
(* vtpLock and vtpUnlock *)

Busy == owner \in Proc \/ (owner = Dead /\ ~robust)

CallLock(p) ==
    /\ Goto(p, "idle", "lock")
    /\ UNCHANGED shmVars

\* A lock call that succeeds at once, or with EOWNERDEAD.
TakeFree(p, from, to) ==
    /\ owner = Free
    /\ Goto(p, from, to)
    /\ owner' = p
    /\ UNCHANGED <<exists, sized, robust>>

TakeDead(p, from, to) ==
    /\ owner = Dead /\ robust
    /\ Goto(p, from, to)
    /\ owner' = p
    /\ UNCHANGED <<exists, sized, robust>>

\* pthread_mutex_consistent_np, after which vtpLock returns OK.
Consistent(p, from, to) ==
    /\ Goto(p, from, to)
    /\ UNCHANGED shmVars

\* Mutant: the mutex does not ask who unlocks it.
ReleaseAnyone(p) == owner' = Free

\* A robust mutex answers EPERM to all but its owner; a mutex of zero bytes is
\* of the default kind, which does not ask.
Release(p) == owner' = IF owner = p \/ ~robust THEN Free ELSE owner

Lock(p) ==
    \/ TakeFree(p, "lock", "cs")
    \/ TakeDead(p, "lock", "recover")
    \/ Consistent(p, "recover", "cs")

\* Mutant: a function returns without VUNLOCK.
UnlockForgotten(p) ==
    /\ Goto(p, "cs", "idle")
    /\ UNCHANGED shmVars

Unlock(p) ==
    /\ Goto(p, "cs", "idle")
    /\ Release(p)
    /\ UNCHANGED <<exists, sized, robust>>

\* The error paths of vtpZ7CfgLoad unlock what they have not locked.
SpareUnlock(p) ==
    /\ pc[p] = "idle"
    /\ Release(p)
    /\ UNCHANGED <<exists, sized, robust, pc>>

-----------------------------------------------------------------------------
(* vtpCheckMutexHealth *)

CallHealth(p) ==
    /\ Goto(p, "idle", "h_try")
    /\ UNCHANGED shmVars

HealthBusy(p) ==
    /\ Busy
    /\ Goto(p, "h_try", "h_busy")
    /\ UNCHANGED shmVars

\* "Check to see if we can unlock it": EPERM leads to the timed lock.
HealthUnlock(p) ==
    /\ Goto(p, "h_busy", IF owner = p \/ ~robust THEN "idle" ELSE "h_timed")
    /\ Release(p)
    /\ UNCHANGED <<exists, sized, robust>>

\* Mutant: the check waits again.
HealthWaitsAgain(p) ==
    /\ "slow" \in Hazards /\ Busy
    /\ Goto(p, "h_timed", "h_timed")
    /\ UNCHANGED shmVars

HealthTimeout(p) ==
    /\ "slow" \in Hazards /\ Busy
    /\ Goto(p, "h_timed", "h_init")
    /\ UNCHANGED shmVars

\* After ETIMEDOUT the mutex is initialised again, whoever has it by now.
HealthReinit(p) ==
    /\ Goto(p, "h_init", "idle")
    /\ MutexInit
    /\ UNCHANGED <<exists, sized>>

\* Mutant: the check keeps what it locked.
HealthKeeps(p) ==
    /\ Goto(p, "h_unlock", "idle")
    /\ UNCHANGED shmVars

HealthRelease(p) ==
    /\ Goto(p, "h_unlock", "idle")
    /\ Release(p)
    /\ UNCHANGED <<exists, sized, robust>>

Health(p) ==
    \/ TakeFree(p, "h_try", "h_unlock") \/ TakeFree(p, "h_timed", "h_unlock")
    \/ TakeDead(p, "h_try", "h_recover") \/ TakeDead(p, "h_timed", "h_recover")
    \/ Consistent(p, "h_recover", "h_unlock")
    \/ HealthBusy(p) \/ HealthUnlock(p) \/ HealthTimeout(p)
    \/ HealthReinit(p) \/ HealthRelease(p)

-----------------------------------------------------------------------------
(* Processes that die and start again *)

Die(p) ==
    /\ pc[p] \notin {"dead", "closed"}
    /\ "torn" \in Hazards \/ pc[p] \notin CreatePc
    /\ pc' = [pc EXCEPT ![p] = "dead"]
    /\ owner' = IF owner = p THEN Dead ELSE owner
    /\ UNCHANGED <<exists, sized, robust>>

Start(p) ==
    /\ Goto(p, "dead", "closed")
    /\ UNCHANGED shmVars

CreateLockShm(p) == OpenExisting(p) \/ Create(p) \/ Truncate(p) \/ MapNew(p) \/ InitNew(p) \/ MapOld(p)

Step(p) ==
    \/ CreateLockShm(p) \/ KillLockShm(p)
    \/ CallLock(p) \/ Lock(p) \/ Unlock(p) \/ SpareUnlock(p)
    \/ CallHealth(p) \/ Health(p)
    \/ Die(p) \/ Start(p)

Next == \E p \in Proc : Step(p)

Spec == Init /\ [][Next]_vars

\* A process in a lock call or holding the lock runs on, and one that holds it
\* gives it back; nothing makes a process start, call, close or die.
Fairness == \A p \in Proc : WF_vars(Lock(p)) /\ WF_vars(Unlock(p)) /\ WF_vars(Health(p))

FairSpec == Spec /\ Fairness

-----------------------------------------------------------------------------
(* Properties *)

Using == {p \in Proc : pc[p] \in HoldPc}

\* No two processes are between a lock call that succeeded and their unlock.
MutualExclusion == \A p, q \in Using : p = q

\* Whoever believes it holds the mutex is its owner, and the other way round:
\* no call releases or initialises the mutex under its holder, none leaves it
\* taken behind.
HolderOwns == \A p \in Proc : pc[p] \in HoldPc <=> owner = p

Abstract == INSTANCE SharedLock WITH using <- Using, stale <- owner = Dead

\* The mutex implements the lock of SharedLock.
ImplementsSharedLock == Abstract!Spec

\* A mutex that nobody alive holds is not lost: as long as a process waits for
\* it in vtpLock, somebody takes it, whoever died with it before.
LockProgress ==
    \A p \in Proc : (pc[p] = "lock" /\ owner \notin Proc) ~> (owner \in Proc \/ pc[p] # "lock")

\* Whatever the schedule does, no living process owns the mutex without knowing:
\* nobody waits for a holder that will never unlock.
NoLeak == \A p \in Proc : owner = p => pc[p] \in HoldPc

\* Whatever the schedule does, vtpCheckMutexHealth returns.
HealthEnds == \A p \in Proc : pc[p] \in HealthPc ~> pc[p] \notin HealthPc

\* "If the mutex is found to be stale (Owner of the lock has died), it will be
\* recovered": the health check takes the mutex away from nobody who lives.
HealthSparesLiving ==
    [][ \A p, q \in Proc :
          pc[p] \in HealthPc /\ pc'[p] # pc[p] /\ q # p /\ owner = q /\ pc[q] \in HoldPc
              => owner' = q ]_vars
=============================================================================
