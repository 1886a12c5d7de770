---------------------------- MODULE VtpShm_proofs ----------------------------
(***************************************************************************)
(* Proofs about VtpShm, for every set of processes.                        *)
(*                                                                         *)
(* NoLeak needs no assumption about the schedule.  MutualExclusion and     *)
(* HolderOwns hold when the file is created once, before anyone uses it,   *)
(* and no holder outlasts a health check: Hazards = {}.                    *)
(***************************************************************************)
EXTENDS VtpShm, TLAPS

-----------------------------------------------------------------------------
(* Type correctness and NoLeak *)

LEMMA InitTypeOK == Init => TypeOK
BY OwnerAssumption DEF Init, TypeOK, PcValue

LEMMA NextTypeOK == TypeOK /\ [Next]_vars => TypeOK'
<1> SUFFICES ASSUME TypeOK, [Next]_vars PROVE TypeOK'
  OBVIOUS
<1> USE OwnerAssumption DEF TypeOK, PcValue, CreatePc, HoldPc, WaitPc, Goto, shmVars
<1>1. CASE UNCHANGED vars
  BY <1>1 DEF vars
<1>2. ASSUME NEW p \in Proc, Step(p) PROVE TypeOK'
  <2>1. CASE CreateLockShm(p) \/ KillLockShm(p)
    BY <2>1 DEF CreateLockShm, OpenExisting, Create, Truncate, MapNew, InitNew, MapOld,
                KillLockShm, MutexInit
  <2>2. CASE CallLock(p) \/ Lock(p) \/ Unlock(p) \/ SpareUnlock(p)
    BY <2>2 DEF CallLock, Lock, TakeFree, TakeDead, Consistent, Unlock, SpareUnlock, Release
  <2>3. CASE CallHealth(p) \/ Health(p)
    BY <2>3 DEF CallHealth, Health, TakeFree, TakeDead, Consistent, HealthBusy, HealthUnlock,
                HealthTimeout, HealthReinit, HealthRelease, Release, MutexInit
  <2>4. CASE Die(p) \/ Start(p)
    BY <2>4 DEF Die, Start
  <2> QED BY <1>2, <2>1, <2>2, <2>3, <2>4 DEF Step
<1> QED BY <1>1, <1>2 DEF Next

\* In every behaviour, whatever the schedule, the state has its type
\* (vtpCreateLockShm to vtpCheckMutexHealth).
THEOREM TypeCorrect == Spec => []TypeOK
<1>1. Init => TypeOK
  BY InitTypeOK
<1>2. TypeOK /\ [Next]_vars => TypeOK'
  BY NextTypeOK
<1> QED BY <1>1, <1>2, PTL DEF Spec

LEMMA InitNoLeak == Init => NoLeak
BY OwnerAssumption DEF Init, NoLeak

LEMMA NextNoLeak == TypeOK /\ NoLeak /\ [Next]_vars => NoLeak'
<1> SUFFICES ASSUME TypeOK, NoLeak, [Next]_vars PROVE NoLeak'
  OBVIOUS
<1> USE OwnerAssumption DEF TypeOK, NoLeak, CreatePc, HoldPc, Goto, shmVars
<1>1. CASE UNCHANGED vars
  BY <1>1 DEF vars
<1>2. ASSUME NEW p \in Proc, Step(p) PROVE NoLeak'
  <2>1. CASE CreateLockShm(p) \/ KillLockShm(p)
    BY <2>1 DEF CreateLockShm, OpenExisting, Create, Truncate, MapNew, InitNew, MapOld,
                KillLockShm, MutexInit
  <2>2. CASE CallLock(p) \/ Lock(p) \/ Unlock(p) \/ SpareUnlock(p)
    BY <2>2 DEF CallLock, Lock, TakeFree, TakeDead, Consistent, Unlock, SpareUnlock, Release
  <2>3. CASE CallHealth(p) \/ Health(p)
    BY <2>3 DEF CallHealth, Health, TakeFree, TakeDead, Consistent, HealthBusy, HealthUnlock,
                HealthTimeout, HealthReinit, HealthRelease, Release, MutexInit
  <2>4. CASE Die(p) \/ Start(p)
    BY <2>4 DEF Die, Start
  <2> QED BY <1>2, <2>1, <2>2, <2>3, <2>4 DEF Step
<1> QED BY <1>1, <1>2 DEF Next

\* Whatever the schedule, no living process owns the mutex without standing
\* between a lock call and its unlock (vtpLock, vtpUnlock, vtpCheckMutexHealth).
THEOREM NeverLeaked == Spec => []NoLeak
<1>1. Init => TypeOK /\ NoLeak
  BY InitTypeOK, InitNoLeak
<1>2. (TypeOK /\ NoLeak) /\ [Next]_vars => (TypeOK /\ NoLeak)'
  BY NextTypeOK, NextNoLeak
<1> QED BY <1>1, <1>2, PTL DEF Spec

-----------------------------------------------------------------------------
(* Mutual exclusion *)

\* The steps of vtpCreateLockShm that only the creator of the file takes.
MakePc == {"trunc", "map_new", "minit"}

\* At most one process is in vtpCreateLockShm.
OneCreator == \A p, q \in Proc : pc[p] \in CreatePc /\ pc[q] \in CreatePc => p = q

\* The mutex is initialised once, by the process that made the file, before
\* any process can lock it.
InitialisedOnce ==
    /\ ~exists => ~robust
    /\ ~robust => owner = Free
    /\ exists => robust \/ \E p \in Proc : pc[p] \in MakePc
    /\ robust => sized
    /\ \A p \in Proc :
          /\ pc[p] = "creat" => ~exists
          /\ pc[p] \in MakePc => exists /\ ~robust
          /\ pc[p] \in {"map_new", "minit"} => sized
          /\ pc[p] = "map_old" => robust
          /\ pc[p] \notin CreatePc \union {"closed", "dead"} => robust

\* No health check initialises the mutex again.
NeverReinit == \A p \in Proc : pc[p] # "h_init"

IInv == TypeOK /\ OneCreator /\ InitialisedOnce /\ NeverReinit /\ HolderOwns

LEMMA InitIInv == Init => IInv
BY InitTypeOK, OwnerAssumption
   DEF Init, IInv, OneCreator, InitialisedOnce, NeverReinit, HolderOwns, CreatePc, HoldPc, MakePc

LEMMA NextIInv == ASSUME Hazards = {} PROVE IInv /\ [Next]_vars => IInv'
<1> SUFFICES ASSUME IInv, [Next]_vars PROVE IInv'
  OBVIOUS
<1> USE OwnerAssumption
        DEF IInv, OneCreator, InitialisedOnce, NeverReinit, HolderOwns, CreatePc, HoldPc, MakePc
<1>1. TypeOK'
  BY NextTypeOK
<1>2. CASE UNCHANGED vars
  BY <1>1, <1>2 DEF vars, shmVars
<1>3. ASSUME NEW p \in Proc, Step(p) PROVE IInv'
  <2> USE DEF TypeOK, Goto, shmVars
  <2>1. CASE OpenExisting(p)
    BY <1>1, <2>1 DEF OpenExisting
  <2>2. CASE Create(p)
    BY <1>1, <2>2 DEF Create
  <2>3. CASE Truncate(p)
    BY <1>1, <2>3 DEF Truncate
  <2>4. CASE MapNew(p)
    BY <1>1, <2>4 DEF MapNew
  <2>5. CASE InitNew(p)
    BY <1>1, <2>5 DEF InitNew, MutexInit
  <2>6. CASE MapOld(p)
    BY <1>1, <2>6 DEF MapOld
  <2>7. CASE KillLockShm(p) \/ CallLock(p) \/ CallHealth(p) \/ Start(p)
    BY <1>1, <2>7 DEF KillLockShm, CallLock, CallHealth, Start
  <2>8. CASE Lock(p)
    BY <1>1, <2>8 DEF Lock, TakeFree, TakeDead, Consistent
  <2>9. CASE Unlock(p) \/ SpareUnlock(p)
    BY <1>1, <2>9 DEF Unlock, SpareUnlock, Release
  <2>10. CASE Health(p)
    BY <1>1, <2>10 DEF Health, TakeFree, TakeDead, Consistent, HealthBusy, HealthUnlock,
                       HealthTimeout, HealthReinit, HealthRelease, Release
  <2>11. CASE Die(p)
    BY <1>1, <2>11 DEF Die
  <2> QED BY <1>3, <2>1, <2>2, <2>3, <2>4, <2>5, <2>6, <2>7, <2>8, <2>9, <2>10, <2>11
          DEF Step, CreateLockShm
<1> QED BY <1>2, <1>3 DEF Next

\* When the file is created alone and no holder outlasts a health check, a
\* process between a lock call and its unlock owns the mutex, and nobody else
\* does (vtpLock, vtpUnlock, vtpCheckMutexHealth).
THEOREM HolderOwnsCorrect == ASSUME Hazards = {} PROVE Spec => []HolderOwns
<1>1. Init => IInv
  BY InitIInv
<1>2. IInv /\ [Next]_vars => IInv'
  BY NextIInv
<1>3. IInv => HolderOwns
  BY DEF IInv
<1> QED BY <1>1, <1>2, <1>3, PTL DEF Spec

\* Under the same assumption no two processes hold the lock at once.
THEOREM MutualExclusionCorrect == ASSUME Hazards = {} PROVE Spec => []MutualExclusion
<1>1. HolderOwns => MutualExclusion
  BY DEF HolderOwns, MutualExclusion, Using
<1> QED BY <1>1, HolderOwnsCorrect, PTL

-----------------------------------------------------------------------------
(* Refinement of SharedLock *)

\* Under HolderOwns the abstract holder is the owner, if it is a process.
LEMMA UsingOwner ==
    ASSUME HolderOwns PROVE Using = {p \in Proc : owner = p}
BY DEF HolderOwns, Using

LEMMA InitAbstract == Init => Abstract!Init
BY OwnerAssumption DEF Init, Abstract!Init, Using, HoldPc

LEMMA NextAbstract ==
    ASSUME Hazards = {} PROVE IInv /\ [Next]_vars => [Abstract!Next]_<<Using, owner = Dead>>
<1> SUFFICES ASSUME IInv, [Next]_vars PROVE [Abstract!Next]_<<Using, owner = Dead>>
  OBVIOUS
<1>1. /\ Using = {p \in Proc : owner = p}
      /\ Using' = {p \in Proc : owner' = p}
  <2>1. HolderOwns /\ HolderOwns'
    BY NextIInv DEF IInv
  <2> QED BY <2>1, UsingOwner DEF HolderOwns, Using
<1>2. CASE owner' = owner
  BY <1>1, <1>2
<1>3. ASSUME NEW p \in Proc, Step(p), owner' # owner PROVE Abstract!Next
  <2> USE OwnerAssumption DEF IInv, Goto, shmVars, Abstract!Next
  <2>1. CASE InitNew(p) \/ HealthReinit(p)
    BY <1>3, <2>1 DEF InitNew, MutexInit, HealthReinit, InitialisedOnce, NeverReinit, MakePc
  <2>2. CASE owner' = p
    <3>1. owner \in {Free, Dead}
      BY <1>3, <2>2 DEF Step, CreateLockShm, OpenExisting, Create, Truncate, MapNew, InitNew,
             MapOld, MutexInit, KillLockShm, CallLock, Lock, TakeFree, TakeDead, Consistent,
             Unlock, SpareUnlock, Release, CallHealth, Health, HealthBusy, HealthUnlock,
             HealthTimeout, HealthReinit, HealthRelease, Die, Start
    <3>2. Abstract!Take(p)
      BY <1>1, <2>2, <3>1 DEF Abstract!Take
    <3> QED BY <3>2
  <2>3. CASE owner = p /\ owner' = Free
    <3>1. Abstract!GiveBack(p)
      BY <1>1, <2>3 DEF Abstract!GiveBack
    <3> QED BY <3>1
  <2>4. CASE owner = p /\ owner' = Dead
    <3>1. Abstract!DieHolding(p)
      BY <1>1, <2>4 DEF Abstract!DieHolding
    <3> QED BY <3>1
  <2>5. \/ InitNew(p) \/ HealthReinit(p)
        \/ owner' = p
        \/ owner = p /\ owner' \in {Free, Dead}
    <3>1. SpareUnlock(p) \/ Unlock(p) \/ HealthUnlock(p) \/ HealthRelease(p)
             => robust
      BY DEF SpareUnlock, Unlock, HealthUnlock, HealthRelease, InitialisedOnce, CreatePc
    <3> QED BY <1>3, <3>1 DEF Step, CreateLockShm, OpenExisting, Create, Truncate, MapNew,
             MapOld, KillLockShm, CallLock, Lock, TakeFree, TakeDead, Consistent,
             Unlock, SpareUnlock, Release, CallHealth, Health, HealthBusy, HealthUnlock,
             HealthTimeout, HealthRelease, Die, Start
  <2> QED BY <2>1, <2>2, <2>3, <2>4, <2>5
<1> QED BY <1>2, <1>3 DEF Next, vars, shmVars

\* Under the same assumption the mutex implements SharedLock: it is taken when
\* nobody has it, given back by who has it, and stale when who has it died.
THEOREM SharedLockImplemented == ASSUME Hazards = {} PROVE Spec => ImplementsSharedLock
<1>1. Init => IInv
  BY InitIInv
<1>2. IInv /\ [Next]_vars => IInv'
  BY NextIInv
<1>3. Init => Abstract!Init
  BY InitAbstract
<1>4. IInv /\ [Next]_vars => [Abstract!Next]_<<Using, owner = Dead>>
  BY NextAbstract
<1> QED BY <1>1, <1>2, <1>3, <1>4, PTL
        DEF Spec, ImplementsSharedLock, Abstract!Spec, Abstract!vars
=============================================================================
