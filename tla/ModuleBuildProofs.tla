------------------------- MODULE ModuleBuildProofs -------------------------
(* The module build as a client of LockFileManager, and what its importers *)
(* can count on, for every set of processes, configurations and crashes.   *)
EXTENDS ModuleBuild, LockFileManagerProofs

(* Every step of a module build is a step of the lock manager's client or  *)
(* leaves the lock manager alone.                                          *)
LEMMA BuildStepImplements == [BuildNext]_buildVars => [Next]_lfmVars
<1> SUFFICES ASSUME [BuildNext]_buildVars PROVE [Next]_lfmVars
  OBVIOUS
<1>1. CASE UNCHANGED buildVars
  BY <1>1 DEF buildVars
<1>2. ASSUME NEW p \in Procs, StartBuild(p) \/ CrashBuild(p) \/ ExitBuild(p)
      PROVE  Next
  BY <1>2 DEF StartBuild, CrashBuild, ExitBuild, Next
<1>3. ASSUME NEW p \in Procs,
             \/ Acquire(p) \/ InManager(p) \/ WaitForBuild(p)
             \/ BuildUnlocked(p) \/ LeaveScope(p)
      PROVE  Next
  BY <1>3 DEF Acquire, InManager, WaitForBuild, BuildUnlocked, LeaveScope, Next,
              Calls
<1>4. ASSUME NEW p \in Procs,
             Probe(p) \/ BuildLocked(p) \/ Build(p) \/ ReadBuilt(p)
      PROVE  UNCHANGED lfmVars
  BY <1>4 DEF Probe, BuildLocked, Build, ReadBuilt
<1>5. ASSUME NEW p \in Procs, Commit(p) \/ AfterWait(p)
      PROVE  Next \/ UNCHANGED lfmVars
  BY <1>5 DEF Commit, AfterWait, Next, Calls
<1> QED
  BY <1>1, <1>2, <1>3, <1>4, <1>5 DEF BuildNext, Work

(* Clang's module build is a client of the lock manager: each of its       *)
(* behaviours is one of Spec's, so what is proved of Spec holds of it.     *)
THEOREM BuildImplementsSpec == BuildSpec => Spec
<1>1. BuildInit => Init
  BY DEF BuildInit
<1> QED
  BY <1>1, BuildStepImplements, PTL DEF BuildSpec, Spec

(* A compiler that was not killed leaves no lock file and no temporary     *)
(* lock file in the module cache.                                          *)
THEOREM BuildLeavesNoLock == BuildSpec => [](NoOrphanLock /\ NoTempLeak)
BY BuildImplementsSpec, NoLockLeftBehind, NoTempLeftBehind, PTL

-----------------------------------------------------------------------------
(* The client and its lock manager agree on where they are.                *)
InStep(p) ==
  /\ step[p] \in {"build", "commit", "read", "leave"}
       => pc[p] \in {"made"} \cup WaitResults
  /\ step[p] \in {"build", "commit"} => GetState(p) # "LFS_Shared"

(* A waiter told Res_Success has a file to read, for good.                 *)
SomethingToRead(p) ==
  /\ pc[p] = "Res_Success" => file # NoFile
  /\ step[p] = "read" /\ GetState(p) = "LFS_Shared" => file # NoFile
  /\ step[p] = "leave" /\ result[p] = "notRead" => GetState(p) # "LFS_Shared"

(* Without errors a manager is in no error state and a build commits, so   *)
(* that whoever reads without having waited reads its own copy.            *)
NoError(p) ==
  ~IOErrors /\ ~BuildErrors =>
    /\ ~failed[p]
    /\ step[p] = "read" => GetState(p) = "LFS_Shared" \/ p \in committed
    /\ result[p] \notin {"notBuilt", "notRead"}

BInv == /\ IInv
        /\ BuildTypeOK
        /\ CommittedStays
        /\ \A p \in Procs : InStep(p) /\ SomethingToRead(p) /\ NoError(p)

(* The client's invariant holds before any compilation starts.             *)
LEMMA InitBInv == BuildInit => BInv
<1> SUFFICES ASSUME BuildInit PROVE BInv
  OBVIOUS
<1>1. IInv
  BY InitIInv DEF BuildInit
<1>2. BuildTypeOK
  BY <1>1 DEF IInv, BuildTypeOK, BuildInit, Steps, Results
<1> QED
  BY <1>1, <1>2 DEF BInv, BuildInit, Init, CommittedStays, InStep,
                    SomethingToRead, NoError, WaitResults, GetState

(* A stuttering step keeps the client's invariant.                         *)
LEMMA StutterBInv == BInv /\ UNCHANGED buildVars => BInv'
<1> SUFFICES ASSUME BInv, UNCHANGED buildVars PROVE BInv'
  OBVIOUS
<1>1. IInv'
  BY StutterIInv DEF BInv, buildVars
<1> QED
  BY <1>1 DEF BInv, BuildTypeOK, TypeOK, CommittedStays, InStep,
              SomethingToRead, NoError, GetState, buildVars, lfmVars, client

(* A step of the build keeps the lock manager's invariant.                 *)
LEMMA StepKeepsIInv == BInv /\ [BuildNext]_buildVars => IInv'
BY StepIInv, BuildStepImplements DEF BInv

(* What a step inside the lock manager leaves alone, and what it cannot do *)
(* to the process that takes it.                                           *)
LEMMA InternalEffect ==
  ASSUME TypeOK, NEW p \in Procs, Internal(p)
  PROVE  /\ UNCHANGED <<life, file>>
         /\ pc[p] \notin {"made"} \cup WaitResults
         /\ \A q \in Procs : q # p => /\ pc'[q] = pc[q]
                                      /\ owner'[q] = owner[q]
                                      /\ failed'[q] = failed[q]
         /\ ~IOErrors /\ ~failed[p] => ~failed'[p]
         /\ pc'[p] = "Res_Success" => file # NoFile
<1> USE DEF TypeOK, Goto, At, SetError, disk, WaitResults
<1>1. CASE OpenLockFile(p)
  BY <1>1 DEF OpenLockFile
<1>2. CASE CheckOwner(p)
  BY <1>2 DEF CheckOwner
<1>3. CASE RemoveInvalid(p)
  BY <1>3 DEF RemoveInvalid
<1>4. CASE CreateTemp(p)
  BY <1>4 DEF CreateTemp
<1>5. CASE WriteTemp(p)
  BY <1>5 DEF WriteTemp
<1>6. CASE Link(p)
  BY <1>6 DEF Link
<1>7. CASE CheckExists(p)
  BY <1>7 DEF CheckExists
<1>8. CASE RemoveUnowned(p)
  BY <1>8 DEF RemoveUnowned
<1>9. CASE DiscardTemp(p)
  BY <1>9 DEF DiscardTemp
<1>10. CASE WakeUp(p)
  BY <1>10 DEF WakeUp
<1>11. CASE CheckPresent(p)
  BY <1>11 DEF CheckPresent
<1>12. CASE CheckAlive(p)
  BY <1>12 DEF CheckAlive
<1>13. CASE DropLock(p)
  BY <1>13 DEF DropLock
<1>14. CASE DropTemp(p)
  BY <1>14 DEF DropTemp
<1> QED
  BY <1>1, <1>2, <1>3, <1>4, <1>5, <1>6, <1>7, <1>8, <1>9, <1>10, <1>11, <1>12, <1>13, <1>14
     DEF Internal

(* Every step keeps the client in step with its lock manager.              *)
LEMMA InStepStep == BInv /\ BuildNext => \A q \in Procs : InStep(q)'
<1> SUFFICES ASSUME BInv, NEW p \in Procs, NEW q \in Procs,
                    StartBuild(p) \/ CrashBuild(p) \/ Work(p)
             PROVE  InStep(q)'
  BY DEF BuildNext
<1> USE NoFileAssumption, ContentsAssumption, StaleAssumption
    DEF InStep, In, Continue, At, Goto, GetState, SetError, WaitResults,
        lfmVars, client, disk, Owns
<1>0. BuildTypeOK /\ InStep(p) /\ InStep(q)
  BY DEF BInv
<1> USE DEF BuildTypeOK, TypeOK
<1>1. CASE StartBuild(p)
  BY <1>0, <1>1 DEF StartBuild, Start
<1>2. CASE CrashBuild(p)
  BY <1>0, <1>2 DEF CrashBuild, Crash
<1>3. CASE Probe(p)
  BY <1>0, <1>3 DEF Probe
<1>4. CASE Acquire(p)
  BY <1>0, <1>4 DEF Acquire, Construct
<1>5. CASE InManager(p)
  BY <1>0, <1>5, InternalEffect DEF InManager
<1>6. CASE WaitForBuild(p)
  BY <1>0, <1>6 DEF WaitForBuild, WaitForUnlock
<1>7. CASE BuildUnlocked(p)
  BY <1>0, <1>7 DEF BuildUnlocked, UnsafeRemoveLockFile
<1>8. CASE BuildLocked(p)
  BY <1>0, <1>8 DEF BuildLocked, Owns
<1>9. CASE Build(p)
  BY <1>0, <1>9 DEF Build
<1>10. CASE Commit(p)
  BY <1>0, <1>10 DEF Commit, WriteFile
<1>11. CASE AfterWait(p)
  BY <1>0, <1>11 DEF AfterWait, UnsafeRemoveLockFile
<1>12. CASE ReadBuilt(p)
  BY <1>0, <1>12 DEF ReadBuilt
<1>13. CASE LeaveScope(p)
  BY <1>0, <1>13 DEF LeaveScope, Destroy
<1>14. CASE ExitBuild(p)
  BY <1>0, <1>14 DEF ExitBuild, Exit
<1> QED
  BY <1>1, <1>2, <1>3, <1>4, <1>5, <1>6, <1>7, <1>8, <1>9, <1>10, <1>11,
     <1>12, <1>13, <1>14 DEF Work

(* Every step keeps something to read for the waiters.                     *)
LEMMA ReadStep == BInv /\ BuildNext => \A q \in Procs : SomethingToRead(q)'
<1> SUFFICES ASSUME BInv, NEW p \in Procs, NEW q \in Procs,
                    StartBuild(p) \/ CrashBuild(p) \/ Work(p)
             PROVE  SomethingToRead(q)'
  BY DEF BuildNext
<1> USE NoFileAssumption, ContentsAssumption, StaleAssumption
    DEF SomethingToRead, InStep, In, Continue, At, Goto, GetState, SetError,
        WaitResults, lfmVars, client, disk, Owns, ReadAST
<1>0. BuildTypeOK /\ InStep(p) /\ SomethingToRead(p) /\ SomethingToRead(q)
  BY DEF BInv
<1> USE DEF BuildTypeOK, TypeOK
<1>1. CASE StartBuild(p)
  BY <1>0, <1>1 DEF StartBuild, Start
<1>2. CASE CrashBuild(p)
  BY <1>0, <1>2 DEF CrashBuild, Crash
<1>3. CASE Probe(p)
  BY <1>0, <1>3 DEF Probe
<1>4. CASE Acquire(p)
  BY <1>0, <1>4 DEF Acquire, Construct
<1>5. CASE InManager(p)
  BY <1>0, <1>5, InternalEffect DEF InManager
<1>6. CASE WaitForBuild(p)
  BY <1>0, <1>6 DEF WaitForBuild, WaitForUnlock
<1>7. CASE BuildUnlocked(p)
  BY <1>0, <1>7 DEF BuildUnlocked, UnsafeRemoveLockFile
<1>8. CASE BuildLocked(p)
  BY <1>0, <1>8 DEF BuildLocked, Owns
<1>9. CASE Build(p)
  BY <1>0, <1>9 DEF Build
<1>10. CASE Commit(p)
  BY <1>0, <1>10 DEF Commit, WriteFile
<1>11. CASE AfterWait(p)
  BY <1>0, <1>11 DEF AfterWait, UnsafeRemoveLockFile
<1>12. CASE ReadBuilt(p)
  BY <1>0, <1>12 DEF ReadBuilt
<1>13. CASE LeaveScope(p)
  BY <1>0, <1>13 DEF LeaveScope, Destroy
<1>14. CASE ExitBuild(p)
  BY <1>0, <1>14 DEF ExitBuild, Exit
<1> QED
  BY <1>1, <1>2, <1>3, <1>4, <1>5, <1>6, <1>7, <1>8, <1>9, <1>10, <1>11,
     <1>12, <1>13, <1>14 DEF Work

(* Without errors, every step keeps the managers and results free of them. *)
LEMMA NoErrorStep == BInv /\ BuildNext => \A q \in Procs : NoError(q)'
<1> SUFFICES ASSUME BInv, NEW p \in Procs, NEW q \in Procs,
                    StartBuild(p) \/ CrashBuild(p) \/ Work(p)
             PROVE  NoError(q)'
  BY DEF BuildNext
<1> USE NoFileAssumption, ContentsAssumption, StaleAssumption
    DEF NoError, CommittedStays, SomethingToRead, InStep, In, Continue, At, Goto,
        GetState, SetError, WaitResults, lfmVars, client, disk, Owns, ReadAST
<1>0. BuildTypeOK /\ CommittedStays /\ InStep(p) /\ SomethingToRead(p) /\ NoError(p)
     /\ NoError(q)
  BY DEF BInv
<1> USE DEF BuildTypeOK, TypeOK
<1>1. CASE StartBuild(p)
  BY <1>0, <1>1 DEF StartBuild, Start
<1>2. CASE CrashBuild(p)
  BY <1>0, <1>2 DEF CrashBuild, Crash
<1>3. CASE Probe(p)
  BY <1>0, <1>3 DEF Probe
<1>4. CASE Acquire(p)
  BY <1>0, <1>4 DEF Acquire, Construct
<1>5. CASE InManager(p)
  BY <1>0, <1>5, InternalEffect DEF InManager
<1>6. CASE WaitForBuild(p)
  BY <1>0, <1>6 DEF WaitForBuild, WaitForUnlock
<1>7. CASE BuildUnlocked(p)
  BY <1>0, <1>7 DEF BuildUnlocked, UnsafeRemoveLockFile
<1>8. CASE BuildLocked(p)
  BY <1>0, <1>8 DEF BuildLocked, Owns
<1>9. CASE Build(p)
  BY <1>0, <1>9 DEF Build
<1>10. CASE Commit(p)
  BY <1>0, <1>10 DEF Commit, WriteFile
<1>11. CASE AfterWait(p)
  <2>1. At(p, "Res_Success") => GetState(p) = "LFS_Shared"
    BY DEF BInv, IInv, Located
  <2> QED BY <1>0, <1>11, <2>1 DEF AfterWait, UnsafeRemoveLockFile
<1>12. CASE ReadBuilt(p)
  BY <1>0, <1>12 DEF ReadBuilt
<1>13. CASE LeaveScope(p)
  BY <1>0, <1>13 DEF LeaveScope, Destroy
<1>14. CASE ExitBuild(p)
  BY <1>0, <1>14 DEF ExitBuild, Exit
<1> QED
  BY <1>1, <1>2, <1>3, <1>4, <1>5, <1>6, <1>7, <1>8, <1>9, <1>10, <1>11,
     <1>12, <1>13, <1>14 DEF Work

(* A commit puts the committer's module in the cache, nothing else writes  *)
(* to it; and the client's own variables keep their types.                 *)
LEMMA CacheStep == BInv /\ BuildNext => BuildTypeOK' /\ CommittedStays'
<1> SUFFICES ASSUME BInv, BuildNext, NEW p \in Procs,
                    StartBuild(p) \/ CrashBuild(p) \/ Work(p)
             PROVE  BuildTypeOK' /\ CommittedStays'
  BY DEF BuildNext
<1>0. BuildTypeOK /\ CommittedStays /\ TypeOK'
  BY StepKeepsIInv DEF BInv, IInv
<1> USE <1>0 DEF BuildTypeOK, CommittedStays, Steps, Results, Continue, client,
                 lfmVars, disk
<1>1. CASE StartBuild(p) \/ CrashBuild(p) \/ ExitBuild(p) \/ Acquire(p)
           \/ WaitForBuild(p)
  BY <1>1 DEF StartBuild, Start, CrashBuild, Crash, ExitBuild, Exit, Acquire,
              Construct, WaitForBuild, WaitForUnlock
<1>2. CASE InManager(p)
  BY <1>2, InternalEffect DEF InManager
<1>3. CASE Probe(p) \/ BuildLocked(p) \/ Build(p) \/ ReadBuilt(p)
  BY <1>3 DEF Probe, BuildLocked, Build, ReadBuilt
<1>4. CASE BuildUnlocked(p) \/ AfterWait(p) \/ LeaveScope(p)
  BY <1>4 DEF BuildUnlocked, AfterWait, UnsafeRemoveLockFile, LeaveScope, Destroy
<1>5. CASE Commit(p)
  BY <1>5 DEF Commit
<1> QED
  BY <1>1, <1>2, <1>3, <1>4, <1>5 DEF Work

(* The client's invariant holds in every reachable state.                  *)
LEMMA BInvariant == BuildSpec => []BInv
<1>1. BInv /\ BuildNext => BInv'
  BY StepKeepsIInv, CacheStep, InStepStep, ReadStep, NoErrorStep DEF BInv
<1> QED
  BY <1>1, InitBInv, StutterBInv, PTL DEF BuildSpec

(* The cache only ever holds modules some compilation built, and each      *)
(* compilation's view of them keeps its type.                              *)
THEOREM BuildTypeCorrect == BuildSpec => []BuildTypeOK
<1>1. BInv => BuildTypeOK
  BY DEF BInv
<1> QED
  BY <1>1, BInvariant, PTL

(* No compilation fails to import a module that compiles, whatever the     *)
(* configurations and however the lock fares: stolen, timed out, its owner *)
(* killed.  The lock is not needed for this, as the comment in             *)
(* compileAndLoadModule says: renaming complete module files and reading   *)
(* one's own from the PCMCache is.                                         *)
THEOREM ImportsDoNotFail == BuildSpec => []NoSpuriousFailure
<1>1. BInv => NoSpuriousFailure
  BY DEF BInv, NoError, NoSpuriousFailure
<1> QED
  BY <1>1, BInvariant, PTL

(* A compilation that waited for another's build never reports that the    *)
(* result cannot be read, with build and I/O errors too.                   *)
THEOREM WaitersDoNotFail == BuildSpec => []WaiterNeverBlamed
<1>1. BInv => WaiterNeverBlamed
  BY DEF BInv, SomethingToRead, WaiterNeverBlamed
<1> QED
  BY <1>1, BInvariant, PTL

(* Once a module is committed the cache always holds a complete one.       *)
THEOREM CacheStaysFilled == BuildSpec => []CommittedStays
<1>1. BInv => CommittedStays
  BY DEF BInv
<1> QED
  BY <1>1, BInvariant, PTL
=============================================================================
