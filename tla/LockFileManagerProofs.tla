----------------------- MODULE LockFileManagerProofs -----------------------
(* Safety of LockFileManager for every set of processes and every client. *)
EXTENDS LockFileManager, TLAPS

(* What the members and the temporary file say at each label of p.         *)
Located(p) ==
  /\ life[p] = "off" => pc[p] = "none"
  /\ pc[p] \in {"check"} \cup Waiting \cup WaitResults => owner[p] # NoFile
  /\ pc[p] \in {"invalid", "create", "write", "link", "exists", "unowned"}
       => owner[p] = NoFile
  /\ pc[p] \in Constructing \ {"discard"} => ~failed[p]
  /\ pc[p] = "discard" => owner[p] # NoFile \/ failed[p]
  /\ pc[p] \in Waiting => polls[p] < MaxPolls
  /\ life[p] = "running" /\ pc[p] \in {"write", "link", "exists", "unowned"}
       => p \in tmp
  /\ Owns(p) => p \in tmp

IInv == /\ TypeOK
        /\ \A p \in Procs : Located(p)
        /\ NoOrphanLock
        /\ NoTempLeak

(* The invariant holds before any process starts.                          *)
LEMMA InitIInv == Init => IInv
BY NoFileAssumption, MaxPollsAssumption
   DEF Init, IInv, TypeOK, Located, NoOrphanLock, NoTempLeak, Owns, At, Labels,
       Constructing, Waiting, WaitResults, Destroying

(* A stuttering step keeps it.                                             *)
LEMMA StutterIInv == IInv /\ UNCHANGED lfmVars => IInv'
BY DEF IInv, TypeOK, Located, NoOrphanLock, NoTempLeak, Owns, At, GetState,
       lfmVars

(* Every step of every process keeps the types.                            *)
LEMMA TypeStep == IInv /\ Next => TypeOK'
<1> SUFFICES ASSUME IInv, NEW p \in Procs,
                    \/ Start(p) \/ Exit(p) \/ Crash(p) \/ Internal(p) \/ Calls(p)
             PROVE  TypeOK'
  BY DEF Next
<1> USE NoFileAssumption, MaxPollsAssumption
    DEF TypeOK, Goto, disk, At, Labels, Constructing, Waiting, WaitResults,
        Destroying, SetError
<1>0. TypeOK /\ Located(p)
  BY DEF IInv
<1>1. CASE Start(p) \/ Exit(p) \/ Crash(p)
  BY <1>0, <1>1 DEF Start, Exit, Crash
<1>2. CASE OpenLockFile(p) \/ CheckOwner(p) \/ RemoveInvalid(p)
  BY <1>0, <1>2 DEF OpenLockFile, CheckOwner, RemoveInvalid
<1>3. CASE CreateTemp(p) \/ WriteTemp(p) \/ Link(p)
  BY <1>0, <1>3 DEF CreateTemp, WriteTemp, Link
<1>4. CASE CheckExists(p) \/ RemoveUnowned(p) \/ DiscardTemp(p)
  BY <1>0, <1>4 DEF CheckExists, RemoveUnowned, DiscardTemp
<1>5. CASE WakeUp(p) \/ CheckPresent(p)
  BY <1>0, <1>5 DEF WakeUp, CheckPresent
<1>6. CASE CheckAlive(p)
  <2>1. polls[p] \in 0..MaxPolls /\ polls[p] < MaxPolls
    BY <1>0, <1>6 DEF CheckAlive, Located
  <2>2. polls[p] + 1 \in 0..MaxPolls
    BY <2>1
  <2> QED BY <1>0, <1>6, <2>2 DEF CheckAlive
<1>7. CASE DropLock(p) \/ DropTemp(p)
  BY <1>0, <1>7 DEF DropLock, DropTemp
<1>8. CASE Construct(p) \/ UnsafeRemoveLockFile(p) \/ WriteFile(p)
  BY <1>0, <1>8 DEF Construct, UnsafeRemoveLockFile, WriteFile
<1>9. CASE WaitForUnlock(p)
  <2>1. 0 \in 0..MaxPolls
    OBVIOUS
  <2> QED BY <1>0, <1>9, <2>1 DEF WaitForUnlock
<1>10. CASE Destroy(p)
  BY <1>0, <1>10 DEF Destroy
<1> QED
  BY <1>1, <1>2, <1>3, <1>4, <1>5, <1>6, <1>7, <1>8, <1>9, <1>10
     DEF Internal, Calls
(* Every step of a process keeps what is said of its own label and of the  *)
(* others'.                                                                *)
LEMMA LocatedStep == IInv /\ Next => \A q \in Procs : Located(q)'
<1> SUFFICES ASSUME IInv, NEW p \in Procs, NEW q \in Procs,
                    \/ Start(p) \/ Exit(p) \/ Crash(p) \/ Internal(p) \/ Calls(p)
             PROVE  Located(q)'
  BY DEF Next
<1> USE NoFileAssumption, MaxPollsAssumption
    DEF Located, Goto, disk, At, Owns, GetState, Constructing, Waiting,
        WaitResults
<1>0. TypeOK /\ Located(p) /\ Located(q)
  BY DEF IInv
<1> USE DEF TypeOK, Labels, Destroying
<1>1. CASE Start(p)
  BY <1>0, <1>1 DEF Start
<1>2. CASE Exit(p)
  BY <1>0, <1>2 DEF Exit
<1>3. CASE Crash(p)
  BY <1>0, <1>3 DEF Crash
<1>4. CASE Construct(p)
  BY <1>0, <1>4 DEF Construct
<1>5. CASE OpenLockFile(p)
  BY <1>0, <1>5 DEF OpenLockFile
<1>6. CASE CheckOwner(p)
  BY <1>0, <1>6 DEF CheckOwner
<1>7. CASE RemoveInvalid(p)
  BY <1>0, <1>7 DEF RemoveInvalid
<1>8. CASE CreateTemp(p)
  BY <1>0, <1>8 DEF CreateTemp, SetError
<1>9. CASE WriteTemp(p)
  BY <1>0, <1>9 DEF WriteTemp, SetError
<1>10. CASE Link(p)
  BY <1>0, <1>10 DEF Link, SetError
<1>11. CASE CheckExists(p)
  BY <1>0, <1>11 DEF CheckExists
<1>12. CASE RemoveUnowned(p)
  BY <1>0, <1>12 DEF RemoveUnowned, SetError
<1>13. CASE DiscardTemp(p)
  BY <1>0, <1>13 DEF DiscardTemp
<1>14. CASE WaitForUnlock(p)
  BY <1>0, <1>14 DEF WaitForUnlock
<1>15. CASE WakeUp(p)
  BY <1>0, <1>15 DEF WakeUp
<1>16. CASE CheckPresent(p)
  BY <1>0, <1>16 DEF CheckPresent
<1>17. CASE CheckAlive(p)
  BY <1>0, <1>17 DEF CheckAlive
<1>18. CASE UnsafeRemoveLockFile(p)
  BY <1>0, <1>18 DEF UnsafeRemoveLockFile
<1>19. CASE Destroy(p)
  BY <1>0, <1>19 DEF Destroy
<1>20. CASE DropLock(p)
  BY <1>0, <1>20 DEF DropLock
<1>21. CASE DropTemp(p)
  BY <1>0, <1>21 DEF DropTemp
<1>22. CASE WriteFile(p)
  BY <1>0, <1>22 DEF WriteFile
<1> QED
  BY <1>1, <1>2, <1>3, <1>4, <1>5, <1>6, <1>7, <1>8, <1>9, <1>10, <1>11, <1>12, <1>13, <1>14, <1>15, <1>16, <1>17, <1>18, <1>19, <1>20, <1>21, <1>22
     DEF Internal, Calls

(* Every step of a process keeps the lock file in its owner's hands.       *)
LEMMA OrphanStep == IInv /\ Next => NoOrphanLock'
<1> SUFFICES ASSUME IInv, NEW p \in Procs,
                    \/ Start(p) \/ Exit(p) \/ Crash(p) \/ Internal(p) \/ Calls(p)
             PROVE  NoOrphanLock'
  BY DEF Next
<1> USE NoFileAssumption
    DEF NoOrphanLock, Goto, disk, At, Owns, GetState
<1>0. TypeOK /\ Located(p) /\ NoOrphanLock
  BY DEF IInv
<1> USE DEF TypeOK, Located, Constructing, Waiting, WaitResults
<1>1. CASE Start(p)
  BY <1>0, <1>1 DEF Start
<1>2. CASE Exit(p)
  BY <1>0, <1>2 DEF Exit
<1>3. CASE Crash(p)
  BY <1>0, <1>3 DEF Crash
<1>4. CASE Construct(p)
  BY <1>0, <1>4 DEF Construct
<1>5. CASE OpenLockFile(p)
  BY <1>0, <1>5 DEF OpenLockFile
<1>6. CASE CheckOwner(p)
  BY <1>0, <1>6 DEF CheckOwner
<1>7. CASE RemoveInvalid(p)
  BY <1>0, <1>7 DEF RemoveInvalid
<1>8. CASE CreateTemp(p)
  BY <1>0, <1>8 DEF CreateTemp, SetError
<1>9. CASE WriteTemp(p)
  BY <1>0, <1>9 DEF WriteTemp, SetError
<1>10. CASE Link(p)
  BY <1>0, <1>10 DEF Link, SetError
<1>11. CASE CheckExists(p)
  BY <1>0, <1>11 DEF CheckExists
<1>12. CASE RemoveUnowned(p)
  BY <1>0, <1>12 DEF RemoveUnowned, SetError
<1>13. CASE DiscardTemp(p)
  BY <1>0, <1>13 DEF DiscardTemp
<1>14. CASE WaitForUnlock(p)
  BY <1>0, <1>14 DEF WaitForUnlock
<1>15. CASE WakeUp(p)
  BY <1>0, <1>15 DEF WakeUp
<1>16. CASE CheckPresent(p)
  BY <1>0, <1>16 DEF CheckPresent
<1>17. CASE CheckAlive(p)
  BY <1>0, <1>17 DEF CheckAlive
<1>18. CASE UnsafeRemoveLockFile(p)
  BY <1>0, <1>18 DEF UnsafeRemoveLockFile
<1>19. CASE Destroy(p)
  BY <1>0, <1>19 DEF Destroy
<1>20. CASE DropLock(p)
  BY <1>0, <1>20 DEF DropLock
<1>21. CASE DropTemp(p)
  BY <1>0, <1>21 DEF DropTemp
<1>22. CASE WriteFile(p)
  BY <1>0, <1>22 DEF WriteFile
<1> QED
  BY <1>1, <1>2, <1>3, <1>4, <1>5, <1>6, <1>7, <1>8, <1>9, <1>10, <1>11, <1>12, <1>13, <1>14, <1>15, <1>16, <1>17, <1>18, <1>19, <1>20, <1>21, <1>22
     DEF Internal, Calls

(* Every step of a process keeps track of its temporary file.              *)
LEMMA TempStep == IInv /\ Next => NoTempLeak'
<1> SUFFICES ASSUME IInv, NEW p \in Procs, NEW q \in tmp',
                    life'[q] # "crashed",
                    \/ Start(p) \/ Exit(p) \/ Crash(p) \/ Internal(p) \/ Calls(p)
             PROVE  \/ Owns(q)'
                    \/ \E label \in (Constructing \ {"create"}) \cup Destroying :
                          At(q, label)'
  BY DEF Next, NoTempLeak
<1> USE NoFileAssumption
    DEF NoTempLeak, Goto, disk, At, Owns, GetState, Constructing, Destroying
<1>0. TypeOK /\ Located(p) /\ NoTempLeak
  BY DEF IInv
<1> USE DEF TypeOK, Located, Waiting, WaitResults
<1>1. CASE Start(p)
  BY <1>0, <1>1 DEF Start
<1>2. CASE Exit(p)
  BY <1>0, <1>2 DEF Exit
<1>3. CASE Crash(p)
  BY <1>0, <1>3 DEF Crash
<1>4. CASE Construct(p)
  BY <1>0, <1>4 DEF Construct
<1>5. CASE OpenLockFile(p)
  BY <1>0, <1>5 DEF OpenLockFile
<1>6. CASE CheckOwner(p)
  BY <1>0, <1>6 DEF CheckOwner
<1>7. CASE RemoveInvalid(p)
  BY <1>0, <1>7 DEF RemoveInvalid
<1>8. CASE CreateTemp(p)
  BY <1>0, <1>8 DEF CreateTemp, SetError
<1>9. CASE WriteTemp(p)
  BY <1>0, <1>9 DEF WriteTemp, SetError
<1>10. CASE Link(p)
  BY <1>0, <1>10 DEF Link, SetError
<1>11. CASE CheckExists(p)
  BY <1>0, <1>11 DEF CheckExists
<1>12. CASE RemoveUnowned(p)
  BY <1>0, <1>12 DEF RemoveUnowned, SetError
<1>13. CASE DiscardTemp(p)
  BY <1>0, <1>13 DEF DiscardTemp
<1>14. CASE WaitForUnlock(p)
  BY <1>0, <1>14 DEF WaitForUnlock
<1>15. CASE WakeUp(p)
  BY <1>0, <1>15 DEF WakeUp
<1>16. CASE CheckPresent(p)
  BY <1>0, <1>16 DEF CheckPresent
<1>17. CASE CheckAlive(p)
  BY <1>0, <1>17 DEF CheckAlive
<1>18. CASE UnsafeRemoveLockFile(p)
  BY <1>0, <1>18 DEF UnsafeRemoveLockFile
<1>19. CASE Destroy(p)
  BY <1>0, <1>19 DEF Destroy
<1>20. CASE DropLock(p)
  BY <1>0, <1>20 DEF DropLock
<1>21. CASE DropTemp(p)
  BY <1>0, <1>21 DEF DropTemp
<1>22. CASE WriteFile(p)
  BY <1>0, <1>22 DEF WriteFile
<1> QED
  BY <1>1, <1>2, <1>3, <1>4, <1>5, <1>6, <1>7, <1>8, <1>9, <1>10, <1>11, <1>12, <1>13, <1>14, <1>15, <1>16, <1>17, <1>18, <1>19, <1>20, <1>21, <1>22
     DEF Internal, Calls

(* The invariant is inductive.                                             *)
LEMMA StepIInv == IInv /\ [Next]_lfmVars => IInv'
BY TypeStep, LocatedStep, OrphanStep, TempStep, StutterIInv DEF IInv

(* The invariant holds in every reachable state.                           *)
LEMMA IInvariant == Spec => []IInv
BY InitIInv, StepIInv, PTL DEF Spec

(* Every variable keeps its type, whatever the processes do; in particular *)
(* waitForUnlock never polls more often than MaxPolls.                     *)
THEOREM TypeCorrect == Spec => []TypeOK
<1>1. IInv => TypeOK
  BY DEF IInv
<1> QED
  BY <1>1, IInvariant, PTL

(* No lock file is left behind by a process that did not crash, for every  *)
(* number of processes, hosts and pids and every client of the class.      *)
THEOREM NoLockLeftBehind == Spec => []NoOrphanLock
<1>1. IInv => NoOrphanLock
  BY DEF IInv
<1> QED
  BY <1>1, IInvariant, PTL

(* No temporary file is left behind by a process that did not crash.       *)
THEOREM NoTempLeftBehind == Spec => []NoTempLeak
<1>1. IInv => NoTempLeak
  BY DEF IInv
<1> QED
  BY <1>1, IInvariant, PTL

(* An owner holds its temporary file, a waiter knows whom it waits for.    *)
THEOREM Coherent == Spec => []StateIsCoherent
<1>1. IInv => StateIsCoherent
  BY DEF IInv, StateIsCoherent, Located, At, Waiting, WaitResults
<1> QED
  BY <1>1, IInvariant, PTL
=============================================================================
