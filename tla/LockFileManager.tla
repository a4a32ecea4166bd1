-------------------------- MODULE LockFileManager --------------------------
(***************************************************************************)
(* llvm::LockFileManager: advisory locks between processes, kept in the    *)
(* file system.  A process that wants to produce FileName writes its host  *)
(* and pid to a file of its own (FileName.lock-XXXXXXXX) and hard-links it *)
(* to FileName.lock; whoever finds FileName.lock there waits for it to go  *)
(* away.                                                                   *)
(*                                                                         *)
(* Every action is one system call of one process, or the computation up   *)
(* to the next one, so every interleaving the kernel allows is a behaviour.*)
(* Next drives the class with its most general client: construct, wait,    *)
(* remove by force, destroy, in any order the class allows.                *)
(***************************************************************************)
EXTENDS Naturals

CONSTANTS Procs,      \* processes that ever use the lock of this FileName
          Host, Pid,  \* Host[p], Pid[p]: what p writes to its lock file
          Contents,   \* the contents FileName can have
          NoFile,     \* "there is no such file"
          MaxPolls,   \* polls before waitForUnlock times out (16 in the code)
          CanCrash,   \* processes that may be killed
          IOErrors    \* may open, create, write, link and remove fail?

ASSUME MaxPollsAssumption == MaxPolls \in Nat \ {0}
ASSUME NoFileAssumption == NoFile \notin Procs /\ NoFile \notin Contents

VARIABLES life,       \* life[p]: not started, running, exited or crashed
          lockFile,   \* the process whose host and pid FileName.lock holds
          tmp,        \* processes whose FileName.lock-XXXXXXXX exists
          file,       \* content of FileName
          pc,         \* where p is in the member function it runs
          owner,      \* member Owner of p's manager
          failed,     \* member ErrorCode of p's manager is set
          polls       \* polls p has made in waitForUnlock

disk == <<lockFile, tmp, file>>
lfmVars == <<life, lockFile, tmp, file, pc, owner, failed, polls>>

Constructing == {"open", "check", "invalid", "create", "write", "link",
                 "exists", "unowned", "discard"}
Waiting      == {"sleep", "present", "alive"}
WaitResults  == {"Res_Success", "Res_OwnerDied", "Res_Timeout"}
Destroying   == {"dropLock", "dropTemp"}
Labels       == {"none", "made"} \cup Constructing \cup Waiting
                \cup WaitResults \cup Destroying

TypeOK == /\ life \in [Procs -> {"off", "running", "exited", "crashed"}]
          /\ lockFile \in Procs \cup {NoFile}
          /\ tmp \subseteq Procs
          /\ file \in Contents \cup {NoFile}
          /\ pc \in [Procs -> Labels]
          /\ owner \in [Procs -> Procs \cup {NoFile}]
          /\ failed \in [Procs -> BOOLEAN]
          /\ polls \in [Procs -> 0..MaxPolls]

Init == /\ life = [p \in Procs |-> "off"]
        /\ lockFile = NoFile
        /\ tmp = {}
        /\ file \in Contents \cup {NoFile}
        /\ pc = [p \in Procs |-> "none"]
        /\ owner = [p \in Procs |-> NoFile]
        /\ failed = [p \in Procs |-> FALSE]
        /\ polls = [p \in Procs |-> 0]

At(p, label) == life[p] = "running" /\ pc[p] = label
Goto(p, label) == pc' = [pc EXCEPT ![p] = label]

(* getState: Owner is looked at before ErrorCode.                          *)
GetState(p) == IF owner[p] # NoFile THEN "LFS_Shared"
               ELSE IF failed[p] THEN "LFS_Error" ELSE "LFS_Owned"

Owns(p) == At(p, "made") /\ GetState(p) = "LFS_Owned"

(* A pid is only looked up on the host that wrote it; the kernel may have  *)
(* given it to another process since.                                      *)
StillExecuting(p, o) ==
  Host[o] = Host[p] => \E q \in Procs : /\ life[q] = "running"
                                        /\ Host[q] = Host[o]
                                        /\ Pid[q] = Pid[o]

-----------------------------------------------------------------------------
(* Processes.  The kernel gives no pid twice at one time.                  *)

Start(p) == /\ life[p] = "off"
            /\ \A q \in Procs : life[q] = "running"
                                  => Host[q] # Host[p] \/ Pid[q] # Pid[p]
            /\ life' = [life EXCEPT ![p] = "running"]
            /\ UNCHANGED <<disk, pc, owner, failed, polls>>

Exit(p) == /\ At(p, "none")
           /\ life' = [life EXCEPT ![p] = "exited"]
           /\ UNCHANGED <<disk, pc, owner, failed, polls>>

(* A fatal signal runs the handler that removes the registered temporary   *)
(* file, SIGKILL does not.  Neither removes FileName.lock.                 *)
Crash(p) == /\ p \in CanCrash
            /\ life[p] = "running"
            /\ life' = [life EXCEPT ![p] = "crashed"]
            /\ tmp' \in {tmp, tmp \ {p}}
            /\ UNCHANGED <<lockFile, file, pc, owner, failed, polls>>

-----------------------------------------------------------------------------
(* The constructor.  p \in tmp tells the readLockFile of its loop from the *)
(* one it starts with.                                                     *)

Construct(p) == /\ At(p, "none")
                /\ Goto(p, "open")
                /\ owner' = [owner EXCEPT ![p] = NoFile]
                /\ failed' = [failed EXCEPT ![p] = FALSE]
                /\ UNCHANGED <<life, disk, polls>>

(* readLockFile: MemoryBuffer::getFile.  A file it cannot read is as good  *)
(* as none.                                                                *)
OpenLockFile(p) ==
  /\ At(p, "open")
  /\ \/ /\ lockFile # NoFile
        /\ owner' = [owner EXCEPT ![p] = lockFile]
        /\ Goto(p, "check")
     \/ /\ lockFile = NoFile \/ IOErrors
        /\ owner' = [owner EXCEPT ![p] = NoFile]
        /\ Goto(p, "invalid")
  /\ UNCHANGED <<life, disk, failed, polls>>

(* Mutant: a dead owner is not reset.                                      *)
CheckOwnerKeepsDead(p) ==
  /\ At(p, "check")
  /\ Goto(p, IF ~StillExecuting(p, owner[p]) THEN "invalid"
             ELSE IF p \in tmp THEN "discard" ELSE "made")
  /\ UNCHANGED <<life, disk, owner, failed, polls>>

(* readLockFile: is the owner it read alive?                               *)
CheckOwner(p) ==
  /\ At(p, "check")
  /\ \/ /\ StillExecuting(p, owner[p])
        /\ Goto(p, IF p \in tmp THEN "discard" ELSE "made")
        /\ UNCHANGED owner
     \/ /\ ~StillExecuting(p, owner[p])
        /\ owner' = [owner EXCEPT ![p] = NoFile]
        /\ Goto(p, "invalid")
  /\ UNCHANGED <<life, disk, failed, polls>>

(* readLockFile removes whatever FileName.lock is now, and ignores errors. *)
RemoveInvalid(p) ==
  /\ At(p, "invalid")
  /\ Goto(p, IF p \in tmp THEN "exists" ELSE "create")
  /\ \/ lockFile' = NoFile
     \/ IOErrors /\ UNCHANGED lockFile
  /\ UNCHANGED <<life, tmp, file, owner, failed, polls>>

SetError(p) == failed' = [failed EXCEPT ![p] = TRUE]

CreateTemp(p) ==
  /\ At(p, "create")
  /\ \/ /\ tmp' = tmp \cup {p}
        /\ Goto(p, "write")
        /\ UNCHANGED failed
     \/ /\ IOErrors
        /\ SetError(p)
        /\ Goto(p, "made")
        /\ UNCHANGED tmp
  /\ UNCHANGED <<life, lockFile, file, owner, polls>>

(* Mutant: the return on a write error misses the cleanup.                 *)
WriteTempLeaks(p) ==
  /\ At(p, "write")
  /\ \/ Goto(p, "link") /\ UNCHANGED failed
     \/ IOErrors /\ SetError(p) /\ Goto(p, "made")
  /\ UNCHANGED <<life, disk, owner, polls>>

WriteTemp(p) ==
  /\ At(p, "write")
  /\ \/ Goto(p, "link") /\ UNCHANGED failed
     \/ IOErrors /\ SetError(p) /\ Goto(p, "discard")
  /\ UNCHANGED <<life, disk, owner, polls>>

(* Mutant: the cleanup is not told that the lock is owned now.             *)
LinkThenCleanup(p) ==
  /\ At(p, "link")
  /\ lockFile' = IF lockFile = NoFile THEN p ELSE lockFile
  /\ Goto(p, IF lockFile = NoFile THEN "discard" ELSE "open")
  /\ UNCHANGED <<life, tmp, file, owner, failed, polls>>

(* create_link: EEXIST, success or another error.                          *)
Link(p) ==
  /\ At(p, "link")
  /\ \/ /\ lockFile = NoFile
        /\ lockFile' = p
        /\ Goto(p, "made")
        /\ UNCHANGED failed
     \/ /\ lockFile # NoFile
        /\ Goto(p, "open")
        /\ UNCHANGED <<lockFile, failed>>
     \/ /\ IOErrors
        /\ SetError(p)
        /\ Goto(p, "discard")
        /\ UNCHANGED lockFile
  /\ UNCHANGED <<life, tmp, file, owner, polls>>

(* Nobody owned the lock file that was there: is it still there?           *)
CheckExists(p) ==
  /\ At(p, "exists")
  /\ Goto(p, IF lockFile = NoFile THEN "link" ELSE "unowned")
  /\ UNCHANGED <<life, disk, owner, failed, polls>>

RemoveUnowned(p) ==
  /\ At(p, "unowned")
  /\ \/ lockFile' = NoFile /\ Goto(p, "link") /\ UNCHANGED failed
     \/ /\ IOErrors
        /\ SetError(p)
        /\ Goto(p, "discard")
        /\ UNCHANGED lockFile
  /\ UNCHANGED <<life, tmp, file, owner, polls>>

(* RAIICleanup, on every return but the one that owns the lock.            *)
DiscardTemp(p) == /\ At(p, "discard")
                  /\ tmp' = tmp \ {p}
                  /\ Goto(p, "made")
                  /\ UNCHANGED <<life, lockFile, file, owner, failed, polls>>

-----------------------------------------------------------------------------
(* waitForUnlock: sleep, look at the lock file, look at its owner.         *)

WaitForUnlock(p) == /\ At(p, "made")
                    /\ GetState(p) = "LFS_Shared"
                    /\ polls' = [polls EXCEPT ![p] = 0]
                    /\ Goto(p, "sleep")
                    /\ UNCHANGED <<life, disk, owner, failed>>

WakeUp(p) == /\ At(p, "sleep")
             /\ Goto(p, IF lockFile = NoFile THEN "present" ELSE "alive")
             /\ UNCHANGED <<life, disk, owner, failed, polls>>

(* Mutant: the lock file is gone, so the owner must have succeeded.        *)
PresumePresent(p) == /\ At(p, "present")
                     /\ Goto(p, "Res_Success")
                     /\ UNCHANGED <<life, disk, owner, failed, polls>>

CheckPresent(p) ==
  /\ At(p, "present")
  /\ Goto(p, IF file = NoFile THEN "Res_OwnerDied" ELSE "Res_Success")
  /\ UNCHANGED <<life, disk, owner, failed, polls>>

(* Mutant: one poll too many.                                              *)
CheckAliveOnceMore(p) ==
  /\ At(p, "alive")
  /\ StillExecuting(p, owner[p])
  /\ polls' = [polls EXCEPT ![p] = @ + 1]
  /\ Goto(p, IF polls'[p] <= MaxPolls THEN "sleep" ELSE "Res_Timeout")
  /\ UNCHANGED <<life, disk, owner, failed>>

(* Mutant: no time-out.                                                    *)
CheckAliveForEver(p) ==
  /\ At(p, "alive")
  /\ Goto(p, IF StillExecuting(p, owner[p]) THEN "sleep" ELSE "Res_OwnerDied")
  /\ UNCHANGED <<life, disk, owner, failed, polls>>

CheckAlive(p) ==
  /\ At(p, "alive")
  /\ \/ /\ ~StillExecuting(p, owner[p])
        /\ Goto(p, "Res_OwnerDied")
        /\ UNCHANGED polls
     \/ /\ StillExecuting(p, owner[p])
        /\ polls' = [polls EXCEPT ![p] = @ + 1]
        /\ Goto(p, IF polls'[p] < MaxPolls THEN "sleep" ELSE "Res_Timeout")
  /\ UNCHANGED <<life, disk, owner, failed>>

-----------------------------------------------------------------------------
(* The rest of the interface.                                              *)

(* unsafeRemoveLockFile; its client ignores the error it returns.          *)
UnsafeRemoveLockFile(p) ==
  /\ \/ At(p, "made") /\ GetState(p) = "LFS_Error"
     \/ At(p, "Res_Timeout")
  /\ \/ lockFile' = NoFile
     \/ IOErrors /\ UNCHANGED lockFile
  /\ UNCHANGED <<life, tmp, file, pc, owner, failed, polls>>

(* The destructor: an owner removes FileName.lock by name, then its own.   *)
Destroy(p) == /\ \E label \in {"made"} \cup WaitResults : At(p, label)
              /\ Goto(p, IF GetState(p) = "LFS_Owned" THEN "dropLock" ELSE "none")
              /\ UNCHANGED <<life, disk, owner, failed, polls>>

DropLock(p) == /\ At(p, "dropLock")
               /\ \/ lockFile' = NoFile
                  \/ IOErrors /\ UNCHANGED lockFile
               /\ Goto(p, "dropTemp")
               /\ UNCHANGED <<life, tmp, file, owner, failed, polls>>

DropTemp(p) == /\ At(p, "dropTemp")
               /\ tmp' = tmp \ {p}
               /\ Goto(p, "none")
               /\ UNCHANGED <<life, lockFile, file, owner, failed, polls>>

(* The client writes or removes the file the lock is about.                *)
WriteFile(p) == /\ \E label \in {"none", "made"} : At(p, label)
                /\ file' \in Contents \cup {NoFile}
                /\ UNCHANGED <<life, lockFile, tmp, pc, owner, failed, polls>>

-----------------------------------------------------------------------------
(* The steps a process takes inside a member function.                     *)
Internal(p) == \/ OpenLockFile(p) \/ CheckOwner(p) \/ RemoveInvalid(p)
               \/ CreateTemp(p) \/ WriteTemp(p) \/ Link(p)
               \/ CheckExists(p) \/ RemoveUnowned(p) \/ DiscardTemp(p)
               \/ WakeUp(p) \/ CheckPresent(p) \/ CheckAlive(p)
               \/ DropLock(p) \/ DropTemp(p)

Calls(p) == \/ Construct(p) \/ WaitForUnlock(p) \/ UnsafeRemoveLockFile(p)
            \/ Destroy(p) \/ WriteFile(p)

Next == \E p \in Procs : \/ Start(p) \/ Exit(p) \/ Crash(p)
                         \/ Internal(p) \/ Calls(p)

Spec == Init /\ [][Next]_lfmVars

-----------------------------------------------------------------------------
(* The lock file never outlives the process that linked it, unless that    *)
(* process crashed or its remove failed: FileName.lock names p only while  *)
(* p owns the lock or is in the destructor that removes it, whatever       *)
(* removals by name the others make meanwhile.                             *)
NoOrphanLock ==
  ~IOErrors /\ lockFile # NoFile /\ life[lockFile] # "crashed"
    => \/ At(lockFile, "dropLock")
       \/ Owns(lockFile)

(* No FileName.lock-XXXXXXXX is left behind: it exists only inside the     *)
(* constructor, while the lock is owned and until the destructor is done,  *)
(* on every error path too.                                                *)
NoTempLeak ==
  \A p \in tmp : life[p] # "crashed" =>
    \/ Owns(p)
    \/ \E label \in (Constructing \ {"create"}) \cup Destroying : At(p, label)

(* The names a reader of the class relies on: a process that believes it   *)
(* owns the lock holds its temporary file and read no live owner, and one  *)
(* that waits has an owner to wait for.                                    *)
StateIsCoherent ==
  \A p \in Procs :
    /\ Owns(p) => p \in tmp
    /\ \A label \in Waiting \cup WaitResults : At(p, label) => owner[p] # NoFile

(* Documented for the class: only a single process can create the lock     *)
(* file, and it is removed when the owner has finished.                    *)
AtMostOneOwner == \A p, q \in Procs : Owns(p) /\ Owns(q) => p = q
=============================================================================
