---------------------------- MODULE ModuleBuild ----------------------------
(***************************************************************************)
(* Clang's implicit module build: every compilation that imports a module  *)
(* looks for it in the shared module cache and, when it is not there or    *)
(* out of date, builds it under a LockFileManager (compileAndLoadModule).  *)
(* The cache entry is FileName, its content the compilation that wrote it. *)
(*                                                                         *)
(* Each action conjoins a step of LockFileManager with the step its client *)
(* takes, so that BuildSpec implements the general client's Spec.          *)
(***************************************************************************)
EXTENDS LockFileManager

CONSTANTS Config,     \* Config[p]: header search paths, inputs ... p was given
          Stale,      \* a cache entry that is out of date for everybody
          BuildErrors \* may a build fail?

ASSUME ContentsAssumption == Contents = Procs \cup {Stale}
ASSUME StaleAssumption == Stale \notin Procs

VARIABLES step,       \* step[p]: where p is in loadModule
          result,     \* what p does once its lock manager is destroyed
          committed   \* history: p has renamed a module file into the cache

client == <<step, result, committed>>
buildVars == <<lfmVars, client>>

Steps == {"probe", "acquire", "build", "commit", "read", "leave", "done"}
Results == {"none", "retry", "loaded", "notBuilt", "notRead"}

BuildTypeOK == /\ TypeOK
               /\ step \in [Procs -> Steps]
               /\ result \in [Procs -> Results]
               /\ committed \subseteq Procs

BuildInit == /\ Init
             /\ file \in {NoFile, Stale}
             /\ step = [p \in Procs |-> "probe"]
             /\ result = [p \in Procs |-> "none"]
             /\ committed = {}

In(p, s) == life[p] = "running" /\ step[p] = s
Continue(p, s) == step' = [step EXCEPT ![p] = s]

(* The control block of a module file records the configuration and the    *)
(* input files it was built from.                                          *)
Fits(p) == file # Stale /\ Config[file] = Config[p]

(* Mutant: everybody reads the file.                                       *)
ReadASTFromDisk(p) == IF file = NoFile THEN "Missing"
                      ELSE IF Fits(p) THEN "Success" ELSE "OutOfDate"

(* ASTReader::ReadAST on the cache entry: the file must be there, but a    *)
(* compilation that built it itself reads its own copy in the PCMCache,    *)
(* whoever has replaced the file since.                                    *)
ReadAST(p) == IF file = NoFile THEN "Missing"
              ELSE IF p \in committed \/ Fits(p) THEN "Success"
              ELSE "OutOfDate"

-----------------------------------------------------------------------------
(* loadModule's own look at the cache, without the lock.                   *)
Probe(p) ==
  /\ In(p, "probe")
  /\ \/ /\ ReadAST(p) = "Success"
        /\ Continue(p, "done")
        /\ result' = [result EXCEPT ![p] = "loaded"]
     \/ /\ ReadAST(p) # "Success"
        /\ Continue(p, "acquire")
        /\ UNCHANGED result
  /\ UNCHANGED <<lfmVars, committed>>

(* The loop of compileAndLoadModule: construct the lock manager.           *)
Acquire(p) == /\ In(p, "acquire")
              /\ Construct(p)
              /\ UNCHANGED client

(* Inside the lock manager: its constructor, waitForUnlock, destructor.    *)
InManager(p) == Internal(p) /\ UNCHANGED client

(* LFS_Error: clear a leftover lock file and build without the lock.       *)
BuildUnlocked(p) == /\ In(p, "acquire")
                    /\ GetState(p) = "LFS_Error"
                    /\ UnsafeRemoveLockFile(p)
                    /\ Continue(p, "build")
                    /\ UNCHANGED <<result, committed>>

(* LFS_Owned: build.                                                       *)
BuildLocked(p) == /\ In(p, "acquire")
                  /\ Owns(p)
                  /\ Continue(p, "build")
                  /\ UNCHANGED <<lfmVars, result, committed>>

(* LFS_Shared: wait.                                                       *)
WaitForBuild(p) == In(p, "acquire") /\ WaitForUnlock(p) /\ UNCHANGED client

(* compileModuleImpl up to the output file.  The thread that runs it may   *)
(* crash under CrashRecoveryContext, with no diagnostic and no output.     *)
Build(p) ==
  /\ In(p, "build")
  /\ \/ Continue(p, "commit") /\ UNCHANGED result
     \/ /\ BuildErrors
        /\ Continue(p, "leave")
        /\ result' = [result EXCEPT ![p] = "notBuilt"]
     \/ /\ BuildErrors
        /\ Continue(p, "read")
        /\ UNCHANGED result
  /\ UNCHANGED <<lfmVars, committed>>

(* Mutant: the old module file is removed before the rename.               *)
CommitInTwoSteps(p) ==
  /\ In(p, "commit")
  /\ WriteFile(p)
  /\ \/ /\ file # NoFile /\ file' = NoFile
        /\ UNCHANGED client
     \/ /\ file = NoFile /\ file' = p
        /\ Continue(p, "read")
        /\ committed' = committed \cup {p}
        /\ UNCHANGED result

(* clearOutputFiles renames the temporary output to its final name.        *)
Commit(p) ==
  /\ In(p, "commit")
  /\ \/ /\ WriteFile(p)
        /\ file' = p
        /\ Continue(p, "read")
        /\ committed' = committed \cup {p}
        /\ UNCHANGED result
     \/ /\ IOErrors
        /\ Continue(p, "leave")
        /\ result' = [result EXCEPT ![p] = "notBuilt"]
        /\ UNCHANGED <<lfmVars, committed>>

(* The three results of waiting.  A timed out lock is removed by force     *)
(* before the manager is destroyed and the lock tried again.               *)
AfterWait(p) ==
  /\ In(p, "acquire")
  /\ \/ /\ At(p, "Res_Success")
        /\ Continue(p, "read")
        /\ UNCHANGED <<lfmVars, result>>
     \/ /\ At(p, "Res_OwnerDied")
        /\ Continue(p, "leave")
        /\ result' = [result EXCEPT ![p] = "retry"]
        /\ UNCHANGED lfmVars
     \/ /\ At(p, "Res_Timeout")
        /\ UnsafeRemoveLockFile(p)
        /\ Continue(p, "leave")
        /\ result' = [result EXCEPT ![p] = "retry"]
  /\ UNCHANGED committed

(* ReadAST after the build or the wait; the lock is still held.  A waiter  *)
(* that finds the entry out of date tries again, everybody else fails.     *)
ReadBuilt(p) ==
  /\ In(p, "read")
  /\ Continue(p, "leave")
  /\ result' = [result EXCEPT ![p] =
       IF ReadAST(p) = "Success" THEN "loaded"
       ELSE IF ReadAST(p) = "OutOfDate" /\ GetState(p) = "LFS_Shared" THEN "retry"
       ELSE "notRead"]
  /\ UNCHANGED <<lfmVars, committed>>

(* Mutant: the manager is leaked, its destructor never runs.               *)
LeaveScopeLeaks(p) ==
  /\ In(p, "leave")
  /\ Goto(p, "none")
  /\ Continue(p, IF result[p] = "retry" THEN "acquire" ELSE "done")
  /\ UNCHANGED <<life, disk, owner, failed, polls, result, committed>>

(* The manager goes out of scope, then the loop goes round or returns.     *)
LeaveScope(p) == /\ In(p, "leave")
                 /\ Destroy(p)
                 /\ Continue(p, IF result[p] = "retry" THEN "acquire" ELSE "done")
                 /\ UNCHANGED <<result, committed>>

StartBuild(p) == Start(p) /\ UNCHANGED client
CrashBuild(p) == Crash(p) /\ UNCHANGED client
ExitBuild(p)  == In(p, "done") /\ Exit(p) /\ UNCHANGED client

Work(p) == \/ Probe(p) \/ Acquire(p) \/ InManager(p) \/ WaitForBuild(p)
           \/ BuildUnlocked(p) \/ BuildLocked(p) \/ Build(p) \/ Commit(p)
           \/ AfterWait(p) \/ ReadBuilt(p) \/ LeaveScope(p) \/ ExitBuild(p)

BuildNext == \E p \in Procs : StartBuild(p) \/ CrashBuild(p) \/ Work(p)

BuildSpec == BuildInit /\ [][BuildNext]_buildVars

(* The kernel runs every process that can run, and a build ends.           *)
FairBuildSpec == BuildSpec /\ \A p \in Procs : WF_buildVars(Work(p))

-----------------------------------------------------------------------------
Ended(p) == life[p] \in {"exited", "crashed"}

(* "PCMCache takes care of correctness and locks are only necessary for    *)
(* performance": without I/O errors and failing builds no compilation      *)
(* fails to import the module: not when the lock is stolen or times out,   *)
(* when its owner is killed half way, nor when another configuration's     *)
(* module file replaces the one it built or waited for.                    *)
NoSpuriousFailure ==
  ~IOErrors /\ ~BuildErrors
    => \A p \in Procs : result[p] \notin {"notBuilt", "notRead"}

(* A compilation that waited for another one's build does not report its   *)
(* own failure to read the result: the entry it was told about by the lock *)
(* file's disappearance is there, and if it does not fit, it tries again.  *)
WaiterNeverBlamed ==
  \A p \in Procs : (life[p] = "running" /\ step[p] = "leave"
                      /\ result[p] = "notRead") => GetState(p) # "LFS_Shared"

(* Once some compilation has committed a module file, every later reader   *)
(* finds a complete one: a commit replaces it, no error path removes it.   *)
CommittedStays == committed # {} => file \in Procs

(* Every import ends, although locks are left behind by killed compilers,  *)
(* pids are reused and owners are removed by force.                        *)
EveryImportEnds ==
  \A p \in Procs : life[p] = "running" ~> Ended(p)
=============================================================================
