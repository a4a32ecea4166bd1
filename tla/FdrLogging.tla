---------------------------- MODULE FdrLogging -----------------------------
(***************************************************************************)
(* XRay's flight data recorder: the threads that call its hook, with the   *)
(* buffers a BufferQueue lends them, while the log is finalized and        *)
(* flushed.  A hook goes from one access to shared state to the next:      *)
(* LoggingStatus, the queue's Finalizing and mutex, the extents of a       *)
(* buffer.  What a hook writes is left to FdrRecords, here a record has    *)
(* only a size, in units of a FunctionRecord.                              *)
(***************************************************************************)
EXTENDS BufferQueue

CONSTANTS Capacity,      \* Buffer.Size
          RecordSizes,   \* what one hook may write
          FreshExtents,  \* what newly allocated extents may hold
          MaxHooks       \* bound: hooks called

PreambleSize == 4
MetadataRecSize == 2
MaxSize == 5
Null == -1

ASSUME CapacityAssumption ==
  Capacity \in Nat /\ Capacity >= PreambleSize + 2 * MetadataRecSize + MaxSize
ASSUME RecordAssumption == RecordSizes \subseteq 1..MaxSize /\ FreshExtents \subseteq Nat
                          /\ MaxHooks \in Nat

VARIABLES status,    \* LoggingStatus
          flush,     \* LogFlushStatus
          extents,   \* extents[b]: Extents->Size of buffer b
          bare,      \* history: buffers without a preamble of their last user
          pc,        \* pc[t]: the next step of thread t's hook
          ptr,       \* ptr[t]: TLD.RecordPtr, as an offset in the buffer
          queueSet,  \* threads whose TLD.BQ is not null
          placed,    \* threads whose CurrentCPU is set
          more,      \* threads inside prepareBuffer
          hooks,     \* how many hooks have been called
          late       \* history: threads whose last hook began after FINALIZED

life == <<status, flush>>
local == <<ptr, queueSet, placed, more, hooks>>
logVars == <<vars, life, extents, bare, pc, local, late>>

Steps == {"idle", "letGo", "look", "giveBack", "ask", "lend", "setup", "turn",
          "write", "dead"}

LogTypeOK ==
  /\ TypeOK
  /\ status \in {"uninitialized", "initializing", "initialized", "finalizing", "finalized"}
  /\ flush \in {"not", "flushing", "flushed"}
  /\ extents \in [Buffers -> Nat]
  /\ bare \subseteq Buffers
  /\ pc \in [Threads -> Steps]
  /\ ptr \in [Threads -> {Null} \cup 0..Capacity]
  /\ queueSet \subseteq Threads /\ placed \subseteq Threads
  /\ hooks \in 0..MaxHooks
  /\ more \subseteq Threads /\ late \subseteq Threads

LogInit == /\ Init
           /\ status = "uninitialized" /\ flush = "not"
           /\ \E e \in FreshExtents : extents = [b \in Buffers |-> e]
           /\ bare = Buffers
           /\ pc = [t \in Threads |-> "idle"]
           /\ ptr = [t \in Threads |-> Null]
           /\ queueSet = {} /\ placed = {} /\ more = {} /\ late = {}
           /\ hooks = 0

At(t, s) == pc[t] = s
Goto(t, s) == pc' = [pc EXCEPT ![t] = s]
SetPtr(t, p) == ptr' = [ptr EXCEPT ![t] = p]

-----------------------------------------------------------------------------
(* The life of the log.  Each status change but the last of a pair is a    *)
(* compare-and-exchange, so one caller at a time is between two of them.   *)

StartInit == /\ status = "uninitialized" /\ status' = "initializing"
             /\ UNCHANGED <<vars, flush, extents, bare, pc, local, late>>

(* The queue is there, the handlers are installed.  If the queue cannot be *)
(* allocated this step never comes, and no other call can make it.         *)
FinishInit == /\ status = "initializing" /\ status' = "initialized"
              /\ UNCHANGED <<vars, flush, extents, bare, pc, local, late>>

StartFinalize == /\ status = "initialized" /\ status' = "finalizing"
                 /\ UNCHANGED <<vars, flush, extents, bare, pc, local, late>>

FinalizeQueue == /\ status = "finalizing" /\ ~finalizing
                 /\ Finalize
                 /\ UNCHANGED <<life, extents, bare, pc, local, late>>

FinishFinalize == /\ status = "finalizing" /\ finalizing
                  /\ status' = "finalized"
                  /\ UNCHANGED <<vars, flush, extents, bare, pc, local, late>>

StartFlush == /\ status = "finalized" /\ flush = "not" /\ flush' = "flushing"
              /\ UNCHANGED <<vars, status, extents, bare, pc, local, late>>

(* After the grace period: there is no file to write to, or apply writes   *)
(* each buffer in Applied, up to its extents.                              *)
FlushEnds(result) == /\ flush = "flushing" /\ flush' = result
                     /\ UNCHANGED <<vars, status, extents, bare, pc, local, late>>
FlushFails == FlushEnds("not")
Flush == FlushEnds("flushed")

-----------------------------------------------------------------------------
(* processFunctionHook.                                                    *)

(* Mutant: a thread whose hook finds FINALIZED keeps its buffer.           *)
BeginForgetful(t) ==
  /\ At(t, "idle")
  /\ hooks < MaxHooks /\ hooks' = hooks + 1
  /\ status \in {"initialized", "finalizing", "finalized"}
  /\ queueSet' = queueSet \cup {t}
  /\ late' = IF status = "finalized" THEN late \cup {t} ELSE late \ {t}
  /\ \/ status = "initialized" /\ Goto(t, "look")
     \/ status = "finalizing" /\ ptr[t] # Null /\ Goto(t, "letGo")
     \/ status # "initialized" /\ (ptr[t] = Null \/ status = "finalized") /\ UNCHANGED pc
  /\ UNCHANGED <<vars, life, extents, bare, ptr, placed, more>>

(* The hook takes the queue and loads the status.                          *)
Begin(t) ==
  /\ At(t, "idle")
  /\ hooks < MaxHooks /\ hooks' = hooks + 1
  /\ status \in {"initialized", "finalizing", "finalized"}
  /\ queueSet' = queueSet \cup {t}
  /\ late' = IF status = "finalized" THEN late \cup {t} ELSE late \ {t}
  /\ \/ status = "initialized" /\ Goto(t, "look")
     \/ status # "initialized" /\ ptr[t] # Null /\ Goto(t, "letGo")
     \/ status # "initialized" /\ ptr[t] = Null /\ UNCHANGED pc
  /\ UNCHANGED <<vars, life, extents, bare, ptr, placed, more>>

(* releaseThreadLocalBuffer when the log is no longer initialised.  It     *)
(* fails, and RecordPtr stays, if the thread has no buffer any more.       *)
LetGo(t) == /\ At(t, "letGo")
            /\ Goto(t, "idle")
            /\ \/ Release(t) /\ SetPtr(t, Null)
               \/ held[t] = {} /\ UNCHANGED <<vars, ptr>>
            /\ UNCHANGED <<life, extents, bare, queueSet, placed, more, hooks, late>>

Stopping == status # "initialized" \/ finalizing
Fits(t) == ptr[t] + MaxSize <= Capacity

(* The second look, at the status and at the queue.  A thread that has a   *)
(* buffer goes on to prepareBuffer, which gives it back for another one if *)
(* there is no room.                                                       *)
LookAgain(t) == /\ At(t, "look")
                /\ Goto(t, IF Stopping THEN "giveBack"
                           ELSE IF held[t] = {} THEN "ask"
                           ELSE IF Fits(t) THEN "write" ELSE "turn")
                /\ UNCHANGED <<vars, life, extents, bare, local, late>>

(* After a release here the hook goes on, and asks for another buffer.     *)
GiveBack(t) == /\ At(t, "giveBack")
               /\ \/ Release(t) /\ SetPtr(t, Null) /\ Goto(t, "ask")
                  \/ held[t] = {} /\ Goto(t, "idle") /\ UNCHANGED <<vars, ptr>>
               /\ UNCHANGED <<life, extents, bare, queueSet, placed, more, hooks, late>>

(* Mutant: prepareBuffer looks whether there will be another buffer before *)
(* it gives the full one back.                                             *)
TurnLooksFirst(t) ==
  /\ At(t, "turn")
  /\ \/ /\ finalizing
        /\ Goto(t, "idle") /\ queueSet' = queueSet \ {t}
        /\ UNCHANGED <<vars, more>>
     \/ /\ ~finalizing
        /\ Release(t) /\ Goto(t, "ask") /\ more' = more \cup {t}
        /\ UNCHANGED queueSet
  /\ UNCHANGED <<life, extents, bare, ptr, placed, hooks, late>>

Turn(t) == /\ At(t, "turn")
           /\ Release(t)
           /\ Goto(t, "ask")
           /\ more' = more \cup {t}
           /\ UNCHANGED <<life, extents, bare, ptr, queueSet, placed, hooks, late>>

(* No buffer: the hook ends.  prepareBuffer's caller also drops the queue. *)
NoBuffer(t) == /\ Goto(t, "idle")
               /\ queueSet' = IF t \in more THEN queueSet \ {t} ELSE queueSet
               /\ more' = more \ {t}
               /\ UNCHANGED <<ptr, placed, hooks>>

(* getBuffer: the look at Finalizing, then the rest under the mutex.       *)
Ask(t) == /\ At(t, "ask")
          /\ \/ EnterGet(t) /\ Goto(t, "lend") /\ UNCHANGED local
             \/ finalizing /\ NoBuffer(t) /\ UNCHANGED vars
          /\ UNCHANGED <<life, extents, bare, late>>

Lend(t) == /\ At(t, "lend")
           /\ \/ Get(t) /\ Goto(t, "setup") /\ UNCHANGED local
              \/ GetFails(t) /\ NoBuffer(t)
           /\ UNCHANGED <<life, extents, bare, late>>

Mine(t) == CHOOSE b \in Buffers : b \in held[t]

(* Mutant: the extents go on from where the buffer's last user left them.  *)
SetUpAdds(t) ==
  /\ At(t, "setup")
  /\ Goto(t, "write")
  /\ SetPtr(t, PreambleSize)
  /\ extents' = [extents EXCEPT ![Mine(t)] = @ + PreambleSize]
  /\ bare' = bare \ held[t]
  /\ UNCHANGED <<vars, life, queueSet, placed, more, hooks, late>>

(* setupNewBuffer: the preamble, and the extents with it, are left out     *)
(* when the queue is finalizing by now.                                    *)
SetUp(t) ==
  /\ At(t, "setup")
  /\ Goto(t, "write")
  /\ \/ /\ ~finalizing
        /\ SetPtr(t, PreambleSize)
        /\ extents' = [extents EXCEPT ![Mine(t)] = PreambleSize]
        /\ bare' = bare \ held[t]
     \/ /\ finalizing
        /\ SetPtr(t, 0)
        /\ bare' = bare \cup held[t]
        /\ UNCHANGED extents
  /\ UNCHANGED <<vars, life, queueSet, placed, more, hooks, late>>

(* The rest of the hook touches only the thread's own data and the extents *)
(* of its buffer: in a new buffer the CPU, once more if it is the thread's *)
(* first, then the records of this call.                                   *)
Metadata(t) == (IF ptr[t] <= PreambleSize THEN MetadataRecSize ELSE 0)
                 + (IF t \notin placed THEN MetadataRecSize ELSE 0)

Write(t) == /\ At(t, "write")
            /\ \E n \in RecordSizes :
                 /\ SetPtr(t, ptr[t] + Metadata(t) + n)
                 /\ extents' = [extents EXCEPT ![Mine(t)] = @ + Metadata(t) + n]
            /\ placed' = placed \cup {t}
            /\ more' = more \ {t}
            /\ Goto(t, "idle")
            /\ UNCHANGED <<vars, life, bare, queueSet, hooks, late>>

(* The destructor of the thread's key.                                     *)
ThreadExit(t) == /\ At(t, "idle")
                 /\ Goto(t, "dead")
                 /\ \/ t \in queueSet /\ Release(t)
                    \/ (t \notin queueSet \/ held[t] = {}) /\ UNCHANGED vars
                 /\ UNCHANGED <<life, extents, bare, local, late>>

InHook(t) == \/ LetGo(t) \/ LookAgain(t) \/ GiveBack(t) \/ Turn(t)
             \/ Ask(t) \/ Lend(t) \/ SetUp(t) \/ Write(t)

LogNext == \/ StartInit \/ FinishInit
           \/ StartFinalize \/ FinalizeQueue \/ FinishFinalize
           \/ StartFlush \/ FlushFails \/ Flush
           \/ \E t \in Threads : Begin(t) \/ InHook(t) \/ ThreadExit(t)

LogSpec == LogInit /\ [][LogNext]_logVars

(* A thread goes on: it ends the hook it is in, and calls another one or   *)
(* exits.                                                                  *)
FairLogSpec == LogSpec /\ \A t \in Threads :
                 WF_logVars(Begin(t) \/ InHook(t) \/ ThreadExit(t))

-----------------------------------------------------------------------------
(* A buffer that got its preamble has extents within its size, equal to    *)
(* what its thread has written, however the buffer came to the thread and  *)
(* whatever its last user left in its extents.  This is not all that       *)
(* flushing asserts: it also visits the buffers without a preamble.        *)
PreparedExtentsHold ==
  /\ \A b \in Buffers \ bare : extents[b] <= Capacity
  /\ \A t \in Threads : \A b \in held[t] \ bare :
       At(t, "setup") \/ extents[b] = ptr[t]

(* What flushing asserts, assert(BufferExtents <= B.Size): the extents of  *)
(* every buffer that apply visits are within its size.                     *)
FlushAssertHolds == flush = "flushing" => \A b \in Applied : extents[b] <= Capacity

(* After a hook that began once the log was finalized the thread has no    *)
(* buffer: flushing after the grace period finds them all given back, if   *)
(* every thread has called a hook or exited meanwhile.                     *)
LateHooksLetGo == \A t \in late : At(t, "idle") => held[t] = {}

(* Once the log is finalized every buffer comes back for good, those that  *)
(* were lent in the middle of it too: none stays with a thread that lost   *)
(* its pointer, dropped its queue or exited.                               *)
BuffersComeBack == status = "finalized" ~> [](\A t \in Threads : held[t] = {})
=============================================================================
