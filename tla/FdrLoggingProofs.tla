-------------------------- MODULE FdrLoggingProofs -------------------------
(***************************************************************************)
(* Proofs about FdrLogging, for any number of threads and buffers and any  *)
(* bound on the hooks: the recorder uses its queue as a pool, the extents  *)
(* of a buffer stay within it, and hooks of a finalized log let go.        *)
(***************************************************************************)
EXTENDS FdrLogging, BufferQueueProofs

(* A step of the recorder is a step of its queue, or none.                 *)
LEMMA StepIsRingStep == [LogNext]_logVars => [Next]_vars
<1> SUFFICES ASSUME [LogNext]_logVars PROVE Next \/ UNCHANGED vars
  OBVIOUS
<1>1. CASE UNCHANGED logVars
  BY <1>1 DEF logVars
<1>2. CASE StartInit \/ FinishInit \/ StartFinalize \/ FinalizeQueue
           \/ FinishFinalize \/ StartFlush \/ FlushFails \/ Flush
  BY <1>2 DEF StartInit, FinishInit, StartFinalize, FinalizeQueue, FinishFinalize,
              StartFlush, FlushFails, Flush, FlushEnds, Next
<1>3. ASSUME NEW t \in Threads, Begin(t) \/ ThreadExit(t)
      PROVE  Next \/ UNCHANGED vars
  BY <1>3 DEF Begin, ThreadExit, Next
<1>4. ASSUME NEW t \in Threads, InHook(t)
      PROVE  Next \/ UNCHANGED vars
  BY <1>4 DEF InHook, LetGo, LookAgain, GiveBack, Turn, Ask, NoBuffer, Lend, SetUp,
              Write, Next
<1> QED
  BY <1>1, <1>2, <1>3, <1>4 DEF LogNext

(* The recorder uses the queue only through its operations.                *)
THEOREM LogUsesRing == LogSpec => Spec
<1>1. LogInit => Init
  BY DEF LogInit
<1> QED
  BY <1>1, StepIsRingStep, PTL DEF LogSpec, Spec

(* So the queue's promises hold while the log is finalized and flushed     *)
(* and its threads exit.                                                   *)
THEOREM LogKeepsBuffers ==
  LogSpec => [](EachBufferOnce /\ NothingWrittenIsLost) /\ IsPool
BY LogUsesRing, BuffersStayApart, LogIsComplete, RingIsPool, PTL

-----------------------------------------------------------------------------
(* The inductive invariant: which steps of a hook have a buffer; a thread  *)
(* with one has a pointer into it, past the preamble only once its CPU is  *)
(* known; what a hook is about to write has room; and a hook that began    *)
(* after FINALIZED takes no buffer.                                        *)
Equipped(t) == /\ pc[t] \in {"ask", "lend"} => held[t] = {}
               /\ pc[t] \in {"turn", "setup", "write"} => held[t] # {}
Pointed(t) == (held[t] # {} /\ pc[t] # "setup") =>
                /\ ptr[t] # Null
                /\ ptr[t] > PreambleSize => t \in placed
Roomy(t) == pc[t] = "write" => ptr[t] + MaxSize <= Capacity
Tardy(t) == t \in late => /\ pc[t] \in {"idle", "letGo", "dead"}
                          /\ pc[t] = "idle" => held[t] = {}

LogInv == /\ RingInv
          /\ LogTypeOK
          /\ \A t \in Threads : Equipped(t) /\ Pointed(t) /\ Roomy(t) /\ Tardy(t)
          /\ PreparedExtentsHold

Sizes == /\ PreambleSize = 4 /\ MetadataRecSize = 2 /\ MaxSize = 5 /\ Null = -1
         /\ Capacity \in Nat /\ Capacity >= 13
         /\ RecordSizes \subseteq 1..5 /\ FreshExtents \subseteq Nat /\ MaxHooks \in Nat

LEMMA KnownSizes == Sizes
BY CapacityAssumption, RecordAssumption
   DEF Sizes, PreambleSize, MetadataRecSize, MaxSize, Null

LEMMA InitLog == LogInit => LogInv
<1> SUFFICES ASSUME LogInit PROVE LogInv
  OBVIOUS
<1>1. RingInv /\ TypeOK
  BY InitRing DEF LogInit, RingInv
<1>2. LogTypeOK
  BY <1>1, KnownSizes DEF LogTypeOK, LogInit, Steps, Sizes
<1>3. \A t \in Threads : held[t] = {} /\ pc[t] = "idle" /\ t \notin late
  BY DEF LogInit, Init
<1>4. PreparedExtentsHold
  BY <1>3 DEF PreparedExtentsHold, LogInit
<1> QED
  BY <1>1, <1>2, <1>3, <1>4 DEF LogInv, Equipped, Pointed, Roomy, Tardy

(* What a release, and a loan, do to the other threads' buffers: nothing.  *)
LEMMA OneMoves ==
  ASSUME RingInv, NEW t \in Threads
  PROVE  /\ Release(t) => /\ held' = [held EXCEPT ![t] = {}]
                          /\ held[t] # {}
                          /\ finalizing' = finalizing
         /\ EnterGet(t) => held[t] = {} /\ UNCHANGED <<held, finalizing>>
         /\ GetFails(t) => UNCHANGED <<held, finalizing>>
         /\ Get(t) => /\ held' = [held EXCEPT ![t] = {slots[next]}]
                      /\ slots[next] \in Buffers
                      /\ finalizing' = finalizing
BY DEF Release, EnterGet, GetFails, Get, RingInv, TypeOK

LEMMA QueueStep ==
  ASSUME LogInv, [LogNext]_logVars
  PROVE  RingInv' /\ TypeOK'
BY StepIsRingStep, StepRing DEF LogInv, RingInv

LEMMA LifeStep ==
  ASSUME LogInv,
         \/ StartInit \/ FinishInit \/ StartFinalize \/ FinalizeQueue
         \/ FinishFinalize \/ StartFlush \/ FlushFails \/ Flush
         \/ UNCHANGED logVars
  PROVE  LogInv'
<1>1. RingInv' /\ TypeOK'
  BY QueueStep DEF LogNext
<1>2. UNCHANGED <<held, extents, bare, pc, ptr, queueSet, placed, more, hooks, late>>
  BY DEF StartInit, FinishInit, StartFinalize, FinalizeQueue, Finalize, vars,
         FinishFinalize, StartFlush, FlushFails, Flush, FlushEnds, logVars, local
<1>3. LogTypeOK'
  <2>1. /\ status' \in {"uninitialized", "initializing", "initialized", "finalizing",
                        "finalized"}
        /\ flush' \in {"not", "flushing", "flushed"}
    BY DEF LogInv, LogTypeOK, StartInit, FinishInit, StartFinalize, FinalizeQueue,
           FinishFinalize, StartFlush, FlushFails, Flush, FlushEnds, logVars, life
  <2> QED
    BY <1>1, <1>2, <2>1 DEF LogInv, LogTypeOK
<1>4. PreparedExtentsHold'
  BY <1>2 DEF LogInv, PreparedExtentsHold, At
<1> QED
  BY <1>1, <1>2, <1>3, <1>4 DEF LogInv, Equipped, Pointed, Roomy, Tardy

LEMMA LookStep ==
  ASSUME LogInv, NEW t \in Threads, Begin(t) \/ LookAgain(t)
  PROVE  LogInv'
<1> USE DEF At, Goto
<1>1. RingInv' /\ TypeOK'
  BY QueueStep DEF LogNext, InHook
<1>2. UNCHANGED <<held, extents, bare, ptr, placed>>
  BY DEF Begin, LookAgain, vars, local
<1>3. PICK s \in Steps : pc' = [pc EXCEPT ![t] = s]
  BY DEF Begin, LookAgain, Steps, LogInv, LogTypeOK
<1>4. LogTypeOK'
  BY <1>1, <1>2, <1>3, KnownSizes
     DEF LogInv, LogTypeOK, Begin, LookAgain, life, local, Sizes
<1>5. pc[t] # "setup" /\ pc'[t] # "setup"
  BY DEF Begin, LookAgain, LogInv, LogTypeOK
<1>6. PreparedExtentsHold'
  BY <1>2, <1>3, <1>5 DEF LogInv, PreparedExtentsHold, LogTypeOK
<1>7. Equipped(t)' /\ Roomy(t)' /\ Pointed(t)' /\ Tardy(t)'
  BY <1>2, <1>5 DEF LogInv, Equipped, Roomy, Pointed, Tardy, Begin, LookAgain, Fits,
                    LogTypeOK
<1>8. ASSUME NEW u \in Threads, u # t
      PROVE  Equipped(u)' /\ Pointed(u)' /\ Roomy(u)' /\ Tardy(u)'
  BY <1>2, <1>3, <1>8 DEF LogInv, Equipped, Pointed, Roomy, Tardy, Begin, LookAgain,
                          LogTypeOK
<1> QED
  BY <1>1, <1>4, <1>6, <1>7, <1>8 DEF LogInv

LEMMA GiveStep ==
  ASSUME LogInv, NEW t \in Threads,
         LetGo(t) \/ GiveBack(t) \/ Turn(t) \/ ThreadExit(t)
  PROVE  LogInv'
<1> USE DEF At, Goto, SetPtr
<1>1. RingInv' /\ TypeOK'
  BY QueueStep DEF LogNext, InHook
<1>2. held' = [held EXCEPT ![t] = {}] \/ UNCHANGED held
  BY OneMoves DEF LetGo, GiveBack, Turn, ThreadExit, LogInv, vars
<1>3. UNCHANGED <<extents, bare, placed, late>>
  BY DEF LetGo, GiveBack, Turn, ThreadExit, local
<1>4. PICK s \in Steps : pc' = [pc EXCEPT ![t] = s]
  BY DEF LetGo, GiveBack, Turn, ThreadExit, Steps
<1>5. ptr' = [ptr EXCEPT ![t] = Null] \/ UNCHANGED ptr
  BY DEF LetGo, GiveBack, Turn, ThreadExit, local
<1>6. LogTypeOK'
  BY <1>1, <1>3, <1>4, <1>5
     DEF LogInv, LogTypeOK, LetGo, GiveBack, Turn, ThreadExit, life, local
<1>7. \/ held'[t] = {}
      \/ pc'[t] = "dead" /\ pc[t] = "idle" /\ UNCHANGED <<held, ptr>>
  <2>1. (Release(t) => held'[t] = {}) /\ pc \in [Threads -> Steps]
    BY OneMoves DEF LogInv, LogTypeOK, TypeOK
  <2>2. CASE LetGo(t) \/ GiveBack(t) \/ Turn(t)
    BY <2>1, <2>2 DEF LetGo, GiveBack, Turn, vars
  <2>3. CASE ThreadExit(t)
    BY <2>1, <2>3 DEF ThreadExit, vars, local
  <2> QED
    BY <2>2, <2>3
<1>8. PreparedExtentsHold'
  BY <1>2, <1>3, <1>4, <1>5, <1>7 DEF LogInv, PreparedExtentsHold, LogTypeOK, TypeOK
<1>9. Equipped(t)' /\ Roomy(t)' /\ Pointed(t)' /\ Tardy(t)'
  BY <1>3, <1>7 DEF LogInv, Equipped, Roomy, Pointed, Tardy, LogTypeOK, LetGo,
                    GiveBack, Turn, ThreadExit
<1>10. ASSUME NEW u \in Threads, u # t
       PROVE  Equipped(u)' /\ Pointed(u)' /\ Roomy(u)' /\ Tardy(u)'
  BY <1>2, <1>3, <1>4, <1>5, <1>10
     DEF LogInv, Equipped, Pointed, Roomy, Tardy, LogTypeOK, TypeOK
<1> QED
  BY <1>1, <1>6, <1>8, <1>9, <1>10 DEF LogInv

LEMMA AskStep ==
  ASSUME LogInv, NEW t \in Threads, Ask(t) \/ Lend(t)
  PROVE  LogInv'
<1> USE DEF At, Goto
<1>1. RingInv' /\ TypeOK'
  BY QueueStep DEF LogNext, InHook
<1>2. \/ UNCHANGED held /\ pc' \in {[pc EXCEPT ![t] = s] : s \in {"lend", "idle"}}
      \/ \E b \in Buffers : held' = [held EXCEPT ![t] = {b}]
                            /\ pc' = [pc EXCEPT ![t] = "setup"]
  <2>1. CASE Ask(t)
    BY <2>1, OneMoves DEF Ask, NoBuffer, LogInv, vars
  <2>2. CASE Lend(t)
    BY <2>2, OneMoves DEF Lend, NoBuffer, LogInv
  <2> QED
    BY <2>1, <2>2
<1>3. UNCHANGED <<extents, bare, ptr, placed, late>> /\ pc[t] \in {"ask", "lend"}
  BY DEF Ask, Lend, NoBuffer, local
<1>4. held[t] = {}
  BY <1>3 DEF LogInv, Equipped
<1>5. LogTypeOK'
  <2>1. pc' \in [Threads -> Steps]
    BY <1>2 DEF LogInv, LogTypeOK, Steps
  <2>2. UNCHANGED <<status, flush, hooks>> /\ queueSet' \subseteq Threads
        /\ more' \subseteq Threads
    BY DEF Ask, Lend, NoBuffer, local, life, LogInv, LogTypeOK
  <2> QED
    BY <1>1, <1>3, <2>1, <2>2 DEF LogInv, LogTypeOK
<1>6. PreparedExtentsHold'
  BY <1>2, <1>3, <1>4 DEF LogInv, PreparedExtentsHold, LogTypeOK, TypeOK
<1>7. Equipped(t)' /\ Roomy(t)' /\ Pointed(t)' /\ Tardy(t)'
  BY <1>2, <1>3, <1>4 DEF LogInv, Equipped, Roomy, Pointed, Tardy, LogTypeOK, TypeOK
<1>8. ASSUME NEW u \in Threads, u # t
      PROVE  Equipped(u)' /\ Pointed(u)' /\ Roomy(u)' /\ Tardy(u)'
  BY <1>2, <1>3, <1>8
     DEF LogInv, Equipped, Pointed, Roomy, Tardy, LogTypeOK, TypeOK
<1> QED
  BY <1>1, <1>5, <1>6, <1>7, <1>8 DEF LogInv

(* A thread that is filling a buffer has the one buffer it was lent.       *)
LEMMA OneBuffer ==
  ASSUME LogInv, NEW t \in Threads, pc[t] \in {"setup", "write"}
  PROVE  /\ held[t] = {Mine(t)} /\ Mine(t) \in Buffers
         /\ \A u \in Threads : u # t => Mine(t) \notin held[u]
<1>1. PICK b \in held[t] : TRUE
  BY DEF LogInv, Equipped
<1>2. held[t] = {b} /\ b \in Buffers
  BY DEF LogInv, RingInv, Parted, TypeOK
<1>3. Mine(t) = b
  BY <1>2 DEF Mine
<1> QED
  BY <1>2, <1>3 DEF LogInv, RingInv, Parted

(* A hook that fills its buffer changes that buffer's extents only.        *)
LEMMA FillStep ==
  ASSUME LogInv, NEW t \in Threads, SetUp(t) \/ Write(t)
  PROVE  LogInv'
<1> USE DEF At, Goto, SetPtr
<1>1. RingInv' /\ TypeOK'
  BY QueueStep DEF LogNext, InHook
<1>2. PICK s \in {"idle", "write"} : pc' = [pc EXCEPT ![t] = s]
  BY DEF SetUp, Write
<1>3. UNCHANGED <<held, late>> /\ pc[t] \in {"setup", "write"} /\ pc'[t] = s
  BY <1>2 DEF SetUp, Write, vars, LogInv, LogTypeOK
<1>4. /\ held[t] = {Mine(t)} /\ Mine(t) \in Buffers
      /\ \A u \in Threads : u # t => Mine(t) \notin held[u]
  BY <1>3, OneBuffer
<1>5. /\ \E e : extents' = [extents EXCEPT ![Mine(t)] = e]
      /\ \E p : ptr' = [ptr EXCEPT ![t] = p]
      /\ placed \subseteq placed'
      /\ \A b \in Buffers : b # Mine(t) => (b \in bare' <=> b \in bare)
  <2>1. CASE SetUp(t)
    <3>1. extents = [extents EXCEPT ![Mine(t)] = extents[Mine(t)]]
      BY DEF LogInv, LogTypeOK
    <3> QED
      BY <1>4, <2>1, <3>1 DEF SetUp
  <2>2. CASE Write(t)
    BY <1>4, <2>2 DEF Write
  <2> QED
    BY <2>1, <2>2
<1>6. /\ ptr'[t] \in 0..Capacity
      /\ ptr'[t] > PreambleSize => t \in placed'
      /\ s = "write" => ptr'[t] + MaxSize <= Capacity
      /\ extents'[Mine(t)] \in Nat
      /\ Mine(t) \notin bare' => extents'[Mine(t)] = ptr'[t]
  <2> USE KnownSizes DEF Sizes, LogInv, LogTypeOK
  <2>1. CASE SetUp(t)
    BY <1>3, <1>4, <2>1 DEF SetUp
  <2>2. CASE Write(t)
    <3>1. PICK n \in RecordSizes :
            /\ ptr' = [ptr EXCEPT ![t] = ptr[t] + Metadata(t) + n]
            /\ extents' = [extents EXCEPT ![Mine(t)] = @ + Metadata(t) + n]
      BY <2>2 DEF Write
    <3>2. pc[t] = "write" /\ s = "idle" /\ t \in placed' /\ bare' = bare
      BY <1>2, <1>3, <2>2 DEF Write
    <3>3. ptr[t] \in 0..Capacity /\ ptr[t] + MaxSize <= Capacity
          /\ (ptr[t] > PreambleSize => t \in placed)
      BY <1>4, <3>2 DEF Roomy, Pointed
    <3>4. Metadata(t) \in Nat /\ ptr[t] + Metadata(t) + n \in 0..Capacity
      BY <3>3 DEF Metadata
    <3>5. Mine(t) \notin bare => extents[Mine(t)] = ptr[t]
      BY <1>4, <3>2 DEF PreparedExtentsHold
    <3>6. /\ ptr'[t] = ptr[t] + Metadata(t) + n
          /\ extents'[Mine(t)] = extents[Mine(t)] + Metadata(t) + n
          /\ extents[Mine(t)] \in Nat
      BY <1>4, <3>1
    <3> QED
      BY <3>2, <3>3, <3>4, <3>5, <3>6
  <2> QED
    BY <2>1, <2>2
<1>7. LogTypeOK'
  <2>1. pc' \in [Threads -> Steps]
    BY <1>2 DEF LogInv, LogTypeOK, Steps
  <2>2. extents' \in [Buffers -> Nat] /\ ptr' \in [Threads -> {Null} \cup 0..Capacity]
    BY <1>4, <1>5, <1>6 DEF LogInv, LogTypeOK
  <2>3. /\ UNCHANGED <<status, flush, hooks, queueSet>>
        /\ bare' \subseteq Buffers /\ placed' \subseteq Threads
        /\ more' \subseteq Threads
    BY <1>4 DEF SetUp, Write, local, life, LogInv, LogTypeOK
  <2> QED
    BY <1>1, <1>3, <2>1, <2>2, <2>3 DEF LogInv, LogTypeOK
<1>8. PreparedExtentsHold'
  <2>1. \A b \in Buffers \ {Mine(t)} : extents'[b] = extents[b]
    BY <1>5 DEF LogInv, LogTypeOK
  <2>2. \A b \in Buffers \ bare' : extents'[b] <= Capacity
    BY <1>5, <1>6, <2>1 DEF LogInv, PreparedExtentsHold
  <2>3. ASSUME NEW u \in Threads, NEW b \in held'[u] \ bare'
        PROVE  pc'[u] = "setup" \/ extents'[b] = ptr'[u]
    <3>1. CASE u = t
      BY <1>3, <1>4, <1>6, <2>3, <3>1
    <3>2. CASE u # t
      <4>1. pc'[u] = pc[u] /\ ptr'[u] = ptr[u]
        BY <1>2, <1>5, <3>2 DEF LogInv, LogTypeOK
      <4>2. b \in held[u] \ bare /\ b \in Buffers \ {Mine(t)}
        BY <1>3, <1>4, <1>5, <2>3, <3>2 DEF LogInv, LogTypeOK, TypeOK
      <4> QED
        BY <2>1, <4>1, <4>2 DEF LogInv, PreparedExtentsHold
    <3> QED
      BY <3>1, <3>2
  <2> QED
    BY <2>2, <2>3 DEF PreparedExtentsHold
<1>9. Equipped(t)' /\ Roomy(t)' /\ Pointed(t)' /\ Tardy(t)'
  BY <1>3, <1>4, <1>6, KnownSizes
     DEF Sizes, LogInv, Equipped, Roomy, Pointed, Tardy
<1>10. ASSUME NEW u \in Threads, u # t
       PROVE  Equipped(u)' /\ Pointed(u)' /\ Roomy(u)' /\ Tardy(u)'
  BY <1>2, <1>3, <1>5, <1>10
     DEF LogInv, Equipped, Pointed, Roomy, Tardy, LogTypeOK
<1> QED
  BY <1>1, <1>7, <1>8, <1>9, <1>10 DEF LogInv

LEMMA StepLog == LogInv /\ [LogNext]_logVars => LogInv'
<1> SUFFICES ASSUME LogInv, [LogNext]_logVars PROVE LogInv'
  OBVIOUS
<1>1. ASSUME NEW t \in Threads, Begin(t) \/ InHook(t) \/ ThreadExit(t)
      PROVE  LogInv'
  BY <1>1, LookStep, GiveStep, AskStep, FillStep DEF InHook
<1> QED
  BY <1>1, LifeStep DEF LogNext

LEMMA AlwaysLog == LogSpec => []LogInv
BY InitLog, StepLog, PTL DEF LogSpec

-----------------------------------------------------------------------------
(* The state keeps its types; in particular RecordPtr never passes the end *)
(* of the buffer.                                                          *)
THEOREM LogTypeCorrect == LogSpec => []LogTypeOK
<1>1. LogInv => LogTypeOK
  BY DEF LogInv
<1> QED
  BY <1>1, AlwaysLog, PTL

(* What the flush asserts of the extents holds of every buffer that got    *)
(* its preamble, whatever fresh memory holds and whoever races the         *)
(* finalization.                                                           *)
THEOREM ExtentsAlwaysHold == LogSpec => []PreparedExtentsHold
<1>1. LogInv => PreparedExtentsHold
  BY DEF LogInv
<1> QED
  BY <1>1, AlwaysLog, PTL

(* A hook that begins once the log is finalized leaves its thread without  *)
(* a buffer.                                                               *)
THEOREM LateHooksAlwaysLetGo == LogSpec => []LateHooksLetGo
<1>1. LogInv => LateHooksLetGo
  BY DEF LogInv, LogTypeOK, Tardy, LateHooksLetGo, At
<1> QED
  BY <1>1, AlwaysLog, PTL
=============================================================================
