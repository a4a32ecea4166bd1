-------------------------- MODULE ThreadPoolProofs -------------------------
(***************************************************************************)
(* Proofs about ThreadPool, for any number of workers, any tasks and any   *)
(* bound on spurious wakeups: a task is in one place, wait looks at a      *)
(* queue nobody is changing, and when it or the destructor returns         *)
(* everything submitted has run.                                           *)
(***************************************************************************)
EXTENDS ThreadPool, FiniteSetTheorems, TLAPS

(* The inductive invariant.  Where the tasks are: in the queue or with one *)
(* worker until they are done.                                             *)
Kept == \A t \in submitted : \/ t \in done
                             \/ \E i \in DOMAIN queue : queue[i] = t
                             \/ \E w \in Workers : t \in task[w]
Taken == \A w \in Workers : task[w] \subseteq submitted
TaskInv == EachTaskOnce /\ Kept /\ Taken

(* Which threads hold which mutex, and what they saw under it.             *)
LockInv ==
  /\ pc \in [Threads -> WorkerLabels \cup ClientLabels]
  /\ \A w \in Workers : /\ pc[w] \in {"test", "activate", "pop"} => queueLock = w
                        /\ pc[w] \in {"activate", "pop"} => queue # <<>>
                        /\ task[w] # {} => pc[w] \in {"run", "spawned"}
  /\ pc[Client] \in {"readActive", "readTasks"} => completionLock = Client
  /\ QueueIsQuiet

(* ActiveThreads counts the busy workers.                                  *)
Counted == active = Cardinality(Busy)

(* A disabled pool gets no more tasks, and its workers leave when there    *)
(* are none.                                                               *)
CloseInv ==
  /\ ~enabled <=> pc[Client] \in {"disabled", "join", "destroyed"}
  /\ ~enabled => \A t \in submitted : t \in done \/ Spawns[t] \subseteq submitted
  /\ \A w \in Workers : pc[w] = "exited" => ~enabled /\ queue = <<>>
  /\ pc[Client] = "destroyed" => \A w \in Workers : pc[w] = "exited"

PoolInv == TypeOK /\ TaskInv /\ LockInv /\ Counted /\ CloseInv /\ WaitMeansDone

LEMMA InitPool == Init => PoolInv
<1> SUFFICES ASSUME Init PROVE PoolInv
  OBVIOUS
<1> USE ThreadsAssumption, WorkersAssumption DEF Init, Threads
<1>1. \A w \in Workers : pc[w] = "lockQueue" /\ w # Client
  OBVIOUS
<1>2. pc[Client] = "idle"
  OBVIOUS
<1>3. Busy = {} /\ Cardinality(Busy) = 0 /\ Cardinality(Workers) \in Nat
  BY <1>1, FS_EmptySet, FS_CardinalityType DEF Busy
<1>4. spurious \in 0..MaxSpurious
  BY SpuriousAssumption
<1>5. TypeOK
  <2>1. queue \in Seq(AllTasks) /\ active \in 0..Cardinality(Workers)
    BY <1>3
  <2>2. \A w \in Workers : pc[w] \in WorkerLabels
    BY <1>1 DEF WorkerLabels
  <2>3. pc[Client] \in ClientLabels
    BY <1>2 DEF ClientLabels
  <2> QED
    BY <1>4, <2>1, <2>2, <2>3 DEF TypeOK
<1>6. TaskInv
  BY DEF TaskInv, EachTaskOnce, Kept, Taken
<1> QED
  BY <1>1, <1>2, <1>3, <1>5, <1>6
     DEF PoolInv, LockInv, Counted, CloseInv, WaitMeansDone, QueueIsQuiet,
         WorkerLabels, ClientLabels

-----------------------------------------------------------------------------
(* The tasks.                                                              *)

LEMMA PushTask ==
  ASSUME TypeOK, TaskInv, NEW t, NEW job \in AllTasks \ submitted, Push(t, job)
  PROVE  TaskInv' /\ queue' \in Seq(AllTasks)
<1>1. /\ queue \in Seq(AllTasks) /\ queue' = Append(queue, job)
      /\ submitted' = submitted \cup {job} /\ done' = done /\ task' = task
  BY DEF Push, TypeOK
<1>2. /\ queue' \in Seq(AllTasks) /\ DOMAIN queue = 1..Len(queue)
      /\ DOMAIN queue' = 1..(Len(queue) + 1)
      /\ \A i \in DOMAIN queue : queue'[i] = queue[i]
      /\ queue'[Len(queue) + 1] = job /\ Len(queue) \in Nat
  BY <1>1
<1>3. EachTaskOnce'
  BY <1>1, <1>2 DEF TaskInv, EachTaskOnce, Taken, TypeOK
<1>4. Kept' /\ Taken'
  BY <1>1, <1>2 DEF TaskInv, Kept, Taken
<1> QED
  BY <1>2, <1>3, <1>4 DEF TaskInv

LEMMA PopTask ==
  ASSUME TypeOK, TaskInv, NEW w \in Workers, Pop(w), queue # <<>>, task[w] = {}
  PROVE  TaskInv' /\ queue' \in Seq(AllTasks) /\ Head(queue) \in AllTasks
<1>1. /\ queue \in Seq(AllTasks) /\ queue' = Tail(queue)
      /\ task' = [task EXCEPT ![w] = {Head(queue)}]
      /\ submitted' = submitted /\ done' = done
  BY DEF Pop, TypeOK, ghosts
<1>2. /\ queue' \in Seq(AllTasks) /\ DOMAIN queue = 1..Len(queue)
      /\ DOMAIN queue' = 1..(Len(queue) - 1)
      /\ \A i \in DOMAIN queue' : queue'[i] = queue[i + 1]
      /\ Len(queue) \in Nat \ {0} /\ Head(queue) = queue[1]
      /\ queue[1] \in AllTasks
  BY <1>1
<1>3. task'[w] = {queue[1]} /\ \A v \in Workers \ {w} : task'[v] = task[v]
  BY <1>1, <1>2 DEF TypeOK
<1>4. EachTaskOnce'
  <2>1. \A i \in DOMAIN queue' : i + 1 \in DOMAIN queue /\ i + 1 # 1
    BY <1>2
  <2>2. 1 \in DOMAIN queue
    BY <1>2
  <2> QED
    BY <1>1, <1>2, <1>3, <2>1, <2>2 DEF TaskInv, EachTaskOnce
<1>5. Kept'
  <2>1. \A i \in DOMAIN queue : i # 1 => i - 1 \in DOMAIN queue' /\ (i - 1) + 1 = i
    BY <1>2
  <2> QED
    BY <1>1, <1>2, <1>3, <2>1 DEF TaskInv, Kept
<1>6. Taken'
  <2>1. queue[1] \in submitted
    BY <1>2 DEF TaskInv, EachTaskOnce
  <2> QED
    BY <1>1, <1>3, <2>1 DEF TaskInv, Taken
<1> QED
  BY <1>2, <1>4, <1>5, <1>6 DEF TaskInv

(* What a worker runs was submitted and is not done.                       *)
LEMMA TaskStep ==
  ASSUME PoolInv, [Next]_vars
  PROVE  TaskInv' /\ queue' \in Seq(AllTasks) /\ task' \in [Workers -> SUBSET AllTasks]
<1> USE DEF PoolInv
<1>1. CASE UNCHANGED <<queue, task, submitted, done>>
  BY <1>1 DEF TaskInv, EachTaskOnce, Kept, Taken, TypeOK
<1>2. CASE ClientSubmits
  BY <1>2, PushTask DEF ClientSubmits, AllTasks, Push, TypeOK
<1>3. ASSUME NEW w \in Workers, TaskSubmits(w)
      PROVE  TaskInv' /\ queue' \in Seq(AllTasks) /\ task' \in [Workers -> SUBSET AllTasks]
  <2>1. PICK t \in task[w] : \E job \in Spawns[t] \ submitted : Push(w, job)
    BY <1>3 DEF TaskSubmits
  <2>2. Spawns[t] \subseteq AllTasks
    BY SpawnsAssumption DEF TypeOK
  <2> QED
    BY <2>1, <2>2, PushTask DEF Push, TypeOK
<1>4. ASSUME NEW w \in Workers, Pop(w)
      PROVE  TaskInv' /\ queue' \in Seq(AllTasks) /\ task' \in [Workers -> SUBSET AllTasks]
  <2>1. queue # <<>> /\ task[w] = {}
    BY <1>4 DEF LockInv, Pop, Goto
  <2> QED
    BY <1>4, <2>1, PopTask DEF Pop, TypeOK
<1>5. ASSUME NEW w \in Workers, RunEnds(w)
      PROVE  TaskInv' /\ queue' \in Seq(AllTasks) /\ task' \in [Workers -> SUBSET AllTasks]
  BY <1>5 DEF RunEnds, TaskInv, EachTaskOnce, Kept, Taken, TypeOK
<1>6. CASE ClientStep \/ CallWait \/ Disable \/ UNCHANGED vars
  BY <1>1, <1>6 DEF ClientStep, CallWait, Disable, NotifyOne, LockCompletion, ReadActive,
                    ReadTasks, NotifyAll, Join, vars, data, ghosts
<1>7. ASSUME NEW w \in Workers,
             \/ LockQueue(w) \/ Test(w) \/ Activate(w) \/ NotifyOne(w, "spawned", "run")
             \/ Finish(w) \/ NotifyCompletion(w)
      PROVE  UNCHANGED <<queue, task, submitted, done>>
  BY <1>7 DEF LockQueue, Test, Activate, NotifyOne, Finish, NotifyCompletion, data, ghosts
<1>8. ASSUME NEW t \in Threads, WakeSpuriously(t)
      PROVE  UNCHANGED <<queue, task, submitted, done>>
  BY <1>8 DEF WakeSpuriously, data, ghosts
<1> QED
  BY <1>1, <1>2, <1>3, <1>4, <1>5, <1>6, <1>7, <1>8 DEF Next, ClientCalls, WorkerStep

-----------------------------------------------------------------------------
(* The labels.  A step moves the thread that takes it, and wakes sleepers. *)

LEMMA Apart ==
  ASSUME PoolInv
  PROVE  /\ \A w \in Workers : w # Client /\ w # Nobody /\ w \in Threads
         /\ Client # Nobody /\ Client \in Threads
         /\ \A t \in Threads : t # Client => t \in Workers
         /\ \A w \in Workers : pc[w] \in WorkerLabels
         /\ pc[Client] \in ClientLabels
         /\ pc \in [Threads -> WorkerLabels \cup ClientLabels]
BY ThreadsAssumption DEF PoolInv, LockInv, TypeOK, Threads

LEMMA LabelStep ==
  ASSUME PoolInv, [Next]_vars
  PROVE  /\ pc' \in [Threads -> WorkerLabels \cup ClientLabels]
         /\ \A w \in Workers : pc'[w] \in WorkerLabels
         /\ pc'[Client] \in ClientLabels
<1> USE Apart DEF WorkerLabels, ClientLabels, Goto
<1>1. CASE ClientCalls
  BY <1>1 DEF ClientCalls, ClientSubmits, CallWait, Disable
<1>2. CASE ClientStep
  BY <1>2 DEF ClientStep, NotifyOne, LockCompletion, ReadActive, ReadTasks, NotifyAll,
              Join
<1>3. ASSUME NEW w \in Workers, WorkerStep(w)
      PROVE  /\ pc' \in [Threads -> WorkerLabels \cup ClientLabels]
             /\ \A v \in Workers : pc'[v] \in WorkerLabels
             /\ pc'[Client] \in ClientLabels
  <2>1. CASE LockQueue(w) \/ Test(w) \/ Activate(w) \/ Pop(w)
    BY <2>1 DEF LockQueue, Test, Activate, Pop
  <2>2. CASE TaskSubmits(w) \/ RunEnds(w) \/ Finish(w)
    BY <2>2 DEF TaskSubmits, RunEnds, Finish
  <2>3. CASE NotifyOne(w, "spawned", "run") \/ NotifyCompletion(w)
    BY <2>3 DEF NotifyOne, NotifyCompletion
  <2> QED
    BY <1>3, <2>1, <2>2, <2>3 DEF WorkerStep
<1>4. ASSUME NEW t \in Threads, WakeSpuriously(t)
      PROVE  /\ pc' \in [Threads -> WorkerLabels \cup ClientLabels]
             /\ \A w \in Workers : pc'[w] \in WorkerLabels
             /\ pc'[Client] \in ClientLabels
  BY <1>4 DEF WakeSpuriously
<1>5. CASE UNCHANGED vars
  BY <1>5 DEF vars
<1> QED
  BY <1>1, <1>2, <1>3, <1>4, <1>5 DEF Next

BusyLabels == {"pop", "run", "spawned", "finish"}

(* Only ++ActiveThreads and --ActiveThreads change who is busy.            *)
LEMMA SameBusy ==
  ASSUME PoolInv, [Next]_vars,
         \A w \in Workers : ~Activate(w) /\ ~Finish(w)
  PROVE  Busy' = Busy /\ active' = active
<1> USE Apart DEF BusyLabels, Goto, data
<1> SUFFICES /\ \A v \in Workers : pc'[v] \in BusyLabels <=> pc[v] \in BusyLabels
             /\ active' = active
  BY DEF Busy
<1>1. CASE ClientCalls
  BY <1>1 DEF ClientCalls, ClientSubmits, CallWait, Disable, Push
<1>2. CASE ClientStep
  BY <1>2 DEF ClientStep, NotifyOne, LockCompletion, ReadActive, ReadTasks, NotifyAll,
              Join
<1>3. ASSUME NEW w \in Workers, WorkerStep(w)
      PROVE  /\ \A v \in Workers : pc'[v] \in BusyLabels <=> pc[v] \in BusyLabels
             /\ active' = active
  <2>1. CASE LockQueue(w) \/ Test(w) \/ Pop(w)
    BY <2>1 DEF LockQueue, Test, Pop
  <2>2. CASE TaskSubmits(w) \/ RunEnds(w)
    BY <2>2 DEF TaskSubmits, RunEnds, Push
  <2>3. CASE NotifyOne(w, "spawned", "run") \/ NotifyCompletion(w)
    BY <2>3 DEF NotifyOne, NotifyCompletion
  <2> QED
    BY <1>3, <2>1, <2>2, <2>3 DEF WorkerStep
<1>4. ASSUME NEW t \in Threads, WakeSpuriously(t)
      PROVE  /\ \A v \in Workers : pc'[v] \in BusyLabels <=> pc[v] \in BusyLabels
             /\ active' = active
  BY <1>4 DEF WakeSpuriously
<1>5. CASE UNCHANGED vars
  BY <1>5 DEF vars
<1> QED
  BY <1>1, <1>2, <1>3, <1>4, <1>5 DEF Next

LEMMA FiniteBusy ==
  ASSUME NEW S \in SUBSET Workers
  PROVE  IsFiniteSet(S) /\ Cardinality(S) \in 0..Cardinality(Workers)
BY WorkersAssumption, FS_Subset, FS_CardinalityType

LEMMA CountStep ==
  ASSUME PoolInv, [Next]_vars
  PROVE  Counted' /\ active' \in 0..Cardinality(Workers)
<1> SUFFICES Counted'
  BY FiniteBusy DEF Counted, Busy
<1>1. IsFiniteSet(Busy) /\ Cardinality(Busy) \in Nat
  BY FiniteBusy DEF Busy
<1>2. ASSUME NEW w \in Workers, Activate(w) PROVE Counted'
  <2>1. w \notin Busy /\ Busy' = Busy \cup {w} /\ active' = active + 1
    BY <1>2, Apart DEF Activate, Goto, Busy
  <2> QED
    BY <1>1, <2>1, FS_AddElement DEF Counted, PoolInv
<1>3. ASSUME NEW w \in Workers, Finish(w) PROVE Counted'
  <2>1. w \in Busy /\ Busy' = Busy \ {w} /\ active' = active - 1
    BY <1>3, Apart DEF Finish, Goto, Busy
  <2> QED
    BY <1>1, <2>1, FS_RemoveElement DEF Counted, PoolInv
<1>4. CASE \A w \in Workers : ~Activate(w) /\ ~Finish(w)
  BY <1>4, SameBusy DEF Counted, PoolInv
<1> QED
  BY <1>2, <1>3, <1>4

LEMMA TypeStep ==
  ASSUME PoolInv, [Next]_vars
  PROVE  TypeOK'
<1> USE DEF PoolInv
<1>1. /\ queue' \in Seq(AllTasks) /\ task' \in [Workers -> SUBSET AllTasks]
      /\ active' \in 0..Cardinality(Workers)
      /\ \A w \in Workers : pc'[w] \in WorkerLabels
      /\ pc'[Client] \in ClientLabels
  BY TaskStep, CountStep, LabelStep
<1> SUFFICES /\ enabled' \in BOOLEAN /\ waited' \in BOOLEAN
             /\ queueLock' \in Workers \cup {Nobody}
             /\ completionLock' \in {Client, Nobody}
             /\ done' \subseteq submitted' /\ submitted' \subseteq AllTasks
             /\ spurious' \in 0..MaxSpurious
  BY <1>1 DEF TypeOK
<1> USE DEF TypeOK, data, locks, ghosts
<1>2. CASE ClientCalls
  BY <1>2 DEF ClientCalls, ClientSubmits, CallWait, Disable, Push, AllTasks
<1>3. CASE ClientStep
  BY <1>3 DEF ClientStep, NotifyOne, LockCompletion, ReadActive, ReadTasks, NotifyAll,
              Join
<1>4. ASSUME NEW w \in Workers, WorkerStep(w)
      PROVE  /\ enabled' \in BOOLEAN /\ waited' \in BOOLEAN
             /\ queueLock' \in Workers \cup {Nobody}
             /\ completionLock' \in {Client, Nobody}
             /\ done' \subseteq submitted' /\ submitted' \subseteq AllTasks
             /\ spurious' \in 0..MaxSpurious
  <2>1. CASE LockQueue(w) \/ Test(w) \/ Activate(w) \/ Pop(w) \/ Finish(w)
    BY <2>1 DEF LockQueue, Test, Activate, Pop, Finish
  <2>2. CASE TaskSubmits(w)
    BY <2>2, SpawnsAssumption DEF TaskSubmits, Push
  <2>3. CASE RunEnds(w)
    BY <2>3 DEF RunEnds, TaskInv, Taken
  <2>4. CASE NotifyOne(w, "spawned", "run") \/ NotifyCompletion(w)
    BY <2>4 DEF NotifyOne, NotifyCompletion
  <2> QED
    BY <1>4, <2>1, <2>2, <2>3, <2>4 DEF WorkerStep
<1>5. ASSUME NEW t \in Threads, WakeSpuriously(t)
      PROVE  /\ UNCHANGED <<data, locks, ghosts>> /\ spurious' \in 0..MaxSpurious
  BY <1>5, SpuriousAssumption DEF WakeSpuriously
<1>6. CASE UNCHANGED vars
  BY <1>6 DEF vars
<1> QED
  BY <1>2, <1>3, <1>4, <1>5, <1>6 DEF Next

-----------------------------------------------------------------------------
(* The mutexes.                                                            *)

LEMMA LockStep ==
  ASSUME PoolInv, [Next]_vars
  PROVE  LockInv'
<1> USE Apart DEF Goto, data, locks, ghosts
<1>1. pc' \in [Threads -> WorkerLabels \cup ClientLabels]
  BY LabelStep
<1>2. ASSUME NEW w \in Workers
      PROVE  /\ pc'[w] \in {"test", "activate", "pop"} => queueLock' = w
             /\ pc'[w] \in {"activate", "pop"} => queue' # <<>>
             /\ task'[w] # {} => pc'[w] \in {"run", "spawned"}
  <2> USE DEF PoolInv, LockInv, TypeOK
  <2>1. CASE ClientCalls
    BY <2>1 DEF ClientCalls, ClientSubmits, CallWait, Disable, Push
  <2>2. CASE ClientStep
    BY <2>2 DEF ClientStep, NotifyOne, LockCompletion, ReadActive, ReadTasks, NotifyAll,
                Join
  <2>3. ASSUME NEW v \in Workers, WorkerStep(v)
        PROVE  /\ pc'[w] \in {"test", "activate", "pop"} => queueLock' = w
               /\ pc'[w] \in {"activate", "pop"} => queue' # <<>>
               /\ task'[w] # {} => pc'[w] \in {"run", "spawned"}
    <3>1. CASE LockQueue(v) \/ Test(v) \/ Activate(v)
      BY <3>1 DEF LockQueue, Test, Activate
    <3>2. CASE Pop(v)
      BY <3>2 DEF Pop
    <3>3. CASE TaskSubmits(v) \/ RunEnds(v) \/ Finish(v)
      BY <3>3 DEF TaskSubmits, RunEnds, Finish, Push
    <3>4. CASE NotifyOne(v, "spawned", "run") \/ NotifyCompletion(v)
      BY <3>4 DEF NotifyOne, NotifyCompletion
    <3> QED
      BY <2>3, <3>1, <3>2, <3>3, <3>4 DEF WorkerStep
  <2>4. ASSUME NEW t \in Threads, WakeSpuriously(t)
        PROVE  /\ pc'[w] \in {"test", "activate", "pop"} => queueLock' = w
               /\ pc'[w] \in {"activate", "pop"} => queue' # <<>>
               /\ task'[w] # {} => pc'[w] \in {"run", "spawned"}
    BY <2>4 DEF WakeSpuriously
  <2>5. CASE UNCHANGED vars
    BY <2>5 DEF vars
  <2> QED
    BY <2>1, <2>2, <2>3, <2>4, <2>5 DEF Next
<1>3. /\ pc'[Client] \in {"readActive", "readTasks"} => completionLock' = Client
      /\ pc'[Client] = "readTasks" => pc[Client] = "readTasks" \/ active = 0
  <2> USE DEF PoolInv, LockInv
  <2>1. CASE ClientCalls
    BY <2>1 DEF ClientCalls, ClientSubmits, CallWait, Disable, Push
  <2>2. CASE ClientStep
    BY <2>2 DEF ClientStep, NotifyOne, LockCompletion, ReadActive, ReadTasks, NotifyAll,
                Join
  <2>3. ASSUME NEW w \in Workers, WorkerStep(w)
        PROVE  /\ pc'[Client] \in {"readActive", "readTasks"} => completionLock' = Client
               /\ pc'[Client] = "readTasks" => pc[Client] = "readTasks" \/ active = 0
    <3>1. CASE LockQueue(w) \/ Test(w) \/ Activate(w) \/ Pop(w)
      BY <3>1 DEF LockQueue, Test, Activate, Pop
    <3>2. CASE TaskSubmits(w) \/ RunEnds(w) \/ Finish(w)
      BY <3>2 DEF TaskSubmits, RunEnds, Finish, Push
    <3>3. CASE NotifyOne(w, "spawned", "run") \/ NotifyCompletion(w)
      BY <3>3 DEF NotifyOne, NotifyCompletion
    <3> QED
      BY <2>3, <3>1, <3>2, <3>3 DEF WorkerStep
  <2>4. ASSUME NEW t \in Threads, WakeSpuriously(t)
        PROVE  /\ pc'[Client] \in {"readActive", "readTasks"} => completionLock' = Client
               /\ pc'[Client] = "readTasks" => pc[Client] = "readTasks" \/ active = 0
    BY <2>4 DEF WakeSpuriously
  <2>5. CASE UNCHANGED vars
    BY <2>5 DEF vars
  <2> QED
    BY <2>1, <2>2, <2>3, <2>4, <2>5 DEF Next
<1>4. QueueIsQuiet'
  <2> SUFFICES ASSUME pc'[Client] = "readTasks" PROVE Busy' = {}
    BY DEF QueueIsQuiet
  <2>1. ASSUME NEW w \in Workers, Activate(w) \/ Finish(w) PROVE FALSE
    BY <2>1 DEF Activate, Finish, PoolInv, LockInv
  <2>2. Busy' = Busy
    BY <2>1, SameBusy
  <2>3. active = 0 => Busy = {}
    BY FiniteBusy, FS_EmptySet DEF Busy, PoolInv, Counted
  <2> QED
    BY <1>3, <2>2, <2>3 DEF PoolInv, LockInv, QueueIsQuiet
<1> QED
  BY <1>1, <1>2, <1>3, <1>4 DEF LockInv

-----------------------------------------------------------------------------
(* The destructor.                                                         *)

(* Nothing is submitted to a pool that is being destroyed.                 *)
LEMMA NoLatePush ==
  ASSUME PoolInv, [Next]_vars, ~enabled
  PROVE  /\ submitted' = submitted /\ done \subseteq done'
         /\ queue = <<>> => queue' = <<>>
         /\ ~enabled'
<1> USE Apart DEF Goto, data, ghosts
<1>1. CASE ClientCalls
  BY <1>1 DEF ClientCalls, ClientSubmits, CallWait, Disable, PoolInv, CloseInv
<1>2. CASE ClientStep
  BY <1>2 DEF ClientStep, NotifyOne, LockCompletion, ReadActive, ReadTasks, NotifyAll,
              Join
<1>3. ASSUME NEW w \in Workers, WorkerStep(w)
      PROVE  /\ submitted' = submitted /\ done \subseteq done'
             /\ queue = <<>> => queue' = <<>>
             /\ ~enabled'
  <2>1. ~TaskSubmits(w)
    BY DEF TaskSubmits, PoolInv, CloseInv, TaskInv, Taken, EachTaskOnce
  <2>2. CASE LockQueue(w) \/ Test(w) \/ Activate(w) \/ RunEnds(w) \/ Finish(w)
    BY <2>2 DEF LockQueue, Test, Activate, RunEnds, Finish
  <2>3. CASE Pop(w)
    BY <2>3 DEF Pop, PoolInv, LockInv
  <2>4. CASE NotifyOne(w, "spawned", "run") \/ NotifyCompletion(w)
    BY <2>4 DEF NotifyOne, NotifyCompletion
  <2> QED
    BY <1>3, <2>1, <2>2, <2>3, <2>4 DEF WorkerStep
<1>4. ASSUME NEW t \in Threads, WakeSpuriously(t)
      PROVE  UNCHANGED <<data, ghosts>>
  BY <1>4 DEF WakeSpuriously
<1>5. CASE UNCHANGED vars
  BY <1>5 DEF vars
<1> QED
  BY <1>1, <1>2, <1>3, <1>4, <1>5 DEF Next

(* Who leaves, and when.                                                   *)
Leaving(w) == /\ pc[w] = "exited" => pc'[w] = "exited"
              /\ pc'[w] = "exited" => pc[w] = "exited" \/ (~enabled /\ queue = <<>>)
Ending == {"disabled", "join", "destroyed"}

LEMMA LeaveStep ==
  ASSUME PoolInv, [Next]_vars
  PROVE  /\ \A w \in Workers : Leaving(w)
         /\ pc'[Client] = "destroyed" => \A w \in Workers : pc[w] = "exited"
         /\ ~enabled' <=> pc'[Client] \in Ending
         /\ (enabled /\ ~enabled') =>
              \A t \in submitted' : t \in done' \/ Spawns[t] \subseteq submitted'
<1> USE Apart DEF Goto, data, ghosts, Ending, Leaving, PoolInv, CloseInv
<1>1. CASE ClientSubmits \/ CallWait
  BY <1>1 DEF ClientSubmits, CallWait, Push
<1>2. CASE Disable
  BY <1>2 DEF Disable
<1>3. CASE ClientStep
  BY <1>3 DEF ClientStep, NotifyOne, LockCompletion, ReadActive, ReadTasks, NotifyAll,
              Join
<1>4. ASSUME NEW v \in Workers, WorkerStep(v)
      PROVE  /\ \A w \in Workers : Leaving(w)
             /\ pc'[Client] \in Ending <=> pc[Client] \in Ending
             /\ pc'[Client] = "destroyed" => pc[Client] = "destroyed"
             /\ enabled' = enabled
  <2>1. CASE LockQueue(v) \/ Test(v) \/ Activate(v) \/ Pop(v)
    BY <2>1 DEF LockQueue, Test, Activate, Pop
  <2>2. CASE TaskSubmits(v) \/ RunEnds(v) \/ Finish(v)
    BY <2>2 DEF TaskSubmits, RunEnds, Finish, Push
  <2>3. CASE NotifyOne(v, "spawned", "run") \/ NotifyCompletion(v)
    BY <2>3 DEF NotifyOne, NotifyCompletion
  <2> QED
    BY <1>4, <2>1, <2>2, <2>3 DEF WorkerStep
<1>5. ASSUME NEW t \in Threads, WakeSpuriously(t)
      PROVE  /\ \A w \in Workers : Leaving(w)
             /\ pc'[Client] \in Ending <=> pc[Client] \in Ending
             /\ pc'[Client] = "destroyed" => pc[Client] = "destroyed"
             /\ enabled' = enabled
  BY <1>5 DEF WakeSpuriously
<1>6. CASE UNCHANGED vars
  BY <1>6 DEF vars
<1> QED
  BY <1>1, <1>2, <1>3, <1>4, <1>5, <1>6 DEF Next, ClientCalls

LEMMA CloseStep ==
  ASSUME PoolInv, [Next]_vars
  PROVE  CloseInv'
<1> USE DEF PoolInv, CloseInv
<1>1. ~enabled' <=> pc'[Client] \in {"disabled", "join", "destroyed"}
  BY LeaveStep DEF Ending
<1>2. ~enabled' => \A t \in submitted' : t \in done' \/ Spawns[t] \subseteq submitted'
  <2>1. CASE enabled
    BY <2>1, LeaveStep
  <2>2. CASE ~enabled
    BY <2>2, NoLatePush
  <2> QED
    BY <2>1, <2>2
<1>3. \A w \in Workers : pc'[w] = "exited" => ~enabled' /\ queue' = <<>>
  BY LeaveStep, NoLatePush DEF Leaving
<1>4. pc'[Client] = "destroyed" => \A w \in Workers : pc'[w] = "exited"
  BY LeaveStep DEF Leaving
<1> QED
  BY <1>1, <1>2, <1>3, <1>4

-----------------------------------------------------------------------------
(* Waiting.                                                                *)

(* What is neither queued nor with a busy worker has run.                  *)
LEMMA NothingLeft ==
  TypeOK /\ TaskInv /\ queue = <<>> /\ (\A w \in Workers : task[w] = {})
    => submitted = done
<1>1. queue = <<>> => DOMAIN queue = {}
  OBVIOUS
<1> QED
  BY <1>1 DEF TypeOK, TaskInv, Kept

LEMMA WaitStep ==
  ASSUME PoolInv, [Next]_vars
  PROVE  WaitMeansDone'
<1> USE DEF PoolInv
<1>1. waited' => submitted' = done' /\ queue' = <<>> /\ Busy' = {}
  <2> SUFFICES ASSUME waited' PROVE submitted' = done' /\ queue' = <<>> /\ Busy' = {}
    OBVIOUS
  <2> USE Apart DEF Goto
  <2>1. CASE ReadTasks
    <3>1. Busy = {} /\ Busy' = Busy
      BY <2>1 DEF ReadTasks, LockInv, QueueIsQuiet, Busy
    <3>2. UNCHANGED <<queue, submitted, done>> /\ (waited \/ queue = <<>>)
      BY <2>1 DEF ReadTasks, data, ghosts
    <3>3. \A w \in Workers : task[w] = {}
      BY <3>1 DEF LockInv, Busy
    <3> QED
      BY <3>1, <3>2, <3>3, NothingLeft DEF WaitMeansDone
  <2>2. CASE ~ReadTasks
    <3>1. ASSUME waited PROVE submitted' = done' /\ queue' = <<>> /\ Busy' = {}
      <4>1. queue = <<>> /\ Busy = {} /\ submitted = done
        BY <3>1 DEF WaitMeansDone
      <4>2. ASSUME NEW w \in Workers,
                   \/ Activate(w) \/ Finish(w) \/ Pop(w) \/ RunEnds(w)
                   \/ TaskSubmits(w)
            PROVE  FALSE
        BY <4>1, <4>2 DEF Activate, Finish, Pop, RunEnds, TaskSubmits, Busy, LockInv
      <4>3. Busy' = Busy
        BY <4>2, SameBusy
      <4>4. UNCHANGED <<queue, submitted, done>>
        BY <2>2, <4>2 DEF Next, ClientCalls, ClientStep, WorkerStep, ClientSubmits, Push,
                          CallWait, Disable, NotifyOne, LockCompletion, ReadActive,
                          NotifyAll, Join, LockQueue, Test, NotifyCompletion,
                          WakeSpuriously, vars, data, ghosts
      <4> QED
        BY <4>1, <4>3, <4>4
    <3>2. waited
      <4>1. CASE ClientCalls \/ ClientStep
        BY <2>2, <4>1 DEF ClientCalls, ClientStep, ClientSubmits, Push, CallWait,
                          Disable, NotifyOne, LockCompletion, ReadActive, NotifyAll,
                          Join, ghosts
      <4>2. ASSUME NEW w \in Workers, WorkerStep(w) PROVE waited
        BY <4>2 DEF WorkerStep, LockQueue, Test, Activate, Pop, TaskSubmits, Push,
                    NotifyOne, RunEnds, Finish, NotifyCompletion, ghosts
      <4>3. ASSUME NEW t \in Threads, WakeSpuriously(t) PROVE waited
        BY <4>3 DEF WakeSpuriously, ghosts
      <4> QED
        BY <4>1, <4>2, <4>3 DEF Next, vars, ghosts
    <3> QED
      BY <3>1, <3>2
  <2> QED
    BY <2>1, <2>2
<1>2. pc'[Client] = "destroyed" => submitted' = done'
  <2> SUFFICES ASSUME pc'[Client] = "destroyed" PROVE submitted' = done'
    OBVIOUS
  <2>1. \A w \in Workers : pc'[w] = "exited" /\ queue' = <<>>
    BY CloseStep DEF CloseInv
  <2>2. queue' = <<>> /\ \A w \in Workers : task'[w] = {}
    BY <2>1, LockStep, WorkersAssumption DEF LockInv
  <2>3. (TypeOK /\ TaskInv /\ queue = <<>> /\ (\A w \in Workers : task[w] = {})
           => submitted = done)'
    BY NothingLeft, PTL
  <2> QED
    BY <2>2, <2>3, TaskStep, TypeStep
<1> QED
  BY <1>1, <1>2 DEF WaitMeansDone

LEMMA StepPool == PoolInv /\ [Next]_vars => PoolInv'
BY TypeStep, TaskStep, LockStep, CountStep, CloseStep, WaitStep DEF PoolInv

LEMMA AlwaysPool == Spec => []PoolInv
BY InitPool, StepPool, PTL DEF Spec

-----------------------------------------------------------------------------
(* The state keeps its types; ActiveThreads neither underflows nor exceeds *)
(* the number of threads.                                                  *)
THEOREM PoolTypeCorrect == Spec => []TypeOK
<1>1. PoolInv => TypeOK
  BY DEF PoolInv
<1> QED
  BY <1>1, AlwaysPool, PTL

(* When wait or the destructor returns, everything submitted has run, what *)
(* tasks submitted included.                                               *)
THEOREM WaitAlwaysMeansDone == Spec => []WaitMeansDone
<1>1. PoolInv => WaitMeansDone
  BY DEF PoolInv
<1> QED
  BY <1>1, AlwaysPool, PTL

(* wait's look at Tasks.empty() without QueueLock races with nobody, as    *)
(* the comment there claims.                                               *)
THEOREM QueueIsAlwaysQuiet == Spec => []QueueIsQuiet
<1>1. PoolInv => QueueIsQuiet
  BY DEF PoolInv, LockInv
<1> QED
  BY <1>1, AlwaysPool, PTL

(* No task is queued twice, run by two workers or run again.               *)
THEOREM TasksRunOnce == Spec => []EachTaskOnce
<1>1. PoolInv => EachTaskOnce
  BY DEF PoolInv, TaskInv
<1> QED
  BY <1>1, AlwaysPool, PTL
=============================================================================
