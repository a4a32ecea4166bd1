----------------------------- MODULE ThreadPool ----------------------------
(***************************************************************************)
(* llvm::ThreadPool: workers that take tasks from a queue, a client that   *)
(* submits, waits and destroys, and tasks that may submit further tasks.   *)
(* Two mutexes, QueueLock and CompletionLock, each with its condition      *)
(* variable; a thread asleep on one is at the label "asleep...", and       *)
(* notify moves it to the label where it takes the mutex again.            *)
(* ThreadPool.h calls it an error to add tasks while wait blocks; the code *)
(* does not prevent it and the properties do not need it: here tasks that  *)
(* run while the client waits may submit others.                           *)
(*                                                                         *)
(* An action is what a thread does between two points where another thread *)
(* can see a difference: taking a mutex, giving it back, notifying.        *)
(***************************************************************************)
EXTENDS Integers, FiniteSets, Sequences

CONSTANTS Workers,      \* the threads of the pool
          Client,       \* the thread that owns the pool
          Nobody,       \* holder of a mutex that is free
          Tasks,        \* the tasks the client may submit
          Spawns,       \* Spawns[t]: the tasks that t submits when it runs
          MaxSpurious   \* bound: wakeups without a notification

Threads == Workers \cup {Client}
AllTasks == Tasks \cup UNION {Spawns[t] : t \in Tasks}

ASSUME ThreadsAssumption == Client \notin Workers /\ Nobody \notin Threads
(* The default size is the number of cores.  A pool without threads would  *)
(* run nothing.                                                            *)
ASSUME WorkersAssumption == IsFiniteSet(Workers) /\ Workers # {}
ASSUME SpuriousAssumption == MaxSpurious \in Nat
ASSUME SpawnsAssumption == Spawns \in [AllTasks -> SUBSET (AllTasks \ Tasks)]

VARIABLES queue,            \* Tasks
          enabled,          \* EnableFlag
          active,           \* ActiveThreads
          queueLock, completionLock,   \* who holds the mutexes
          pc,
          task,             \* task[w]: the tasks w took and has not finished
          waited,           \* the client has waited since it last submitted
          submitted, done,  \* history: tasks pushed, tasks that ran
          spurious          \* spurious wakeups so far

data == <<queue, enabled, active, task>>
ghosts == <<waited, submitted, done>>
locks == <<queueLock, completionLock>>
vars == <<data, locks, pc, ghosts, spurious>>

WorkerLabels == {"lockQueue", "test", "asleepQueue", "activate", "pop", "run",
                 "spawned", "finish", "notify", "exited"}
ClientLabels == {"idle", "pushed", "lockCompletion", "readActive", "readTasks",
                 "asleepCompletion", "disabled", "join", "destroyed"}

TypeOK == /\ queue \in Seq(AllTasks)
          /\ enabled \in BOOLEAN /\ waited \in BOOLEAN
          /\ active \in 0..Cardinality(Workers)
          /\ queueLock \in Workers \cup {Nobody}
          /\ completionLock \in {Client, Nobody}
          /\ \A w \in Workers : pc[w] \in WorkerLabels
          /\ pc[Client] \in ClientLabels
          /\ task \in [Workers -> SUBSET AllTasks]
          /\ done \subseteq submitted /\ submitted \subseteq AllTasks
          /\ spurious \in 0..MaxSpurious

Init == /\ queue = <<>> /\ enabled = TRUE /\ active = 0
        /\ queueLock = Nobody /\ completionLock = Nobody
        /\ pc = [t \in Threads |-> IF t = Client THEN "idle" ELSE "lockQueue"]
        /\ task = [w \in Workers |-> {}]
        /\ waited = FALSE /\ submitted = {} /\ done = {}
        /\ spurious = 0

Goto(t, from, to) == pc[t] = from /\ pc' = [pc EXCEPT ![t] = to]

-----------------------------------------------------------------------------
(* The loop of a worker.                                                   *)

LockQueue(w) == /\ queueLock = Nobody
                /\ queueLock' = w
                /\ Goto(w, "lockQueue", "test")
                /\ UNCHANGED <<data, completionLock, ghosts, spurious>>

(* Mutant: a disabled pool does not drain its queue.                       *)
TestAbandons(w) ==
  /\ queueLock' = IF enabled /\ queue # <<>> THEN w ELSE Nobody
  /\ Goto(w, "test", IF ~enabled THEN "exited"
                     ELSE IF queue = <<>> THEN "asleepQueue" ELSE "activate")
  /\ UNCHANGED <<data, completionLock, ghosts, spurious>>

(* The predicate of QueueCondition.wait, then the exit condition.          *)
Test(w) ==
  /\ \/ /\ enabled /\ queue = <<>>
        /\ queueLock' = Nobody
        /\ Goto(w, "test", "asleepQueue")
     \/ /\ ~enabled /\ queue = <<>>
        /\ queueLock' = Nobody
        /\ Goto(w, "test", "exited")
     \/ /\ queue # <<>>
        /\ Goto(w, "test", "activate")
        /\ UNCHANGED queueLock
  /\ UNCHANGED <<data, completionLock, ghosts, spurious>>

(* Mutant: ++ActiveThreads without CompletionLock.                         *)
ActivateUnlocked(w) == /\ active' = active + 1
                       /\ Goto(w, "activate", "pop")
                       /\ UNCHANGED <<queue, enabled, task, locks, ghosts, spurious>>

(* ++ActiveThreads under both mutexes, before the queue is touched.        *)
Activate(w) == /\ completionLock = Nobody
               /\ active' = active + 1
               /\ Goto(w, "activate", "pop")
               /\ UNCHANGED <<queue, enabled, task, locks, ghosts, spurious>>

(* Mutant: front() without pop().                                          *)
PopKeeps(w) == /\ Goto(w, "pop", "run")
               /\ task' = [task EXCEPT ![w] = {Head(queue)}]
               /\ queueLock' = Nobody
               /\ UNCHANGED <<queue, enabled, active, completionLock, ghosts,
                              spurious>>

Pop(w) == /\ Goto(w, "pop", "run")
          /\ task' = [task EXCEPT ![w] = {Head(queue)}]
          /\ queue' = Tail(queue)
          /\ queueLock' = Nobody
          /\ UNCHANGED <<enabled, active, completionLock, ghosts, spurious>>

(* Task() is over.                                                         *)
RunEnds(w) == /\ \A t \in task[w] : Spawns[t] \subseteq submitted
              /\ Goto(w, "run", "finish")
              /\ done' = done \cup task[w]
              /\ task' = [task EXCEPT ![w] = {}]
              /\ UNCHANGED <<queue, enabled, active, locks, waited, submitted,
                             spurious>>

(* Mutant: ActiveThreads is not decremented.                               *)
FinishUncounted(w) == /\ completionLock = Nobody
                      /\ Goto(w, "finish", "notify")
                      /\ UNCHANGED <<data, locks, ghosts, spurious>>

Finish(w) == /\ completionLock = Nobody
             /\ active' = active - 1
             /\ Goto(w, "finish", "notify")
             /\ UNCHANGED <<queue, enabled, task, locks, ghosts, spurious>>

(* Mutant: nobody is notified.                                             *)
NotifyNobody(w) == Goto(w, "notify", "lockQueue")
                   /\ UNCHANGED <<data, locks, ghosts, spurious>>

(* CompletionCondition.notify_all.                                         *)
NotifyCompletion(w) ==
  /\ pc[w] = "notify"
  /\ pc' = [pc EXCEPT ![w] = "lockQueue",
                      ![Client] = IF @ = "asleepCompletion" THEN "lockCompletion"
                                  ELSE @]
  /\ UNCHANGED <<data, locks, ghosts, spurious>>

-----------------------------------------------------------------------------
(* asyncImpl, called by the client or by a running task.                   *)

Push(t, job) == /\ queueLock = Nobody
                /\ queue' = Append(queue, job)
                /\ submitted' = submitted \cup {job}
                /\ waited' = FALSE
                /\ UNCHANGED <<enabled, active, task, locks, done, spurious>>

ClientSubmits == \E job \in Tasks \ submitted :
                   Push(Client, job) /\ Goto(Client, "idle", "pushed")

TaskSubmits(w) == \E t \in task[w] : \E job \in Spawns[t] \ submitted :
                    Push(w, job) /\ Goto(w, "run", "spawned")

(* QueueCondition.notify_one: some sleeper, if there is one.               *)
NotifyOne(t, from, to) ==
  /\ pc[t] = from
  /\ LET asleep == {w \in Workers : pc[w] = "asleepQueue"}
     IN \/ \E w \in asleep : pc' = [pc EXCEPT ![t] = to, ![w] = "lockQueue"]
        \/ asleep = {} /\ pc' = [pc EXCEPT ![t] = to]
  /\ UNCHANGED <<data, locks, ghosts, spurious>>

-----------------------------------------------------------------------------
(* wait.  Waiting again without submitting in between shows nothing new.   *)

CallWait == /\ ~waited
            /\ Goto(Client, "idle", "lockCompletion")
            /\ UNCHANGED <<data, locks, ghosts, spurious>>

LockCompletion == /\ completionLock = Nobody
                  /\ completionLock' = Client
                  /\ Goto(Client, "lockCompletion", "readActive")
                  /\ UNCHANGED <<data, queueLock, ghosts, spurious>>

(* Mutant: the predicate looks at Tasks alone.                             *)
ReadTasksOnly == /\ Goto(Client, "readActive", "readTasks")
                 /\ UNCHANGED <<data, locks, ghosts, spurious>>

(* The predicate: ActiveThreads first ...                                  *)
ReadActive ==
  /\ \/ /\ active = 0
        /\ Goto(Client, "readActive", "readTasks")
        /\ UNCHANGED completionLock
     \/ /\ active # 0
        /\ Goto(Client, "readActive", "asleepCompletion")
        /\ completionLock' = Nobody
  /\ UNCHANGED <<data, queueLock, ghosts, spurious>>

(* ... then Tasks.empty(), without QueueLock.                              *)
ReadTasks ==
  /\ completionLock' = Nobody
  /\ \/ queue = <<>> /\ Goto(Client, "readTasks", "idle") /\ waited' = TRUE
     \/ /\ queue # <<>>
        /\ Goto(Client, "readTasks", "asleepCompletion")
        /\ UNCHANGED waited
  /\ UNCHANGED <<data, queueLock, submitted, done, spurious>>

-----------------------------------------------------------------------------
(* The destructor.  asyncImpl asserts that nothing is submitted after it   *)
(* began: a client whose tasks submit tasks waits for them first.          *)

Disable == /\ \A t \in submitted : t \in done \/ Spawns[t] \subseteq submitted
           /\ queueLock = Nobody
           /\ enabled' = FALSE
           /\ Goto(Client, "idle", "disabled")
           /\ UNCHANGED <<queue, active, task, locks, ghosts, spurious>>

NotifyAll == /\ pc[Client] = "disabled"
             /\ pc' = [t \in Threads |->
                         IF t = Client THEN "join"
                         ELSE IF pc[t] = "asleepQueue" THEN "lockQueue" ELSE pc[t]]
             /\ UNCHANGED <<data, locks, ghosts, spurious>>

Join == /\ \A w \in Workers : pc[w] = "exited"
        /\ Goto(Client, "join", "destroyed")
        /\ UNCHANGED <<data, locks, ghosts, spurious>>

(* A condition variable may wake a thread that nobody notified.            *)
WakeSpuriously(t) == /\ spurious < MaxSpurious
                     /\ spurious' = spurious + 1
                     /\ \/ Goto(t, "asleepQueue", "lockQueue")
                        \/ Goto(t, "asleepCompletion", "lockCompletion")
                     /\ UNCHANGED <<data, locks, ghosts>>

-----------------------------------------------------------------------------
WorkerStep(w) == \/ LockQueue(w) \/ Test(w) \/ Activate(w) \/ Pop(w)
                 \/ TaskSubmits(w) \/ NotifyOne(w, "spawned", "run")
                 \/ RunEnds(w) \/ Finish(w) \/ NotifyCompletion(w)

ClientStep == \/ NotifyOne(Client, "pushed", "idle")
              \/ LockCompletion \/ ReadActive \/ ReadTasks
              \/ NotifyAll \/ Join

ClientCalls == ClientSubmits \/ CallWait \/ Disable

Next == \/ ClientStep \/ ClientCalls
        \/ \E w \in Workers : WorkerStep(w)
        \/ \E t \in Threads : WakeSpuriously(t)

Spec == Init /\ [][Next]_vars

(* The scheduler runs every thread that can run and tasks end; nothing     *)
(* obliges the client to call anything.                                    *)
Fairness == WF_vars(ClientStep) /\ \A w \in Workers : WF_vars(WorkerStep(w))
FairSpec == Spec /\ Fairness

-----------------------------------------------------------------------------
(* The workers that touch the queue, run a task or have yet to say that it *)
(* is over.                                                                *)
Busy == {w \in Workers : pc[w] \in {"pop", "run", "spawned", "finish"}}

(* When wait returns, everything submitted so far has run, the tasks that  *)
(* tasks submitted included; likewise when the destructor returns.         *)
WaitMeansDone == /\ waited => submitted = done /\ queue = <<>> /\ Busy = {}
                 /\ pc[Client] = "destroyed" => submitted = done

(* wait reads Tasks.empty() without QueueLock, "and this would be a race": *)
(* at that point nobody can be changing the queue.                         *)
QueueIsQuiet == pc[Client] = "readTasks" => Busy = {}

(* A task is in one place: queued once, taken by one worker, or done.      *)
EachTaskOnce ==
  /\ \A i, j \in DOMAIN queue : queue[i] = queue[j] => i = j
  /\ \A i \in DOMAIN queue : queue[i] \in submitted \ done
  /\ \A w \in Workers : /\ \A i \in DOMAIN queue : queue[i] \notin task[w]
                        /\ task[w] \cap done = {}
                        /\ \A v \in Workers \ {w} : task[v] \cap task[w] = {}

(* No call of the client blocks for ever: wait and the destructor return,  *)
(* without a wakeup being lost between a test and a sleep.                 *)
CallsReturn == pc[Client] \notin {"idle", "destroyed"}
                 ~> pc[Client] \in {"idle", "destroyed"}

(* Every submitted task runs, whether or not the client waits for it.      *)
EveryTaskRuns == \A t \in AllTasks : t \in submitted ~> t \in done
=============================================================================
