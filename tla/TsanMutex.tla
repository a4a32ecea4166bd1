----------------------------- MODULE TsanMutex -----------------------------
(***************************************************************************)
(* __tsan::Mutex, the reader-writer spin lock of ThreadSanitizer's run     *)
(* time.  One word holds kWriteLock while a writer is inside, and          *)
(* kReadLock times the readers that are inside or spin at the door: a      *)
(* reader adds itself first and looks for the writer afterwards.           *)
(* Every action is one atomic operation on the word.                       *)
(***************************************************************************)
EXTENDS Integers, FiniteSets

CONSTANTS Threads,
          WordSize   \* how many values the word has: 2^64 or 2^32

ASSUME ThreadsAssumption == IsFiniteSet(Threads)

kUnlocked  == 0
kWriteLock == 1
kReadLock  == 2

(* Nothing in the code keeps the readers from carrying out of the word:    *)
(* the run time has at most kMaxTid = 2^13 threads, far fewer than that.   *)
ASSUME WordSizeAssumption ==
  WordSize \in Nat /\ kReadLock * Cardinality(Threads) < WordSize

VARIABLES state,   \* state_
          pc       \* where each thread is in the member function it runs

vars == <<state, pc>>

Labels == {"outside", "spin", "cas", "writing", "readSpin", "reading"}

TypeOK == state \in 0..(WordSize - 1) /\ pc \in [Threads -> Labels]

Init == state = kUnlocked /\ pc = [t \in Threads |-> "outside"]

Step(t, from, to) == pc[t] = from /\ pc' = [pc EXCEPT ![t] = to]

WriteBit(word) == word % kReadLock

(* Unsigned arithmetic: fetch_add and fetch_sub wrap.                      *)
Wrapped(word) == word % WordSize

-----------------------------------------------------------------------------
(* Lock: the first compare-and-swap.                                       *)
Lock(t) == \/ /\ state = kUnlocked
              /\ state' = kWriteLock
              /\ Step(t, "outside", "writing")
           \/ /\ state # kUnlocked
              /\ Step(t, "outside", "spin")
              /\ UNCHANGED state

(* Lock: the load of the spin loop sees the mutex free ...                 *)
SeeUnlocked(t) == /\ state = kUnlocked
                  /\ Step(t, "spin", "cas")
                  /\ UNCHANGED state

(* Mutant: only another writer is looked out for.                          *)
TryLockAmongReaders(t) == /\ WriteBit(state) = 0
                          /\ state' = Wrapped(state + kWriteLock)
                          /\ Step(t, "cas", "writing")

(* ... and a weak compare-and-swap tries to take it, or fails for no reason*)
TryLock(t) == \/ /\ state = kUnlocked
                 /\ state' = kWriteLock
                 /\ Step(t, "cas", "writing")
              \/ Step(t, "cas", "spin") /\ UNCHANGED state

Unlock(t) == /\ state' = Wrapped(state - kWriteLock)
             /\ Step(t, "writing", "outside")

(* Mutant: a reader that meets a writer is not counted.                    *)
ReadLockUncounted(t) ==
  \/ /\ WriteBit(state) = 0
     /\ state' = Wrapped(state + kReadLock)
     /\ Step(t, "outside", "reading")
  \/ /\ WriteBit(state) # 0
     /\ Step(t, "outside", "readSpin")
     /\ UNCHANGED state

(* ReadLock: fetch_add, then its result decides.                           *)
ReadLock(t) ==
  /\ state' = Wrapped(state + kReadLock)
  /\ \/ WriteBit(state) = 0 /\ Step(t, "outside", "reading")
     \/ WriteBit(state) # 0 /\ Step(t, "outside", "readSpin")

(* Mutants: the spin loop does not look, or looks at the whole word.       *)
SeeNothing(t) == Step(t, "readSpin", "reading") /\ UNCHANGED state
SeeNobody(t) == state = kUnlocked /\ SeeNothing(t)

SeeNoWriter(t) == /\ WriteBit(state) = 0
                  /\ Step(t, "readSpin", "reading")
                  /\ UNCHANGED state

ReadUnlock(t) == /\ state' = Wrapped(state - kReadLock)
                 /\ Step(t, "reading", "outside")

Next == \E t \in Threads : \/ Lock(t) \/ SeeUnlocked(t) \/ TryLock(t)
                           \/ Unlock(t) \/ ReadLock(t) \/ SeeNoWriter(t)
                           \/ ReadUnlock(t)

Spec == Init /\ [][Next]_vars

(* Spinning threads are scheduled and critical sections end.               *)
FairSpec == /\ Spec
            /\ \A t \in Threads : WF_vars(SeeNoWriter(t)) /\ WF_vars(Unlock(t))

-----------------------------------------------------------------------------
Writers == {t \in Threads : pc[t] = "writing"}
Readers == {t \in Threads : pc[t] = "reading"}
Spinning == {t \in Threads : pc[t] = "readSpin"}

(* The word counts exactly the threads the code believes it counts, spin-  *)
(* ning readers included: no interleaving of fetch_add, fetch_sub and      *)
(* compare-and-swap loses a reader or turns one into a writer.             *)
WordCounts ==
  /\ Cardinality(Writers) <= 1
  /\ state = kReadLock * Cardinality(Readers \cup Spinning)
             + kWriteLock * Cardinality(Writers)

(* The DCHECKs of Unlock and ReadUnlock: the writer finds its bit set; a   *)
(* reader finds no writer and itself counted.                              *)
ChecksHold ==
  /\ \A t \in Writers : WriteBit(state) # 0
  /\ \A t \in Readers : WriteBit(state) = 0 /\ state - WriteBit(state) > 0

(* The mutex is a reader-writer lock.                                      *)
RWLock == INSTANCE ReadWriteLock WITH reading <- Readers, writing <- Writers
IsReadWriteLock == RWLock!Spec

(* A reader that has added itself keeps new writers out, so it enters once *)
(* the writer inside leaves, whatever else arrives.  (A writer has no such *)
(* promise: readers can keep it out for ever.)                             *)
ReadersEnter == \A t \in Threads : pc[t] = "readSpin" ~> pc[t] = "reading"
=============================================================================
