-------------------------- MODULE TsanMutexProofs --------------------------
(* The mutex is a reader-writer lock for every finite set of threads. *)
EXTENDS TsanMutex, FiniteSetTheorems, TLAPS

(* The readers the word counts.                                            *)
Counted == Readers \cup Spinning

IInv == TypeOK /\ WordCounts

(* The low bit of the word is the writer, the rest the readers.            *)
LEMMA Bit == ASSUME NEW n \in Nat, NEW w \in 0..1
             PROVE  WriteBit(kReadLock * n + kWriteLock * w) = w
BY DEF WriteBit, kReadLock, kWriteLock

(* The sets of threads are finite, so they can be counted.                 *)
LEMMA Finite == /\ IsFiniteSet(Writers) /\ Cardinality(Writers) \in Nat
                /\ IsFiniteSet(Counted) /\ Cardinality(Counted) \in Nat
<1>1. Writers \subseteq Threads /\ Counted \subseteq Threads
  BY DEF Writers, Counted, Readers, Spinning
<1> QED
  BY <1>1, ThreadsAssumption, FS_Subset, FS_CardinalityType

(* The word has room for every thread: it never wraps.                     *)
LEMMA Room ==
  ASSUME NEW C, NEW W, C \subseteq Threads, W \subseteq Threads, C \cap W = {},
         NEW n, n = kReadLock * Cardinality(C) + kWriteLock * Cardinality(W)
  PROVE  n \in 0..(WordSize - 1) /\ Wrapped(n) = n
<1>1. /\ IsFiniteSet(C) /\ Cardinality(C) \in Nat
      /\ IsFiniteSet(W) /\ Cardinality(W) \in Nat
  BY ThreadsAssumption, FS_Subset, FS_CardinalityType
<1>2. Cardinality(C \cup W) = Cardinality(C) + Cardinality(W)
  <2>1. Cardinality(C \cap W) = 0
    BY FS_EmptySet
  <2>2. Cardinality(C \cup W)
          = Cardinality(C) + Cardinality(W) - Cardinality(C \cap W)
    BY <1>1, FS_Union
  <2> QED BY <1>1, <2>1, <2>2
<1>3. /\ Cardinality(Threads) \in Nat
      /\ Cardinality(C \cup W) <= Cardinality(Threads)
  <2>1. C \cup W \subseteq Threads
    OBVIOUS
  <2> QED BY <2>1, ThreadsAssumption, FS_Subset, FS_CardinalityType
<1>4. n \in Nat /\ n < WordSize /\ WordSize \in Nat
  BY <1>1, <1>2, <1>3, WordSizeAssumption DEF kReadLock, kWriteLock
<1> QED BY <1>4 DEF Wrapped

(* A step whose atomic operation keeps the word in step with the sets      *)
(* keeps the invariant.                                                    *)
LEMMA SameWord ==
  ASSUME pc' \in [Threads -> Labels], Cardinality(Writers') <= 1,
         NEW STATE n, state' = Wrapped(n),
         n = kReadLock * Cardinality(Counted') + kWriteLock * Cardinality(Writers')
  PROVE  IInv'
<1>1. /\ Writers' \subseteq Threads /\ Counted' \subseteq Threads
      /\ Counted' \cap Writers' = {}
  BY DEF Writers, Counted, Readers, Spinning
<1>2. n \in 0..(WordSize - 1) /\ state' = n
  BY <1>1, Room
<1> QED BY <1>2 DEF IInv, TypeOK, WordCounts, Counted

(* What the word says in a state that satisfies the invariant.             *)
LEMMA Reading ==
  ASSUME TypeOK, WordCounts
  PROVE  /\ WriteBit(state) = Cardinality(Writers)
         /\ state = kUnlocked <=> Counted = {} /\ Writers = {}
         /\ WriteBit(state) = 0 <=> Writers = {}
<1> DEFINE n == Cardinality(Counted)
           w == Cardinality(Writers)
<1>1. n \in Nat /\ w \in 0..1 /\ state = kReadLock * n + kWriteLock * w
  BY Finite DEF WordCounts, Counted
<1>2. (n = 0 <=> Counted = {}) /\ (w = 0 <=> Writers = {})
  BY Finite, FS_EmptySet
<1> HIDE DEF n, w
<1>3. WriteBit(state) = w
  BY <1>1, Bit
<1>4. state = kUnlocked <=> n = 0 /\ w = 0
  BY <1>1 DEF kUnlocked, kReadLock, kWriteLock
<1> QED
  BY <1>2, <1>3, <1>4 DEF n, w

(* How each step moves its thread between the sets.                        *)
LEMMA Moves ==
  ASSUME TypeOK, NEW t \in Threads, NEW from, NEW to \in Labels, Step(t, from, to)
  PROVE  /\ Writers' = IF to = "writing" THEN Writers \cup {t} ELSE Writers \ {t}
         /\ Readers' = IF to = "reading" THEN Readers \cup {t} ELSE Readers \ {t}
         /\ Counted' = IF to \in {"reading", "readSpin"} THEN Counted \cup {t}
                       ELSE Counted \ {t}
         /\ t \in Writers <=> from = "writing"
         /\ t \in Readers <=> from = "reading"
         /\ t \in Counted <=> from \in {"reading", "readSpin"}
BY DEF Step, TypeOK, Writers, Readers, Spinning, Counted

(* A step that changes neither the word nor the counted sets keeps the     *)
(* invariant.                                                              *)
LEMMA SameCount ==
  ASSUME IInv, TypeOK', state' = state, Writers' = Writers, Counted' = Counted
  PROVE  IInv'
BY DEF IInv, WordCounts, Counted

(* Taking the free word makes one writer.                                  *)
LEMMA TakeWord ==
  ASSUME IInv, pc' \in [Threads -> Labels], state = kUnlocked,
         state' = kWriteLock, NEW t \in Threads,
         Writers' = Writers \cup {t}, Counted' = Counted \ {t}
  PROVE  IInv'
<1>1. Writers' = {t} /\ Counted' = {}
  BY Reading DEF IInv
<1>2. Cardinality({t}) = 1 /\ Cardinality({}) = 0
  BY FS_Singleton, FS_EmptySet
<1>3. Cardinality(Writers') = 1 /\ Cardinality(Counted') = 0
  BY <1>1, <1>2
<1>4. kWriteLock = kReadLock * Cardinality(Counted')
                   + kWriteLock * Cardinality(Writers')
  BY <1>3 DEF kWriteLock, kReadLock
<1>5. kWriteLock \in 0..(WordSize - 1)
  BY <1>1, <1>4, Room
<1> QED
  BY <1>3, <1>4, <1>5 DEF IInv, TypeOK, WordCounts, Counted

(* Every step of every thread keeps the count.                             *)
LEMMA StepIInv == IInv /\ [Next]_vars => IInv'
<1> SUFFICES ASSUME IInv, [Next]_vars PROVE IInv'
  OBVIOUS
<1>0. TypeOK /\ WordCounts
  BY DEF IInv
<1>1. CASE UNCHANGED vars
  BY <1>0, <1>1, SameCount DEF vars, TypeOK, Writers, Counted, Readers, Spinning
<1>2. ASSUME NEW t \in Threads, Lock(t) PROVE IInv'
  <2>1. CASE state = kUnlocked
    <3>1. Step(t, "outside", "writing") /\ state' = kWriteLock
      BY <1>2, <2>1 DEF Lock
    <3>2. pc' \in [Threads -> Labels]
      BY <1>0, <3>1 DEF TypeOK, Step, Labels
    <3> QED BY <1>0, <2>1, <3>1, <3>2, Moves, TakeWord DEF Labels
  <2>2. CASE state # kUnlocked
    <3>1. Step(t, "outside", "spin") /\ state' = state
      BY <1>2, <2>2 DEF Lock
    <3>2. TypeOK'
      BY <1>0, <3>1 DEF TypeOK, Step, Labels
    <3> QED BY <1>0, <3>1, <3>2, Moves, SameCount DEF Labels
  <2> QED BY <2>1, <2>2
<1>3. ASSUME NEW t \in Threads, SeeUnlocked(t) PROVE IInv'
  <2>1. Step(t, "spin", "cas") /\ state' = state
    BY <1>3 DEF SeeUnlocked
  <2>2. TypeOK'
    BY <1>0, <2>1 DEF TypeOK, Step, Labels
  <2> QED BY <1>0, <2>1, <2>2, Moves, SameCount DEF Labels
<1>4. ASSUME NEW t \in Threads, TryLock(t) PROVE IInv'
  <2>1. CASE /\ state = kUnlocked
             /\ state' = kWriteLock
             /\ Step(t, "cas", "writing")
    <3>1. pc' \in [Threads -> Labels]
      BY <1>0, <2>1 DEF TypeOK, Step, Labels
    <3> QED BY <1>0, <2>1, <3>1, Moves, TakeWord DEF Labels
  <2>2. CASE Step(t, "cas", "spin") /\ UNCHANGED state
    <3>1. TypeOK'
      BY <1>0, <2>2 DEF TypeOK, Step, Labels
    <3> QED BY <1>0, <2>2, <3>1, Moves, SameCount DEF Labels
  <2> QED BY <1>4, <2>1, <2>2 DEF TryLock
<1>5. ASSUME NEW t \in Threads, Unlock(t) PROVE IInv'
  <2>1. Step(t, "writing", "outside") /\ state' = Wrapped(state - kWriteLock)
    BY <1>5 DEF Unlock
  <2>2. t \in Writers /\ Writers' = Writers \ {t} /\ Counted' = Counted
    BY <1>0, <2>1, Moves DEF Labels
  <2>3. Cardinality(Writers') = Cardinality(Writers) - 1
    BY <2>2, Finite, FS_RemoveElement
  <2>4. pc' \in [Threads -> Labels]
    BY <1>0, <2>1 DEF TypeOK, Step, Labels
  <2>5. Cardinality(Counted') = Cardinality(Counted)
    BY <2>2
  <2>6. /\ Cardinality(Writers') <= 1
        /\ state - kWriteLock = kReadLock * Cardinality(Counted')
                                + kWriteLock * Cardinality(Writers')
    BY <1>0, <2>3, <2>5, Finite DEF WordCounts, Counted, kWriteLock, kReadLock
  <2> QED BY <2>1, <2>4, <2>6, SameWord
<1>6. ASSUME NEW t \in Threads, ReadLock(t) PROVE IInv'
  <2>1. PICK to \in {"reading", "readSpin"} : Step(t, "outside", to)
    BY <1>6 DEF ReadLock
  <2>2. t \notin Counted /\ Writers' = Writers /\ Counted' = Counted \cup {t}
    BY <1>0, <2>1, Moves DEF Labels
  <2>3. Cardinality(Counted') = Cardinality(Counted) + 1
    BY <2>2, Finite, FS_AddElement
  <2>4. pc' \in [Threads -> Labels] /\ state' = Wrapped(state + kReadLock)
    BY <1>0, <1>6, <2>1 DEF ReadLock, TypeOK, Step, Labels
  <2>5. /\ Cardinality(Writers') <= 1
        /\ state + kReadLock = kReadLock * Cardinality(Counted')
                               + kWriteLock * Cardinality(Writers')
    BY <1>0, <2>2, <2>3, Finite DEF WordCounts, Counted, kWriteLock, kReadLock
  <2> QED BY <2>4, <2>5, SameWord
<1>7. ASSUME NEW t \in Threads, SeeNoWriter(t) PROVE IInv'
  <2>1. Step(t, "readSpin", "reading") /\ state' = state
    BY <1>7 DEF SeeNoWriter
  <2>2. TypeOK'
    BY <1>0, <2>1 DEF TypeOK, Step, Labels
  <2>3. Writers' = Writers /\ Counted' = Counted
    BY <1>0, <2>1, Moves DEF Labels
  <2> QED BY <2>1, <2>2, <2>3, SameCount
<1>8. ASSUME NEW t \in Threads, ReadUnlock(t) PROVE IInv'
  <2>1. Step(t, "reading", "outside") /\ state' = Wrapped(state - kReadLock)
    BY <1>8 DEF ReadUnlock
  <2>2. t \in Counted /\ Writers' = Writers /\ Counted' = Counted \ {t}
    BY <1>0, <2>1, Moves DEF Labels
  <2>3. Cardinality(Counted') = Cardinality(Counted) - 1
    BY <2>2, Finite, FS_RemoveElement
  <2>4. pc' \in [Threads -> Labels]
    BY <1>0, <2>1 DEF TypeOK, Step, Labels
  <2>5. /\ Cardinality(Writers') <= 1
        /\ state - kReadLock = kReadLock * Cardinality(Counted')
                               + kWriteLock * Cardinality(Writers')
    BY <1>0, <2>2, <2>3, Finite DEF WordCounts, Counted, kWriteLock, kReadLock
  <2> QED BY <2>1, <2>4, <2>5, SameWord
<1> QED
  BY <1>1, <1>2, <1>3, <1>4, <1>5, <1>6, <1>7, <1>8 DEF Next

(* Nobody is counted in the beginning.                                     *)
LEMMA InitIInv == Init => IInv
<1> SUFFICES ASSUME Init PROVE IInv
  OBVIOUS
<1>1. Writers = {} /\ Counted = {}
  BY DEF Init, Writers, Counted, Readers, Spinning
<1>2. Cardinality(Writers) = 0 /\ Cardinality(Counted) = 0
  BY <1>1, FS_EmptySet
<1>3. kUnlocked = kReadLock * Cardinality(Counted)
                  + kWriteLock * Cardinality(Writers)
  BY <1>2 DEF kUnlocked, kReadLock, kWriteLock
<1>4. kUnlocked \in 0..(WordSize - 1)
  BY <1>1, <1>3, Room
<1> QED
  BY <1>2, <1>3, <1>4 DEF IInv, Init, TypeOK, Labels, WordCounts, Counted

(* The word counts the writer and the readers, whatever atomic operations  *)
(* interleave.                                                             *)
THEOREM WordIsExact == Spec => [](TypeOK /\ WordCounts)
<1>1. IInv => TypeOK /\ WordCounts
  BY DEF IInv
<1> QED
  BY <1>1, InitIInv, StepIInv, PTL DEF Spec

(* Readers and a writer are never inside together.                         *)
Exclusion == Readers = {} \/ Writers = {}

(* Every step keeps them apart.                                            *)
LEMMA StepExclusion == IInv /\ Exclusion /\ [Next]_vars => Exclusion'
<1> SUFFICES ASSUME IInv, Exclusion, [Next]_vars PROVE Exclusion'
  OBVIOUS
<1>0. TypeOK /\ WordCounts
  BY DEF IInv
<1>1. CASE UNCHANGED vars
  BY <1>1 DEF vars, Exclusion, Readers, Writers
<1>2. ASSUME NEW t \in Threads, Lock(t) \/ TryLock(t) PROVE Exclusion'
  <2>1. CASE state = kUnlocked
    <3>1. Readers = {}
      BY <1>0, <2>1, Reading DEF Counted
    <3>2. PICK from, to \in Labels \ {"reading"} : Step(t, from, to)
      BY <1>2 DEF Lock, TryLock, Labels
    <3>3. Readers' = {}
      BY <1>0, <3>1, <3>2, Moves
    <3> QED BY <3>3 DEF Exclusion
  <2>2. CASE state # kUnlocked
    <3>1. PICK from, to \in Labels \ {"reading", "writing"} : Step(t, from, to)
      BY <1>2, <2>2 DEF Lock, TryLock, Labels
    <3>2. Readers' \subseteq Readers /\ Writers' \subseteq Writers
      BY <1>0, <3>1, Moves
    <3> QED BY <3>2 DEF Exclusion
  <2> QED BY <2>1, <2>2
<1>3. ASSUME NEW t \in Threads, SeeUnlocked(t) \/ Unlock(t) \/ ReadUnlock(t)
      PROVE  Exclusion'
  <2>1. PICK from, to \in Labels \ {"reading", "writing"} :
          Step(t, from, to) \/ Step(t, "writing", to) \/ Step(t, "reading", to)
    BY <1>3 DEF SeeUnlocked, Unlock, ReadUnlock, Labels
  <2>2. Readers' \subseteq Readers /\ Writers' \subseteq Writers
    BY <1>0, <2>1, Moves
  <2> QED BY <2>2 DEF Exclusion
<1>4. ASSUME NEW t \in Threads, ReadLock(t) \/ SeeNoWriter(t) PROVE Exclusion'
  <2>1. PICK from, to \in Labels \ {"writing"} : Step(t, from, to)
    BY <1>4 DEF ReadLock, SeeNoWriter, Labels
  <2>2. Writers' \subseteq Writers
    BY <1>0, <2>1, Moves
  <2>3. CASE WriteBit(state) = 0
    BY <1>0, <2>2, <2>3, Reading DEF Exclusion
  <2>4. CASE WriteBit(state) # 0
    <3>1. Step(t, "outside", "readSpin")
      BY <1>4, <2>4 DEF ReadLock, SeeNoWriter
    <3>2. Readers' \subseteq Readers
      BY <1>0, <3>1, Moves DEF Labels
    <3> QED BY <2>2, <3>2 DEF Exclusion
  <2> QED BY <2>3, <2>4
<1> QED
  BY <1>1, <1>2, <1>3, <1>4 DEF Next

(* Nobody is inside in the beginning, so they stay apart.                  *)
LEMMA AlwaysApart == Spec => [](IInv /\ Exclusion)
<1>1. Init => Exclusion
  BY DEF Init, Exclusion, Readers
<1> QED
  BY <1>1, InitIInv, StepIInv, StepExclusion, PTL DEF Spec

(* The debug checks in Unlock and ReadUnlock never fail.                   *)
THEOREM ChecksNeverFail == Spec => []ChecksHold
<1>1. ASSUME TypeOK, WordCounts, Exclusion PROVE ChecksHold
  <2>1. ASSUME Writers # {} PROVE WriteBit(state) # 0
    BY <1>1, <2>1, Reading
  <2>2. ASSUME NEW t \in Readers
        PROVE  WriteBit(state) = 0 /\ state - WriteBit(state) > 0
    <3>1. Counted # {}
      BY <2>2 DEF Counted
    <3>2. Writers = {}
      BY <1>1, <2>2 DEF Exclusion
    <3>3. WriteBit(state) = 0 /\ state # kUnlocked
      BY <1>1, <3>1, <3>2, Reading
    <3>4. state >= 0
      BY <1>1, Finite DEF WordCounts, Counted, kReadLock, kWriteLock
    <3> QED BY <1>1, <3>3, <3>4 DEF TypeOK, kUnlocked
  <2> QED BY <2>1, <2>2 DEF ChecksHold
<1> QED
  BY <1>1, AlwaysApart, PTL DEF IInv

(* The mutex implements the reader-writer lock, for every finite set of    *)
(* threads: readers may share it, a writer has it alone, and a thread      *)
(* leaves only what it entered.                                            *)
THEOREM Implements == Spec => IsReadWriteLock
<1> USE DEF RWLock!Next, RWLock!EnterRead, RWLock!EnterWrite,
            RWLock!LeaveRead, RWLock!LeaveWrite
<1>1. Init => RWLock!Init
  BY DEF Init, RWLock!Init, Readers, Writers
<1>2. ASSUME IInv, Exclusion, [Next]_vars
      PROVE  [RWLock!Next]_<<Readers, Writers>>
  <2>0. TypeOK /\ WordCounts
    BY <1>2 DEF IInv
  <2>1. CASE UNCHANGED vars
    BY <2>1 DEF vars, Readers, Writers
  <2>2. ASSUME NEW t \in Threads, state = kUnlocked,
               Step(t, "outside", "writing") \/ Step(t, "cas", "writing")
        PROVE  RWLock!Next
    <3>1. Readers = {} /\ Writers = {}
      BY <2>0, <2>2, Reading DEF Counted
    <3>2. Readers' = Readers /\ Writers' = {t}
      BY <2>0, <2>2, <3>1, Moves DEF Labels
    <3> QED BY <3>1, <3>2
  <2>3. ASSUME NEW t \in Threads, Unlock(t) PROVE RWLock!Next
    <3>1. t \in Writers /\ Readers' = Readers /\ Writers' = Writers \ {t}
      BY <2>0, <2>3, Moves DEF Unlock, Labels
    <3>2. Writers = {t}
      <4>1. Cardinality(Writers) = 1
        BY <2>0, <3>1, Finite, FS_EmptySet DEF WordCounts
      <4>2. PICK x : Writers = {x}
        BY <4>1, Finite, FS_Singleton
      <4> QED BY <3>1, <4>2
    <3> QED BY <3>1, <3>2
  <2>4. ASSUME NEW t \in Threads, WriteBit(state) = 0,
               Step(t, "outside", "reading") \/ Step(t, "readSpin", "reading")
        PROVE  RWLock!Next
    <3>1. Writers = {}
      BY <2>0, <2>4, Reading
    <3>2. t \notin Readers /\ Readers' = Readers \cup {t} /\ Writers' = Writers
      BY <2>0, <2>4, <3>1, Moves DEF Labels
    <3> QED BY <3>1, <3>2
  <2>5. ASSUME NEW t \in Threads, ReadUnlock(t) PROVE RWLock!Next
    <3>1. t \in Readers /\ Readers' = Readers \ {t} /\ Writers' = Writers
      BY <2>0, <2>5, Moves DEF ReadUnlock, Labels
    <3> QED BY <3>1
  <2>6. ASSUME NEW t \in Threads,
               NEW from \in {"outside", "spin", "cas"},
               NEW to \in {"spin", "cas", "readSpin"}, Step(t, from, to)
        PROVE  UNCHANGED <<Readers, Writers>>
    BY <2>0, <2>6, Moves DEF Labels
  <2> QED
    BY <1>2, <2>1, <2>2, <2>3, <2>4, <2>5, <2>6
       DEF Next, Lock, SeeUnlocked, TryLock, ReadLock, SeeNoWriter
<1> QED
  BY <1>1, <1>2, AlwaysApart, PTL DEF Spec, IsReadWriteLock, RWLock!Spec
=============================================================================
