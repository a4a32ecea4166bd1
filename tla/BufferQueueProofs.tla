------------------------- MODULE BufferQueueProofs -------------------------
(***************************************************************************)
(* Proofs about BufferQueue, for any number of threads and buffers: each   *)
(* buffer is in one place, the log loses nothing that was returned, and    *)
(* the ring implements the pool.                                           *)
(***************************************************************************)
EXTENDS BufferQueue, FiniteSetTheorems, TLAPS

LEMMA Modulo ==
  ASSUME NEW a \in 0..(2 * BufferCount - 1)
  PROVE  a % BufferCount = IF a < BufferCount THEN a ELSE a - BufferCount
<1>1. CASE a < BufferCount
  BY <1>1, CountAssumption
<1>2. CASE ~(a < BufferCount)
  <2> DEFINE r == a - BufferCount
  <2>1. r \in 0..(BufferCount - 1) /\ a = BufferCount * 1 + r
    BY <1>2, CountAssumption
  <2>2. (BufferCount * 1 + r) % BufferCount = r
    BY <2>1, CountAssumption
  <2> QED
    BY <1>2, <2>1, <2>2
<1> QED
  BY <1>1, <1>2

LEMMA FiniteParts ==
  ASSUME NEW S \in SUBSET Buffers
  PROVE  IsFiniteSet(S) /\ Cardinality(Buffers \ S) = BufferCount - Cardinality(S)
<1>1. IsFiniteSet(Buffers) /\ Cardinality(Buffers) = BufferCount
  <2>1. /\ IsFiniteSet(0..(BufferCount - 1))
        /\ Cardinality(0..(BufferCount - 1)) =
             IF 0 > BufferCount - 1 THEN 0 ELSE BufferCount - 1 - 0 + 1
    BY CountAssumption, FS_Interval
  <2> QED
    BY <2>1, CountAssumption DEF Buffers, Slots
<1>2. IsFiniteSet(S) /\ Cardinality(S) \in Nat
  BY <1>1, FS_Subset, FS_CardinalityType
<1>3. Buffers \cap S = S
  OBVIOUS
<1>4. Cardinality(Buffers \ S) = Cardinality(Buffers) - Cardinality(Buffers \cap S)
  BY <1>1, FS_Difference
<1> QED
  BY <1>1, <1>2, <1>3, <1>4

(* The slots that hold the pool's buffers, without the modulo.             *)
InRing(i) == IF i < next THEN i + BufferCount - next < BufferCount - live
             ELSE i - next < BufferCount - live

LEMMA Ring == TypeOK => FreeSlots = {i \in Slots : InRing(i)}
<1> SUFFICES ASSUME TypeOK PROVE FreeSlots = {i \in Slots : InRing(i)}
  OBVIOUS
<1> USE CountAssumption DEF TypeOK, Slots
<1> DEFINE Wrap(a) == IF a < BufferCount THEN a ELSE a - BufferCount
<1>1. \A k \in 0..(BufferCount - live - 1) : (next + k) % BufferCount = Wrap(next + k)
  <2> SUFFICES ASSUME NEW k \in 0..(BufferCount - live - 1)
               PROVE  (next + k) % BufferCount = Wrap(next + k)
    OBVIOUS
  <2> next + k \in 0..(2 * BufferCount - 1)
    OBVIOUS
  <2> HIDE DEF TypeOK
  <2> QED
    BY Modulo
<1>2. \A k \in 0..(BufferCount - live - 1) :
        Wrap(next + k) \in Slots /\ InRing(Wrap(next + k))
  BY DEF InRing
<1>3. \A i \in Slots : InRing(i) =>
        \E k \in 0..(BufferCount - live - 1) : i = Wrap(next + k)
  <2> SUFFICES ASSUME NEW i \in Slots, InRing(i)
               PROVE  \E k \in 0..(BufferCount - live - 1) : i = Wrap(next + k)
    OBVIOUS
  <2> DEFINE k == IF i < next THEN i + BufferCount - next ELSE i - next
  <2> k \in 0..(BufferCount - live - 1) /\ i = Wrap(next + k)
    BY DEF InRing
  <2> QED
    OBVIOUS
<1> HIDE DEF Wrap
<1> QED
  BY <1>1, <1>2, <1>3 DEF FreeSlots

-----------------------------------------------------------------------------
(* The inductive invariant.  A thread has one buffer, none while it asks   *)
(* for one.  The ring's free slots begin at Next and end before First;     *)
(* they hold different buffers, the ones no thread has; and a slot that    *)
(* holds a returned buffer is marked used.                                 *)
Parted == /\ \A t \in Threads : \A a, b \in held[t] : a = b
          /\ \A s, t \in Threads : s # t => held[s] \cap held[t] = {}
          /\ \A t \in getting : held[t] = {}
Joined == next + (BufferCount - live) \in {first, first + BufferCount}
Distinct == \A i, j \in FreeSlots : slots[i] = slots[j] => i = j
Complete == Free \cap Lent = {} /\ Free \cup Lent = Buffers
Counted == live = Cardinality(Lent)
Marked == \A i \in FreeSlots : slots[i] \in returned => i \in used

RingInv == /\ TypeOK /\ Parted /\ Joined
           /\ Distinct /\ Complete /\ Counted /\ Marked

LEMMA InitRing == Init => RingInv
<1> SUFFICES ASSUME Init PROVE RingInv
  OBVIOUS
<1> USE DEF Init
<1>0. 0 \in Slots /\ BufferCount \in Nat \ {0}
  BY CountAssumption DEF Slots
<1>1. TypeOK
  <2>1. slots \in [Slots -> Buffers] /\ live \in 0..BufferCount
    BY <1>0 DEF Buffers
  <2> QED
    BY <1>0, <2>1 DEF TypeOK
<1>2. FreeSlots = Slots
  <2>1. \A i \in Slots : InRing(i)
    BY <1>0 DEF InRing, Slots
  <2> QED
    BY <1>1, <2>1, Ring
<1>3. Free = Buffers
  BY <1>2 DEF Free, Buffers
<1>4. Lent = {}
  BY DEF Lent
<1>5. Counted
  BY <1>4, FS_EmptySet DEF Counted
<1> QED
  BY <1>0, <1>1, <1>2, <1>3, <1>4, <1>5
     DEF RingInv, Parted, Joined, Distinct, Complete, Marked

(* What a thread is lent leaves the ring.                                  *)
LEMMA GetStep ==
  ASSUME RingInv, NEW t \in Threads, Get(t)
  PROVE  /\ RingInv'
         /\ slots[next] \in Free
         /\ Free' = Free \ {slots[next]}
<1> USE CountAssumption DEF RingInv
<1>1. TypeOK'
  BY DEF TypeOK, Get, After, Slots, Buffers
<1>2. next \in FreeSlots /\ FreeSlots' = FreeSlots \ {next}
  <2>1. (TypeOK => FreeSlots = {i \in Slots : InRing(i)})'
    BY Ring, PTL
  <2> QED
    BY <1>1, <2>1, Ring DEF InRing, Get, TypeOK, After, Slots
<1>3. slots[next] \in Free /\ Free' = Free \ {slots[next]}
  BY <1>2 DEF Free, Distinct, Get
<1>4. Lent' = Lent \cup {slots[next]}
  BY DEF Lent, Get, Parted, TypeOK
<1>5. Parted'
  BY <1>3 DEF Parted, Get, TypeOK, Complete, Lent
<1>6. Joined'
  BY DEF Joined, Get, TypeOK, After, Slots
<1>7. Distinct' /\ Marked'
  BY <1>2 DEF Distinct, Marked, Get
<1>8. Complete'
  BY <1>3, <1>4 DEF Complete
<1>9. Counted'
  <2>1. IsFiniteSet(Lent)
    BY FiniteParts DEF Complete
  <2>2. slots[next] \notin Lent
    BY <1>3 DEF Complete
  <2> QED
    BY <1>4, <2>1, <2>2, FS_AddElement DEF Counted, Get
<1> QED
  BY <1>1, <1>3, <1>5, <1>6, <1>7, <1>8, <1>9

(* What a thread gives back enters the ring at First, a slot that was not  *)
(* free.                                                                   *)
LEMMA ReleaseStep ==
  ASSUME RingInv, NEW t \in Threads, Release(t)
  PROVE  /\ RingInv'
         /\ \E b \in held[t] : /\ Free' = Free \cup {b}
                               /\ held' = [held EXCEPT ![t] = {}]
<1> USE CountAssumption DEF RingInv
<1>0. PICK b \in held[t] : /\ slots' = [slots EXCEPT ![first] = b]
                           /\ returned' = returned \cup {b}
  BY DEF Release
<1>b. held[t] = {b} /\ b \in Buffers /\ b \in Lent /\ b \notin Free
  BY DEF Parted, TypeOK, Lent, Complete
<1>1. TypeOK'
  <2>1. next' \in Slots /\ first' \in Slots /\ live' \in 0..BufferCount
    BY DEF TypeOK, Release, After, Slots
  <2> QED
    BY <1>0, <1>b, <2>1 DEF TypeOK, Release
<1>2. first \in Slots \ FreeSlots /\ FreeSlots' = FreeSlots \cup {first}
  <2>1. (TypeOK => FreeSlots = {i \in Slots : InRing(i)})'
    BY Ring, PTL
  <2> QED
    BY <1>1, <2>1, Ring DEF InRing, Release, TypeOK, Joined, Slots
<1>3. \A i \in FreeSlots : slots'[i] = slots[i]
  BY <1>0, <1>2, Ring DEF TypeOK
<1>4. slots'[first] = b
  BY <1>0 DEF TypeOK
<1>5. Free' = Free \cup {b}
  BY <1>2, <1>3, <1>4 DEF Free
<1>6. held' = [held EXCEPT ![t] = {}]
  BY DEF Release
<1>7. Lent' = Lent \ {b}
  BY <1>6, <1>b DEF Lent, Parted, TypeOK
<1>8. Parted'
  BY <1>6 DEF Parted, Release, TypeOK
<1>9. Joined'
  BY DEF Joined, Release, TypeOK, After, Slots
<1>10. Distinct' /\ Marked'
  BY <1>0, <1>b, <1>2, <1>3, <1>4 DEF Distinct, Marked, Release, Free
<1>11. Complete'
  BY <1>b, <1>5, <1>7 DEF Complete
<1>12. Counted'
  <2>1. IsFiniteSet(Lent)
    BY FiniteParts DEF Complete
  <2> QED
    BY <1>b, <1>7, <2>1, FS_RemoveElement DEF Counted, Release
<1> QED
  BY <1>0, <1>1, <1>5, <1>6, <1>8, <1>9, <1>10, <1>11, <1>12

(* The other steps move no buffer.                                         *)
LEMMA QuietStep ==
  ASSUME RingInv, UNCHANGED <<slots, used, next, first, live, held, returned>>,
         TypeOK', \A t \in getting' : held[t] = {}
  PROVE  RingInv' /\ Free' = Free
<1>1. FreeSlots' = FreeSlots
  BY DEF FreeSlots
<1>2. Free' = Free /\ Lent' = Lent
  BY <1>1 DEF Free, Lent
<1> QED
  BY <1>1, <1>2 DEF RingInv, Parted, Joined, Distinct, Complete, Counted, Marked

LEMMA StepRing == RingInv /\ [Next]_vars => RingInv'
<1> SUFFICES ASSUME RingInv, [Next]_vars PROVE RingInv'
  OBVIOUS
<1>1. ASSUME NEW t \in Threads, Get(t) PROVE RingInv'
  BY <1>1, GetStep
<1>2. ASSUME NEW t \in Threads, Release(t) PROVE RingInv'
  BY <1>2, ReleaseStep
<1>3. ASSUME NEW t \in Threads, EnterGet(t) PROVE RingInv'
  BY <1>3, QuietStep DEF EnterGet, RingInv, TypeOK, Parted
<1>4. ASSUME NEW t \in Threads, GetFails(t) PROVE RingInv'
  BY <1>4, QuietStep DEF GetFails, RingInv, TypeOK, Parted
<1>5. CASE Finalize \/ UNCHANGED vars
  BY <1>5, QuietStep DEF Finalize, vars, RingInv, TypeOK, Parted
<1> QED
  BY <1>1, <1>2, <1>3, <1>4, <1>5 DEF Next

LEMMA AlwaysRing == Spec => []RingInv
BY InitRing, StepRing, PTL DEF Spec

LEMMA RingIsSafe == RingInv => EachBufferOnce /\ NothingWrittenIsLost
<1> SUFFICES ASSUME RingInv PROVE EachBufferOnce /\ NothingWrittenIsLost
  OBVIOUS
<1> USE DEF RingInv
<1>1. Free = Buffers \ Lent /\ Lent \in SUBSET Buffers
  BY DEF Complete
<1>2. Cardinality(Free) = BufferCount - live
  BY <1>1, FiniteParts DEF Counted
<1>3. EachBufferOnce
  BY <1>2 DEF EachBufferOnce, Parted, Complete, Counted
<1>4. NothingWrittenIsLost
  BY <1>1 DEF NothingWrittenIsLost, Marked, Applied, Free, TypeOK
<1> QED
  BY <1>3, <1>4

-----------------------------------------------------------------------------
(* In whatever order the threads return their buffers, each buffer is in   *)
(* one place, the ring or a thread, and LiveBuffers counts the latter.     *)
THEOREM BuffersStayApart == Spec => []EachBufferOnce
BY AlwaysRing, RingIsSafe, PTL

(* apply visits every buffer that was returned and not lent again.         *)
THEOREM LogIsComplete == Spec => []NothingWrittenIsLost
BY AlwaysRing, RingIsSafe, PTL

(* The ring implements the pool: BufferQueue's indices and stale slots     *)
(* show in nothing its callers see.                                        *)
THEOREM RingIsPool == Spec => IsPool
<1>1. Init => Pool!Init
  <2> SUFFICES ASSUME Init PROVE Pool!Init
    OBVIOUS
  <2>1. Free \cup Lent = Buffers
    BY InitRing DEF RingInv, Complete
  <2> QED
    BY <2>1 DEF Pool!Init, Init, Lent
<1>2. RingInv /\ RingInv' /\ [Next]_vars => [Pool!Next]_(Pool!pool)
  <2> SUFFICES ASSUME RingInv, RingInv', [Next]_vars
               PROVE  Pool!Next \/ UNCHANGED Pool!pool
    OBVIOUS
  <2> USE DEF Pool!Next, Pool!pool
  <2>1. ASSUME NEW t \in Threads, Get(t) PROVE Pool!Lend(t)
    BY <2>1, GetStep DEF Get, Pool!Lend
  <2>2. ASSUME NEW t \in Threads, Release(t) PROVE Pool!TakeBack(t)
    BY <2>2, ReleaseStep DEF Release, Pool!TakeBack
  <2>3. ASSUME NEW t \in Threads, EnterGet(t) PROVE Pool!Ask(t)
    BY <2>3, QuietStep DEF EnterGet, Pool!Ask, RingInv, Parted
  <2>4. ASSUME NEW t \in Threads, GetFails(t) PROVE Pool!Lend(t)
    <3>1. 0..(BufferCount - live - 1) = {}
      BY <2>4, CountAssumption DEF GetFails
    <3>2. Free = {}
      BY <3>1 DEF Free, FreeSlots
    <3> QED
      BY <2>4, <3>2, QuietStep DEF GetFails, Pool!Lend, RingInv, Parted
  <2>5. CASE Finalize
    BY <2>5, QuietStep DEF Finalize, Pool!Close, RingInv, Parted
  <2>6. CASE UNCHANGED vars
    BY <2>6, QuietStep DEF vars, RingInv, Parted
  <2> QED
    BY <2>1, <2>2, <2>3, <2>4, <2>5, <2>6 DEF Next
<1> QED
  BY <1>1, <1>2, AlwaysRing, PTL DEF Spec, IsPool, Pool!Spec
=============================================================================
