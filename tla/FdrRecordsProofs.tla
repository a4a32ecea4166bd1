-------------------------- MODULE FdrRecordsProofs --------------------------
(* The flight data recorder keeps within its buffer, erases only short     *)
(* calls and, without tail exits and custom events, always finds what it   *)
(* rewinds, for any sizes, thresholds, functions and CPUs.                 *)
EXTENDS FdrRecords, SequenceTheorems, FiniteSetTheorems, WellFoundedInduction, TLAPS

-----------------------------------------------------------------------------
(* Lemmas about sequences of any records, and about greatest elements.     *)

(* The records of a buffer are of several shapes.                          *)
IsSeq(s) == \E S : s \in Seq(S)

LEMMA AppendOne ==
  ASSUME NEW s, IsSeq(s), NEW e
  PROVE  /\ IsSeq(Append(s, e)) /\ Len(s) \in Nat
         /\ Len(Append(s, e)) = Len(s) + 1
         /\ \A i \in 1..Len(s) : Append(s, e)[i] = s[i]
         /\ Append(s, e)[Len(s) + 1] = e
<1>1. PICK S : s \in Seq(S)
  BY DEF IsSeq
<1>2. s \in Seq(S \cup {e})
  BY <1>1, SeqMonotonic
<1> QED BY <1>2, AppendProperties DEF IsSeq

LEMMA Prefix ==
  ASSUME NEW s, IsSeq(s), NEW n \in 0..Len(s)
  PROVE  /\ IsSeq(SubSeq(s, 1, n)) /\ Len(SubSeq(s, 1, n)) = n
         /\ \A i \in 1..n : SubSeq(s, 1, n)[i] = s[i]
<1>1. PICK S : s \in Seq(S)
  BY DEF IsSeq
<1>2. n \in Int /\ \A i \in 1..n : s[i] \in S
  BY <1>1, LenProperties
<1>3. /\ SubSeq(s, 1, n) \in Seq(S)
      /\ Len(SubSeq(s, 1, n)) = IF 1 <= n THEN n - 1 + 1 ELSE 0
      /\ \A i \in 1..(n - 1 + 1) : SubSeq(s, 1, n)[i] = s[1 + i - 1]
  BY <1>2, SubSeqProperties
<1> QED BY <1>2, <1>3 DEF IsSeq

LEMMA FrontOne ==
  ASSUME NEW s, IsSeq(s), Len(s) # 0
  PROVE  /\ IsSeq(Front(s)) /\ Len(s) \in Nat \ {0} /\ Len(Front(s)) = Len(s) - 1
         /\ \A i \in 1..(Len(s) - 1) : Front(s)[i] = s[i]
<1>1. Len(s) \in Nat \ {0}
  BY LenProperties DEF IsSeq
<1>2. Len(s) - 1 \in 0..Len(s)
  BY <1>1
<1> QED BY <1>1, <1>2, Prefix DEF Front

(* A set of numbers up to m that is not empty has a greatest element.      *)
LEMMA Greatest ==
  ASSUME NEW m \in Nat, NEW T \in SUBSET (0..m), T # {}
  PROVE  Max(T) \in T /\ \A y \in T : y <= Max(T)
<1> DEFINE Up(x) == x..m
           F == {Up(x) : x \in T}
           R == StrictSubsetOrdering(0..m)
<1>1. IsWellFoundedOn(R, FiniteSubsetsOf(0..m))
  BY FS_StrictSubsetOrderingWellFounded
<1>2. FiniteSubsetsOf(0..m) = SUBSET (0..m)
  <2>1. 0 \in Int /\ m \in Int
    OBVIOUS
  <2>2. IsFiniteSet(0..m)
    BY <2>1, FS_Interval
  <2> QED BY <2>2, FS_FiniteSubsetsOfFinite
<1>3. F \subseteq SUBSET (0..m) /\ F # {}
  <2>1. \A x \in T : Up(x) \subseteq 0..m
    OBVIOUS
  <2>2. F # {}
    OBVIOUS
  <2> HIDE DEF Up
  <2> QED BY <2>1, <2>2
<1>4. PICK u \in F : \A v \in F : <<v, u>> \notin R
  <2>1. F \subseteq FiniteSubsetsOf(0..m) /\ F # {}
    BY <1>2, <1>3
  <2> HIDE DEF F, R, Up
  <2> QED BY <1>1, <2>1, WFMin
<1>5. PICK x \in T : u = Up(x)
  OBVIOUS
<1>6. \A y \in T : y <= x
  <2> SUFFICES ASSUME NEW y \in T, y > x PROVE FALSE
    BY <1>5
  <2>1. Up(y) \subseteq Up(x) /\ x \in Up(x) /\ x \notin Up(y)
    OBVIOUS
  <2>2. <<Up(y), Up(x)>> \in R
    BY <2>1, <1>3 DEF StrictSubsetOrdering
  <2> QED BY <2>2, <1>4, <1>5
<1> HIDE DEF F, R, Up
<1>7. x \in T /\ \A y \in T : x >= y
  BY <1>6
<1> QED BY <1>7 DEF Max

-----------------------------------------------------------------------------
(* What the writer's operators do to the thread local data.                *)

Shaped(w) ==
  w = [records |-> w.records, ptr |-> w.ptr, extents |-> w.extents, enters |-> w.enters,
       tails |-> w.tails, cpu |-> w.cpu, lastTSC |-> w.lastTSC, lastEntry |-> w.lastEntry,
       aborted |-> w.aborted, buffers |-> w.buffers]

(* The counters count records that are in the buffer, and unless an event  *)
(* carries data the extents follow RecordPtr.                              *)
Sound(w) == /\ Shaped(w) /\ IsSeq(w.records)
            /\ w.ptr \in Nat /\ w.extents \in Nat /\ w.ptr <= w.extents
            /\ w.buffers \in Nat /\ w.aborted \in BOOLEAN
            /\ w.enters \in 0..Len(w.records) /\ w.enters < CounterSize
            /\ w.tails \in Nat /\ w.tails < CounterSize
            /\ EventSizes \subseteq {0} => w.extents = w.ptr

(* Records of metadata that tell the time t.                               *)
Tagged(r, t) == r.kind \in {"NewCPUId", "TSCWrap"} /\ r.tsc = t
AllTagged(s, t) == Len(s) # 0 /\ \A i \in 1..Len(s) : Tagged(s[i], t)
TagAdded(v, w, t) == \E r : Tagged(r, t) /\ v.records = Append(w.records, r)

(* What a metadata record leaves alone.                                    *)
Alike(v, w) == /\ v.cpu = w.cpu /\ v.aborted = w.aborted
               /\ v.lastTSC = w.lastTSC /\ v.lastEntry = w.lastEntry

NoneCounted(w) == w.enters = 0 /\ w.tails = 0

LEMMA Writing ==
  ASSUME NEW w, Sound(w), NEW rec, NEW size \in Nat,
         NEW v, v = Write(w, rec, size)
  PROVE  /\ Sound(v) /\ Alike(v, w)
         /\ v.enters = w.enters /\ v.tails = w.tails /\ v.buffers = w.buffers
         /\ v.ptr = w.ptr + size
         /\ v.records = Append(w.records, rec)
<1>1. /\ Shaped(v) /\ Alike(v, w)
      /\ v.enters = w.enters /\ v.tails = w.tails /\ v.buffers = w.buffers
      /\ v.ptr = w.ptr + size /\ v.extents = w.extents + size
      /\ v.records = Append(w.records, rec)
  BY DEF Write, Shaped, Alike, Sound
<1>2. IsSeq(v.records) /\ Len(v.records) = Len(w.records) + 1 /\ Len(w.records) \in Nat
  BY <1>1, AppendOne DEF Sound
<1>3. /\ v.ptr \in Nat /\ v.extents \in Nat /\ v.ptr <= v.extents
      /\ EventSizes \subseteq {0} => v.extents = v.ptr
  <2>1. /\ w.ptr \in Nat /\ w.extents \in Nat /\ w.ptr <= w.extents
        /\ EventSizes \subseteq {0} => w.extents = w.ptr
    BY DEF Sound
  <2> QED BY <1>1, <2>1
<1>4. v.enters \in 0..Len(v.records)
  BY <1>1, <1>2 DEF Sound
<1>5. Sound(v)
  BY <1>1, <1>2, <1>3, <1>4 DEF Sound, Alike
<1> QED BY <1>1, <1>5

LEMMA Zeroing ==
  ASSUME NEW w, Sound(w), NEW v, v = ZeroCounters(w)
  PROVE  /\ Sound(v) /\ Alike(v, w) /\ NoneCounted(v)
         /\ v.ptr = w.ptr /\ v.records = w.records /\ v.buffers = w.buffers
<1>1. Len(w.records) \in Nat
  BY AppendOne DEF Sound
<1>2. /\ Shaped(v) /\ Alike(v, w) /\ NoneCounted(v) /\ v.buffers = w.buffers
      /\ v.ptr = w.ptr /\ v.extents = w.extents /\ v.records = w.records
  BY DEF ZeroCounters, Sound, Shaped, Alike, NoneCounted
<1> QED BY <1>1, <1>2, CounterAssumption DEF Sound, Alike, NoneCounted

LEMMA Metadata ==
  ASSUME NEW w, Sound(w), NEW c, NEW tsc,
         NEW v, \/ v = writeNewCPUIdMetadata(w, c, tsc)
                \/ v = writeTSCWrapMetadata(w, tsc)
  PROVE  /\ Sound(v) /\ Alike(v, w) /\ NoneCounted(v) /\ v.buffers = w.buffers
         /\ v.ptr = w.ptr + 2 /\ Len(v.records) = Len(w.records) + 1
         /\ TagAdded(v, w, tsc)
<1>1. PICK rec : v = ZeroCounters(Write(w, rec, 2)) /\ Tagged(rec, tsc)
  BY DEF writeNewCPUIdMetadata, writeTSCWrapMetadata, MetadataRecSize, Tagged
<1>x. PICK x : x = Write(w, rec, 2)
  OBVIOUS
<1>2. /\ Sound(x) /\ Alike(x, w) /\ x.ptr = w.ptr + 2 /\ x.records = Append(w.records, rec)
      /\ x.buffers = w.buffers
  BY <1>x, Writing
<1>3. Len(x.records) = Len(w.records) + 1
  BY <1>2, AppendOne DEF Sound
<1>4. /\ Sound(v) /\ Alike(v, x) /\ NoneCounted(v) /\ v.ptr = x.ptr /\ v.records = x.records
      /\ v.buffers = x.buffers
  BY <1>1, <1>x, <1>2, Zeroing
<1>5. TagAdded(v, w, tsc)
  BY <1>1, <1>2, <1>4 DEF TagAdded
<1> QED BY <1>2, <1>3, <1>4, <1>5 DEF Alike

LEMMA MoreTagged ==
  ASSUME NEW s, IsSeq(s), NEW t, s = <<>> \/ AllTagged(s, t), NEW r, Tagged(r, t)
  PROVE  AllTagged(Append(s, r), t)
<1>1. /\ Len(s) \in Nat /\ Len(Append(s, r)) = Len(s) + 1
      /\ \A i \in 1..Len(s) : Append(s, r)[i] = s[i]
      /\ Append(s, r)[Len(s) + 1] = r
  BY AppendOne
<1>2. \A i \in 1..Len(s) : Tagged(s[i], t)
  <2>1. CASE s = <<>>
    BY <2>1, EmptySeq
  <2> QED BY <2>1 DEF AllTagged
<1>3. ASSUME NEW i \in 1..(Len(s) + 1) PROVE Tagged(Append(s, r)[i], t)
  BY <1>1, <1>2
<1> QED BY <1>1, <1>3 DEF AllTagged

(* A buffer that begins with this hook: only its metadata are in it.       *)
Begun(v, w, t) == /\ NoneCounted(v) /\ AllTagged(v.records, t)
                  /\ v.buffers > w.buffers

LEMMA Fresh ==
  ASSUME NEW w, Shaped(w), w.aborted \in BOOLEAN, w.buffers \in Nat, NEW c, NEW tsc,
         NEW v, v = NewBuffer(w, c, tsc)
  PROVE  /\ Sound(v) /\ Alike(v, w) /\ Begun(v, w, tsc)
         /\ v.ptr = PreambleSize + 2 /\ Len(v.records) = 1
<1>y. PICK y : y = [w EXCEPT !.records = <<>>, !.ptr = PreambleSize,
                              !.extents = PreambleSize, !.buffers = @ + 1]
  OBVIOUS
<1>x. PICK x : x = ZeroCounters(y)
  OBVIOUS
<1>1. /\ Shaped(y) /\ Alike(y, w) /\ y.records = <<>>
      /\ y.ptr = PreambleSize /\ y.extents = PreambleSize /\ y.buffers = w.buffers + 1
  BY <1>y DEF Shaped, Alike
<1>0. /\ Shaped(x) /\ Alike(x, w) /\ NoneCounted(x) /\ x.records = <<>>
      /\ x.ptr = PreambleSize /\ x.extents = PreambleSize /\ x.buffers = w.buffers + 1
  BY <1>1, <1>x DEF ZeroCounters, Shaped, Alike, NoneCounted
<1>2. IsSeq(<<>>) /\ Len(<<>>) = 0
  BY EmptySeq DEF IsSeq
<1>3. Sound(x)
  BY <1>0, <1>2, CounterAssumption
     DEF Sound, NoneCounted, Alike, PreambleSize, MetadataRecSize
<1>4. v = writeNewCPUIdMetadata(x, c, tsc)
  BY <1>x, <1>y DEF NewBuffer
<1>5. /\ Sound(v) /\ Alike(v, x) /\ NoneCounted(v) /\ v.ptr = x.ptr + 2
      /\ Len(v.records) = Len(x.records) + 1 /\ v.buffers = x.buffers
      /\ TagAdded(v, x, tsc)
  BY <1>3, <1>4, Metadata
<1>6. AllTagged(v.records, tsc)
  BY <1>0, <1>2, <1>5, MoreTagged DEF TagAdded
<1> QED BY <1>0, <1>2, <1>5, <1>6 DEF Alike, Begun

(* A buffer in use: the thread is on some CPU, and every record takes at   *)
(* least the space of a function's.                                        *)
Started(w) == w.cpu # NoCPU /\ w.ptr >= PreambleSize + Len(w.records)
Kept(w) == Sound(w) /\ w.ptr <= Capacity /\ (w.ptr = 0 \/ Started(w))

LEMMA Sizes == /\ FunctionRecSize = 1 /\ MetadataRecSize = 2 /\ PreambleSize = 4
               /\ MaxSize = 5 /\ Capacity \in Nat /\ Capacity >= 13
BY SizeAssumption DEF FunctionRecSize, MetadataRecSize, PreambleSize, MaxSize

(* Preparing a hook leaves the buffer as it is, or has nothing counted.    *)
LEMMA GettingReady ==
  ASSUME NEW w, Kept(w), NEW c, c # NoCPU, NEW tsc, NEW v, v = Ready(w, c, tsc)
  PROVE  /\ Sound(v) /\ Started(v) /\ v.ptr <= Capacity
         /\ v.aborted = w.aborted /\ v.cpu \in {w.cpu, c}
         /\ v.lastTSC = w.lastTSC /\ v.lastEntry = w.lastEntry
         /\ v = w \/ Begun(v, w, tsc)
<1>1. PICK x : x = IF w.ptr = 0 THEN NewBuffer(w, c, tsc) ELSE w
  OBVIOUS
<1>2. v = IF x.cpu = NoCPU THEN writeNewCPUIdMetadata([x EXCEPT !.cpu = c], c, tsc) ELSE x
  BY <1>1 DEF Ready
<1>3. CASE w.ptr # 0
  BY <1>1, <1>2, <1>3 DEF Kept, Started
<1>4. CASE w.ptr = 0
  <2>1. Sound(x) /\ Alike(x, w) /\ Begun(x, w, tsc) /\ x.ptr = 6 /\ Len(x.records) = 1
    BY <1>1, <1>4, Fresh, Sizes DEF Kept, Sound
  <2>2. CASE x.cpu # NoCPU
    <3>1. v = x
      BY <1>2, <2>2
    <3>2. Started(x)
      BY <2>1, <2>2, Sizes DEF Started
    <3> QED BY <2>1, <3>1, <3>2, Sizes DEF Alike
  <2>3. CASE x.cpu = NoCPU
    <3>y. PICK y : y = [x EXCEPT !.cpu = c]
      OBVIOUS
    <3>1. /\ Shaped(y) /\ y.records = x.records /\ y.ptr = x.ptr /\ y.extents = x.extents
          /\ y.enters = x.enters /\ y.tails = x.tails /\ y.aborted = x.aborted /\ y.cpu = c
          /\ y.lastTSC = x.lastTSC /\ y.lastEntry = x.lastEntry /\ y.buffers = x.buffers
      BY <2>1, <3>y DEF Sound, Shaped
    <3>2. Sound(y)
      BY <2>1, <3>1 DEF Sound
    <3>v. v = writeNewCPUIdMetadata(y, c, tsc)
      BY <1>2, <2>3, <3>y
    <3>3. /\ Sound(v) /\ Alike(v, y) /\ NoneCounted(v) /\ v.buffers = y.buffers
          /\ v.ptr = y.ptr + 2 /\ Len(v.records) = Len(y.records) + 1
          /\ TagAdded(v, y, tsc)
      BY <3>v, <3>2, Metadata
    <3>4. AllTagged(v.records, tsc)
      BY <2>1, <3>1, <3>2, <3>3, MoreTagged DEF Sound, Begun, TagAdded
    <3>5. Begun(v, w, tsc)
      BY <2>1, <3>1, <3>3, <3>4 DEF Begun
    <3>6. v.ptr = 8 /\ Len(v.records) = 2
      BY <2>1, <3>1, <3>3
    <3>7. Alike(x, w) /\ Alike(v, y) /\ Sound(v)
      BY <2>1, <3>3
    <3> QED BY <3>1, <3>5, <3>6, <3>7, Sizes DEF Started, Alike
  <2> QED BY <2>2, <2>3
<1> QED BY <1>3, <1>4

LEMMA Preparing ==
  ASSUME NEW w, Kept(w), NEW c, c # NoCPU, NEW tsc,
         NEW size \in Nat, 6 + size <= Capacity,
         NEW v, v = prepareBuffer(Ready(w, c, tsc), c, tsc, size)
  PROVE  /\ Sound(v) /\ Started(v) /\ v.ptr + size <= Capacity
         /\ v.aborted = w.aborted /\ v.cpu \in {w.cpu, c}
         /\ v.lastTSC = w.lastTSC /\ v.lastEntry = w.lastEntry
         /\ v = w \/ Begun(v, w, tsc)
<1>x. PICK x : x = Ready(w, c, tsc)
  OBVIOUS
<1>1. /\ Sound(x) /\ Started(x) /\ x.ptr <= Capacity
      /\ x.aborted = w.aborted /\ x.cpu \in {w.cpu, c}
      /\ x.lastTSC = w.lastTSC /\ x.lastEntry = w.lastEntry
      /\ x = w \/ Begun(x, w, tsc)
  BY <1>x, GettingReady
<1>2. v = IF x.ptr + size > Capacity THEN NewBuffer(x, c, tsc) ELSE x
  BY <1>x DEF prepareBuffer
<1>3. CASE x.ptr + size > Capacity
  <2>0. Shaped(x) /\ x.aborted \in BOOLEAN /\ x.buffers \in Nat /\ v = NewBuffer(x, c, tsc)
    BY <1>1, <1>2, <1>3 DEF Sound
  <2>1. Sound(v) /\ Alike(v, x) /\ Begun(v, x, tsc) /\ v.ptr = 6 /\ Len(v.records) = 1
    BY <2>0, Fresh, Sizes
  <2>2. Begun(v, w, tsc)
    BY <1>1, <2>1 DEF Begun, Kept, Sound
  <2> QED BY <1>1, <2>1, <2>2, Sizes DEF Started, Alike
<1>4. CASE ~(x.ptr + size > Capacity)
  BY <1>1, <1>2, <1>4, Sizes DEF Sound
<1> QED BY <1>3, <1>4

(* Where a hook's record goes and the delta d that is stored in it: behind *)
(* the records so far, behind a metadata record, or behind the metadata of *)
(* a buffer that has just begun.                                           *)
Continues(p, d, w, t) ==
  /\ p.records = w.records /\ p.enters = w.enters /\ p.tails = w.tails
  /\ p.buffers = w.buffers /\ w.ptr # 0
  /\ d = t - w.lastTSC

Marks(p, d, w, t) ==
  /\ NoneCounted(p) /\ p.buffers = w.buffers /\ w.ptr # 0
  /\ TagAdded(p, w, t)
  /\ d = 0

Placed(p, d, w, t) ==
  /\ p.lastTSC = t /\ p.lastEntry = w.lastEntry /\ p.aborted = w.aborted
  /\ d = 0 \/ (d = t - w.lastTSC /\ ~(t - w.lastTSC > MaxDelta))
  /\ Continues(p, d, w, t) \/ Marks(p, d, w, t) \/ Begun(p, w, t)

(* Stamping a hook takes a metadata record, and then nothing is counted,   *)
(* or measures the delta to the hook before.                               *)
LEMMA Stamping ==
  ASSUME NEW w, Sound(w), Started(w), NEW c, c # NoCPU, NEW tsc,
         NEW s, s = writeCurrentCPUTSC(w, c, tsc)
  PROVE  /\ Sound(s.w) /\ Started(s.w) /\ s.w.ptr <= w.ptr + 2 /\ s.w.cpu = c
         /\ Placed(s.w, s.delta, w, tsc)
         /\ Continues(s.w, s.delta, w, tsc) \/ Marks(s.w, s.delta, w, tsc)
<1> DEFINE moved == c # w.cpu
           wraps == ~moved /\ tsc - w.lastTSC > MaxDelta
<1>x. PICK x : x = IF moved THEN writeNewCPUIdMetadata(w, c, tsc)
                   ELSE IF wraps THEN writeTSCWrapMetadata(w, tsc) ELSE w
  OBVIOUS
<1>1. s = [w |-> [x EXCEPT !.lastTSC = tsc, !.cpu = c],
           delta |-> IF moved \/ wraps THEN 0 ELSE tsc - w.lastTSC]
  BY <1>x DEF writeCurrentCPUTSC
<1>2. /\ Sound(x) /\ Alike(x, w) /\ Started(x) /\ x.ptr <= w.ptr + 2
      /\ x.buffers = w.buffers
      /\ \/ /\ moved \/ wraps
            /\ NoneCounted(x)
            /\ TagAdded(x, w, tsc)
         \/ ~(moved \/ wraps) /\ x = w
  <2>1. CASE moved \/ wraps
    <3>1. /\ Sound(x) /\ Alike(x, w) /\ NoneCounted(x) /\ x.buffers = w.buffers
          /\ x.ptr = w.ptr + 2 /\ Len(x.records) = Len(w.records) + 1
          /\ TagAdded(x, w, tsc)
      BY <1>x, <2>1, Metadata
    <3>2. Len(w.records) \in Nat
      BY AppendOne DEF Sound
    <3>3. Started(x) /\ x.ptr <= w.ptr + 2
      BY <3>1, <3>2, Sizes DEF Started, Alike, Sound
    <3> QED BY <2>1, <3>1, <3>3
  <2>2. CASE ~(moved \/ wraps)
    BY <1>x, <2>2 DEF Alike, Sound
  <2> QED BY <2>1, <2>2
<1>5. /\ moved \/ wraps => s.delta = 0
      /\ ~(moved \/ wraps) => s.delta = tsc - w.lastTSC /\ ~(tsc - w.lastTSC > MaxDelta)
  BY <1>1
<1> HIDE DEF moved, wraps
<1>3. /\ Shaped(s.w) /\ s.w.records = x.records /\ s.w.ptr = x.ptr
      /\ s.w.extents = x.extents /\ s.w.enters = x.enters /\ s.w.tails = x.tails
      /\ s.w.aborted = x.aborted /\ s.w.lastEntry = x.lastEntry
      /\ s.w.lastTSC = tsc /\ s.w.cpu = c /\ s.w.buffers = x.buffers
  <2>1. s.w = [x EXCEPT !.lastTSC = tsc, !.cpu = c]
    BY <1>1
  <2>2. PICK v : v = s.w
    OBVIOUS
  <2> QED BY <1>2, <2>1, <2>2 DEF Sound, Shaped
<1>4. Sound(s.w) /\ Started(s.w)
  BY <1>2, <1>3 DEF Sound, Started
<1>6. w.ptr # 0
  BY AppendOne, Sizes DEF Started, Sound
<1>7. Continues(s.w, s.delta, w, tsc) \/ Marks(s.w, s.delta, w, tsc)
  BY <1>2, <1>3, <1>5, <1>6 DEF Continues, Marks, NoneCounted, TagAdded
<1>8. s.delta = 0 \/ (s.delta = tsc - w.lastTSC /\ ~(tsc - w.lastTSC > MaxDelta))
  BY <1>5
<1> QED BY <1>2, <1>3, <1>4, <1>7, <1>8 DEF Alike, Placed

(* A counter that wraps around is never more than was counted.             *)
LEMMA Wrapping ==
  ASSUME NEW n \in Nat
  PROVE  n % CounterSize \in 0..n /\ n % CounterSize < CounterSize
<1>1. CounterSize \in Nat \ {0}
  BY CounterAssumption
<1>2. n = CounterSize * (n \div CounterSize) + (n % CounterSize)
  BY <1>1
<1>3. n % CounterSize \in 0..(CounterSize - 1)
  BY <1>1
<1>4. n \div CounterSize \in Nat
  BY <1>1
<1>5. CounterSize * (n \div CounterSize) >= 0
  BY <1>1, <1>4
<1> QED BY <1>2, <1>3, <1>5, <1>1, <1>4

LEMMA Recording ==
  ASSUME NEW w, Sound(w), NEW kind, NEW f, NEW delta, NEW tsc, NEW own,
         NEW v, v = writeFunctionRecord(w, kind, f, delta, tsc, own)
  PROVE  /\ Sound(v) /\ Alike(v, w) /\ v.ptr = w.ptr + 1 /\ v.buffers = w.buffers
         /\ v.records = Append(w.records,
                               [kind |-> IF kind = "EnterArgs" THEN "Enter" ELSE kind,
                                f |-> f, delta |-> delta, at |-> tsc, own |-> own])
         /\ v.enters \in 0..(w.enters + 1)
         /\ kind = "Enter" => v.tails = w.tails
         /\ kind # "Enter" => v.enters = 0
         /\ kind \notin {"Enter", "TailExit"} => v.tails = 0
         /\ kind = "TailExit" => v.tails \in 0..(w.tails + 1)
         /\ kind = "TailExit" /\ w.enters = 0 => v.tails = 0
<1>x. PICK x : x = Counted(w, kind)
  OBVIOUS
<1>r. PICK r : r = [kind |-> IF kind = "EnterArgs" THEN "Enter" ELSE kind,
                    f |-> f, delta |-> delta, at |-> tsc, own |-> own]
  OBVIOUS
<1>1. Len(w.records) \in Nat
  BY AppendOne DEF Sound
<1>2. /\ (w.enters + 1) % CounterSize \in 0..(w.enters + 1)
      /\ (w.enters + 1) % CounterSize < CounterSize
      /\ (w.tails + 1) % CounterSize \in 0..(w.tails + 1)
      /\ (w.tails + 1) % CounterSize < CounterSize
  <2>1. w.enters + 1 \in Nat /\ w.tails + 1 \in Nat
    BY <1>1 DEF Sound
  <2> QED BY <2>1, Wrapping
<1>e. PICK e : e = (w.enters + 1) % CounterSize
  OBVIOUS
<1>t. PICK t : t = IF w.enters > 0 THEN (w.tails + 1) % CounterSize ELSE 0
  OBVIOUS
<1>4. /\ Shaped(w) /\ w.tails \in Nat /\ t \in Nat /\ 0 \in 0..(w.enters + 1)
      /\ t \in 0..(w.tails + 1) /\ (w.enters = 0 => t = 0)
      /\ w.tails < CounterSize /\ t < CounterSize /\ 0 < CounterSize
  BY <1>1, <1>2, <1>t, CounterAssumption DEF Sound
<1>3. /\ Shaped(x) /\ Alike(x, w)
      /\ x.records = w.records /\ x.ptr = w.ptr /\ x.extents = w.extents
      /\ x.buffers = w.buffers /\ x.enters < CounterSize /\ x.tails < CounterSize
      /\ x.enters \in 0..(w.enters + 1) /\ x.tails \in Nat
      /\ kind = "Enter" => x.tails = w.tails
      /\ kind # "Enter" => x.enters = 0
      /\ kind \notin {"Enter", "TailExit"} => x.tails = 0
      /\ kind = "TailExit" => x.tails \in 0..(w.tails + 1)
      /\ kind = "TailExit" /\ w.enters = 0 => x.tails = 0
  <2>1. CASE kind = "Enter"
    <3>1. x = [w EXCEPT !.enters = e]
      BY <1>x, <1>e, <2>1 DEF Counted
    <3>2. e \in 0..(w.enters + 1) /\ e < CounterSize
      BY <1>e, <1>2
    <3> QED BY <3>1, <3>2, <2>1, <1>4 DEF Shaped, Alike
  <2>2. CASE kind = "TailExit"
    <3>1. x = [w EXCEPT !.enters = 0, !.tails = t]
      BY <1>x, <1>t, <2>2 DEF Counted
    <3> QED BY <3>1, <2>2, <1>4 DEF Shaped, Alike
  <2>3. CASE kind \notin {"Enter", "TailExit"}
    <3>1. x = [w EXCEPT !.enters = 0, !.tails = 0]
      BY <1>x, <2>3 DEF Counted, ZeroCounters
    <3> QED BY <3>1, <2>3, <1>4 DEF Shaped, Alike
  <2> QED BY <2>1, <2>2, <2>3
<1>8. v = [x EXCEPT !.records = Append(@, r), !.ptr = @ + 1, !.extents = @ + 1]
  BY <1>x, <1>r DEF writeFunctionRecord, Write, FunctionRecSize
<1>5. /\ Shaped(v) /\ Alike(v, x) /\ v.records = Append(x.records, r)
      /\ v.ptr = x.ptr + 1 /\ v.extents = x.extents + 1
      /\ v.enters = x.enters /\ v.tails = x.tails /\ v.buffers = x.buffers
  BY <1>3, <1>8 DEF Shaped, Alike
<1>6. IsSeq(v.records) /\ Len(v.records) = Len(w.records) + 1
  BY <1>3, <1>5, AppendOne DEF Sound
<1>9. /\ v.ptr \in Nat /\ v.extents \in Nat /\ v.ptr <= v.extents
      /\ v.enters \in 0..Len(v.records) /\ v.buffers \in Nat
      /\ EventSizes \subseteq {0} => v.extents = v.ptr
  <2>1. /\ v.ptr = w.ptr + 1 /\ v.extents = w.extents + 1 /\ v.enters = x.enters
        /\ v.buffers = w.buffers
    BY <1>3, <1>5
  <2>2. /\ w.ptr \in Nat /\ w.extents \in Nat /\ w.ptr <= w.extents
        /\ w.enters \in 0..Len(w.records) /\ w.buffers \in Nat
        /\ EventSizes \subseteq {0} => w.extents = w.ptr
    BY DEF Sound
  <2>3. v.ptr \in Nat /\ v.extents \in Nat /\ v.ptr <= v.extents
    BY <2>1, <2>2
  <2>4. v.enters \in 0..Len(v.records)
    <3>1. x.enters \in 0..(w.enters + 1)
      BY <1>3
    <3> QED BY <1>1, <1>6, <2>1, <2>2, <3>1
  <2> QED BY <2>1, <2>2, <2>3, <2>4
<1>10. v.aborted \in BOOLEAN
  BY <1>3, <1>5 DEF Sound, Alike
<1>7. Sound(v)
  BY <1>3, <1>5, <1>6, <1>9, <1>10 DEF Sound
<1> QED BY <1>r, <1>3, <1>5, <1>7 DEF Alike

(* Pairs of an entry and a tail exit go from the end, n of them.           *)
Unpaired(v, w, n) ==
  /\ n \in Nat /\ 2 * n \in 0..Len(w.records)
  /\ \A i \in 1..n : IsPair(w, i)
  /\ v.records = SubSeq(w.records, 1, Len(w.records) - 2 * n)
  /\ v.lastTSC = Before(w, 2 * n)

(* They were counted, and are short up to t.                               *)
Quick(w, n, t) ==
  n <= w.tails /\ \A i \in 1..n : t - Before(w, 2 * i - 1) < Threshold

LEMMA RewindingTailCalls ==
  ASSUME NEW w, Sound(w), Started(w), w.enters = 0, NEW tsc,
         NEW v, v = RewindTailCalls(w, tsc)
  PROVE  /\ Sound(v) /\ Started(v) /\ v.ptr <= w.ptr
         /\ NoneCounted(v)
         /\ w.tails = 0 => ~v.aborted
         /\ v.cpu = w.cpu /\ v.buffers = w.buffers /\ v.lastEntry = w.lastEntry
         /\ \E n : Unpaired(v, w, n) /\ Quick(w, n, tsc)
<1> DEFINE Erasable(i) == IsPair(w, i) /\ tsc - Before(w, 2 * i - 1) < Threshold
           M == {m \in 0..w.tails : \A i \in 1..m : Erasable(i)}
<1>n. PICK n : n = Max(M)
  OBVIOUS
<1>1. v = [w EXCEPT !.records = SubSeq(@, 1, Len(@) - 2 * n),
               !.ptr = @ - 2 * n,
               !.extents = @ - 2 * n,
               !.lastTSC = Before(w, 2 * n),
               !.tails = 0,
               !.aborted = n < w.tails /\ ~IsPair(w, n + 1)]
  BY <1>n DEF RewindTailCalls
<1>2. /\ n \in 0..w.tails
      /\ \A i \in 1..n : IsPair(w, i) /\ tsc - Before(w, 2 * i - 1) < Threshold
  <2>1. 0 \in M
    BY DEF Sound
  <2>2. M \in SUBSET (0..w.tails) /\ M # {} /\ w.tails \in Nat
    BY <2>1 DEF Sound
  <2>3. n \in M
    <3> HIDE DEF M
    <3> QED BY <2>2, <1>n, Greatest
  <2> QED BY <2>3
<1> HIDE DEF M, Erasable
<1>l. PICK l : l = Len(w.records)
  OBVIOUS
<1>k. PICK k : k = 2 * n
  OBVIOUS
<1>3. l \in Nat /\ n \in Nat /\ k \in 0..l
  <2>1. l \in Nat /\ n \in Nat
    BY <1>2, <1>l, AppendOne DEF Sound
  <2>2. CASE n = 0
    BY <2>1, <2>2, <1>k
  <2>3. CASE n # 0
    <3>1. n \in 1..n
      BY <2>1, <2>3
    <3>2. IsPair(w, n)
      BY <3>1, <1>2
    <3> QED BY <2>1, <3>2, <1>l, <1>k DEF IsPair
  <2> QED BY <2>2, <2>3
<1>4. /\ Shaped(v)
      /\ v.records = SubSeq(w.records, 1, l - k)
      /\ v.ptr = w.ptr - k /\ v.extents = w.extents - k
      /\ v.enters = 0 /\ v.tails = 0 /\ v.cpu = w.cpu /\ v.buffers = w.buffers
      /\ v.lastTSC = Before(w, k) /\ v.lastEntry = w.lastEntry
      /\ v.aborted = (n < w.tails /\ ~IsPair(w, n + 1))
  BY <1>1, <1>l, <1>k DEF Sound, Shaped
<1>5. IsSeq(v.records) /\ Len(v.records) = l - k
  <2>1. l - k \in 0..l
    BY <1>3
  <2> QED BY <1>4, <2>1, <1>l, Prefix DEF Sound
<1>6. v.ptr \in Nat /\ v.ptr <= w.ptr /\ Started(v)
  <2>1. w.ptr \in Nat /\ w.ptr >= 4 + l /\ v.cpu # NoCPU
    BY <1>4, <1>l, Sizes DEF Started, Sound
  <2> QED BY <1>3, <1>4, <1>5, <2>1, Sizes DEF Started
<1>7. v.aborted \in BOOLEAN
  BY <1>4
<1>8. Sound(v)
  <2>1. /\ v.enters \in 0..Len(v.records) /\ v.tails \in Nat
        /\ v.enters < CounterSize /\ v.tails < CounterSize
    BY <1>3, <1>4, <1>5, CounterAssumption
  <2>2. EventSizes \subseteq {0} => v.extents = v.ptr
    BY <1>4 DEF Sound
  <2>3. v.extents \in Nat /\ v.ptr <= v.extents /\ v.buffers \in Nat
    BY <1>3, <1>4, <1>6 DEF Sound
  <2> QED BY <1>4, <1>5, <1>6, <1>7, <2>1, <2>2, <2>3 DEF Sound
<1>9. w.tails = 0 => ~v.aborted
  <2>1. w.tails = 0 => ~(n < w.tails)
    BY <1>3
  <2> QED BY <1>4, <2>1
<1>10. Unpaired(v, w, n)
  BY <1>2, <1>3, <1>4, <1>k, <1>l DEF Unpaired
<1>11. Quick(w, n, tsc)
  <2>1. n <= w.tails
    BY <1>2
  <2> QED BY <1>2, <2>1 DEF Quick
<1> QED BY <1>4, <1>6, <1>8, <1>9, <1>10, <1>11 DEF NoneCounted

(* The last record is erased, and the times go back by its delta.          *)
EntryGone(v, w) == /\ v.enters = w.enters - 1 /\ v.tails = w.tails
                   /\ v.records = Front(w.records)
                   /\ v.lastTSC = w.lastTSC - Last(w.records).delta
                   /\ v.lastEntry = w.lastEntry - Last(w.records).delta

(* It is, and pairs before it, with no entry counted any more.             *)
EntryAndPairsGone(v, w) ==
  /\ w.enters = 1 /\ NoneCounted(v) /\ v.lastEntry = 0
  /\ \E x, n : /\ IsSeq(x.records) /\ x.records = Front(w.records)
              /\ x.lastTSC = w.lastTSC - Last(w.records).delta
              /\ x.tails = w.tails
              /\ Unpaired(v, x, n) /\ Quick(x, n, w.lastTSC)

(* Only the entry of the call that ends is taken back.                     *)
LEMMA Rewinding ==
  ASSUME NEW w, Sound(w), Started(w), ~w.aborted, w.enters # 0, NEW f,
         NEW tsc, w.lastTSC = tsc,
         NEW v, v = rewindRecentCall(w, f, tsc)
  PROVE  /\ Sound(v) /\ Started(v) /\ v.ptr <= w.ptr
         /\ v.cpu = w.cpu /\ v.buffers = w.buffers
         /\ \/ /\ v.aborted /\ ~EndsWithEntry(w, f) /\ v.records = w.records
               /\ v.lastTSC = w.lastTSC /\ v.lastEntry = w.lastEntry
            \/ /\ EndsWithEntry(w, f) /\ EntryAndPairsGone(v, w)
               /\ w.tails = 0 => ~v.aborted
            \/ EndsWithEntry(w, f) /\ ~v.aborted /\ EntryGone(v, w)
<1>1. Len(w.records) \in Nat \ {0} /\ w.enters \in 1..Len(w.records)
  BY AppendOne DEF Sound
<1>2. CASE ~EndsWithEntry(w, f)
  <2>1. v = [w EXCEPT !.aborted = TRUE]
    BY <1>2 DEF rewindRecentCall
  <2>2. /\ Shaped(v) /\ v.records = w.records /\ v.ptr = w.ptr /\ v.extents = w.extents
        /\ v.enters = w.enters /\ v.tails = w.tails /\ v.cpu = w.cpu /\ v.aborted = TRUE
        /\ v.buffers = w.buffers /\ v.lastTSC = w.lastTSC /\ v.lastEntry = w.lastEntry
    BY <2>1 DEF Sound, Shaped
  <2>3. v.aborted \in BOOLEAN /\ v.aborted
    BY <2>2
  <2>4. /\ IsSeq(v.records) /\ v.ptr \in Nat /\ v.tails \in Nat /\ v.buffers \in Nat
        /\ v.extents \in Nat /\ v.ptr <= v.extents
        /\ v.enters < CounterSize /\ v.tails < CounterSize
        /\ v.enters \in 0..Len(v.records) /\ Started(v) /\ v.ptr <= w.ptr
        /\ EventSizes \subseteq {0} => v.extents = v.ptr
    BY <2>2 DEF Sound, Started
  <2>5. Sound(v)
    BY <2>2, <2>3, <2>4 DEF Sound
  <2> QED BY <1>2, <2>2, <2>3, <2>4, <2>5
<1>3. CASE EndsWithEntry(w, f)
  <2>d. PICK delta : delta = Last(w.records).delta
    OBVIOUS
  <2>x. PICK x : x = [w EXCEPT !.records = Front(@), !.ptr = @ - 1, !.extents = @ - 1,
                               !.enters = @ - 1, !.lastTSC = @ - delta]
    OBVIOUS
  <2>1. v = IF x.enters # 0 THEN [x EXCEPT !.lastEntry = @ - delta]
            ELSE RewindTailCalls([x EXCEPT !.lastEntry = 0], tsc)
    BY <1>3, <2>d, <2>x DEF rewindRecentCall
  <2>2. /\ Shaped(x) /\ x.records = Front(w.records) /\ x.ptr = w.ptr - 1
        /\ x.extents = w.extents - 1 /\ x.enters = w.enters - 1 /\ x.tails = w.tails
        /\ x.cpu = w.cpu /\ x.aborted = w.aborted /\ x.buffers = w.buffers
        /\ x.lastTSC = w.lastTSC - delta /\ x.lastEntry = w.lastEntry
    BY <2>x DEF Sound, Shaped
  <2>3. IsSeq(x.records) /\ Len(x.records) = Len(w.records) - 1
    BY <1>1, <2>2, FrontOne DEF Sound
  <2>7. /\ w.ptr \in Nat /\ w.ptr >= 4 + Len(w.records) /\ w.extents \in Nat
        /\ w.ptr <= w.extents /\ w.enters < CounterSize /\ CounterSize \in Nat
    BY Sizes, CounterAssumption DEF Sound, Started
  <2>8. /\ x.ptr \in Nat /\ x.extents \in Nat /\ x.ptr <= x.extents
        /\ x.enters \in 0..Len(x.records) /\ x.enters < CounterSize
        /\ x.ptr >= 4 + Len(x.records) /\ x.ptr <= w.ptr
    <3>1. /\ x.ptr = w.ptr - 1 /\ x.extents = w.extents - 1 /\ x.enters = w.enters - 1
          /\ Len(x.records) = Len(w.records) - 1
      BY <2>2, <2>3
    <3>2. w.enters \in Nat /\ w.enters >= 1 /\ w.enters <= Len(w.records)
      BY <1>1
    <3>3. /\ x.ptr \in Nat /\ x.extents \in Nat /\ x.ptr <= x.extents
          /\ x.ptr >= 4 + Len(x.records) /\ x.ptr <= w.ptr
      <4>p. PICK a \in Nat : a = w.ptr
        BY <2>7
      <4>e. PICK b \in Nat : b = w.extents
        BY <2>7
      <4>l. PICK l \in Nat : l = Len(w.records) /\ l >= 1
        BY <1>1
      <4>1. a >= 4 + l /\ a <= b
        BY <2>7, <4>p, <4>e, <4>l
      <4>2. a - 1 \in Nat /\ b - 1 \in Nat /\ a - 1 <= b - 1 /\ a - 1 >= 4 + (l - 1)
            /\ a - 1 <= a
        BY <4>1
      <4> QED BY <3>1, <4>p, <4>e, <4>l, <4>2
    <3>4. x.enters \in 0..Len(x.records) /\ x.enters < CounterSize
      BY <1>1, <2>7, <3>1, <3>2
    <3> QED BY <3>3, <3>4
  <2>9. /\ x.buffers \in Nat /\ x.aborted \in BOOLEAN /\ x.cpu # NoCPU
        /\ x.tails \in Nat /\ x.tails < CounterSize
    BY <2>2 DEF Sound, Started
  <2>10. EventSizes \subseteq {0} => x.extents = x.ptr
    BY <2>2 DEF Sound
  <2>4. Sound(x) /\ Started(x) /\ x.ptr <= w.ptr
    BY <2>2, <2>3, <2>8, <2>9, <2>10, Sizes DEF Sound, Started
  <2>5. CASE x.enters # 0
    <3>1. v = [x EXCEPT !.lastEntry = @ - delta]
      BY <2>1, <2>5
    <3>2. /\ Shaped(v) /\ v.records = x.records /\ v.ptr = x.ptr /\ v.extents = x.extents
          /\ v.enters = x.enters /\ v.tails = x.tails /\ v.cpu = x.cpu
          /\ v.aborted = x.aborted /\ v.buffers = x.buffers
          /\ v.lastTSC = x.lastTSC /\ v.lastEntry = x.lastEntry - delta
      BY <2>2, <3>1 DEF Shaped
    <3>3. Sound(v) /\ Started(v) /\ v.ptr <= w.ptr
      BY <2>4, <3>2 DEF Sound, Started
    <3>4. EntryGone(v, w)
      BY <2>2, <2>d, <3>2 DEF EntryGone
    <3> QED BY <1>3, <2>2, <3>2, <3>3, <3>4
  <2>6. CASE x.enters = 0
    <3>y. PICK y : y = [x EXCEPT !.lastEntry = 0]
      OBVIOUS
    <3>1. /\ Shaped(y) /\ y.records = x.records /\ y.ptr = x.ptr /\ y.extents = x.extents
          /\ y.enters = x.enters /\ y.tails = x.tails /\ y.cpu = x.cpu
          /\ y.aborted = x.aborted /\ y.buffers = x.buffers
          /\ y.lastTSC = x.lastTSC /\ y.lastEntry = 0
      BY <2>2, <3>y DEF Shaped
    <3>2. Sound(y) /\ Started(y)
      BY <2>4, <3>1 DEF Sound, Started
    <3>3. v = RewindTailCalls(y, tsc)
      BY <2>1, <2>6, <3>y
    <3>4. /\ Sound(v) /\ Started(v) /\ v.ptr <= y.ptr /\ NoneCounted(v)
          /\ y.tails = 0 => ~v.aborted
          /\ v.cpu = y.cpu /\ v.buffers = y.buffers /\ v.lastEntry = y.lastEntry
          /\ \E n : Unpaired(v, y, n) /\ Quick(y, n, tsc)
      BY <2>6, <3>1, <3>2, <3>3, RewindingTailCalls
    <3>5. w.enters = 1
      BY <1>1, <2>2, <2>6
    <3>6. v.ptr <= w.ptr
      <4>1. v.ptr <= x.ptr /\ x.ptr <= w.ptr
        BY <2>4, <3>1, <3>4
      <4>2. v.ptr \in Nat /\ x.ptr \in Nat /\ w.ptr \in Nat
        BY <2>7, <2>8, <3>4 DEF Sound
      <4> QED BY <4>1, <4>2
    <3>7. EntryAndPairsGone(v, w)
      BY <2>2, <2>3, <2>d, <3>1, <3>4, <3>5 DEF EntryAndPairsGone
    <3>8. v.cpu = w.cpu /\ v.buffers = w.buffers /\ (w.tails = 0 => ~v.aborted)
      BY <2>2, <3>1, <3>4
    <3> QED BY <1>3, <3>4, <3>6, <3>7, <3>8
  <2> QED BY <2>5, <2>6
<1> QED BY <1>2, <1>3

(* Both steps of a function hook before its record.                        *)
LEMMA Arriving ==
  ASSUME NEW w, Kept(w), NEW c, c # NoCPU, NEW tsc,
         NEW s, s = writeCurrentCPUTSC(prepareBuffer(Ready(w, c, tsc), c, tsc, MaxSize),
                                       c, tsc)
  PROVE  /\ Sound(s.w) /\ Started(s.w) /\ s.w.ptr + 3 <= Capacity
         /\ s.w.cpu = c /\ Placed(s.w, s.delta, w, tsc)
<1>p. PICK p : p = prepareBuffer(Ready(w, c, tsc), c, tsc, MaxSize)
  OBVIOUS
<1>1. MaxSize \in Nat /\ 6 + MaxSize <= Capacity
  BY Sizes
<1>2. /\ Sound(p) /\ Started(p) /\ p.ptr + MaxSize <= Capacity
      /\ p.aborted = w.aborted
      /\ p.lastTSC = w.lastTSC /\ p.lastEntry = w.lastEntry
      /\ p = w \/ Begun(p, w, tsc)
  BY <1>p, <1>1, Preparing
<1>3. /\ Sound(s.w) /\ Started(s.w) /\ s.w.ptr <= p.ptr + 2 /\ s.w.cpu = c
      /\ Placed(s.w, s.delta, p, tsc)
      /\ Continues(s.w, s.delta, p, tsc) \/ Marks(s.w, s.delta, p, tsc)
  BY <1>p, <1>2, Stamping
<1>4. s.w.ptr + 3 <= Capacity
  <2>1. p.ptr \in Nat /\ s.w.ptr \in Nat
    BY <1>2, <1>3 DEF Sound
  <2>2. p.ptr + 5 <= Capacity /\ s.w.ptr <= p.ptr + 2 /\ Capacity \in Nat
    BY <1>2, <1>3, Sizes
  <2> QED BY <2>1, <2>2
<1>5. CASE p = w
  BY <1>3, <1>4, <1>5
<1>6. CASE Begun(p, w, tsc)
  <2>1. ASSUME Continues(s.w, s.delta, p, tsc) PROVE Begun(s.w, w, tsc)
    BY <1>6, <2>1 DEF Begun, Continues, NoneCounted
  <2>2. ASSUME Marks(s.w, s.delta, p, tsc) PROVE Begun(s.w, w, tsc)
    <3>1. AllTagged(s.w.records, tsc)
      BY <1>2, <1>6, <2>2, MoreTagged DEF Begun, Marks, Sound, TagAdded
    <3> QED BY <1>6, <2>2, <3>1 DEF Begun, Marks
  <2>3. Begun(s.w, w, tsc)
    BY <1>3, <2>1, <2>2
  <2> QED BY <1>2, <1>3, <1>4, <2>3 DEF Placed
<1> QED BY <1>2, <1>5, <1>6

-----------------------------------------------------------------------------
(* The running calls.                                                      *)

Running == [f : Functions, since : Nat, erased : Nat]

(* The call's own time so far is what has gone by since then.              *)
Own(k) == k.since + k.erased

(* No callee ran longer than its caller.                                   *)
Nested(cs, t) ==
  /\ cs \in Seq(Running)
  /\ \A i \in 1..Len(cs) : Own(cs[i]) <= IF i = Len(cs) THEN t ELSE cs[i + 1].since

(* What Call(f) leaves.                                                    *)
Called(cs, f, u) == Append(cs, [f |-> f, since |-> u, erased |-> 0])

LEMMA Calling ==
  ASSUME NEW cs, NEW t, Nested(cs, t), NEW u \in Nat, t <= u, t \in Nat,
         NEW f \in Functions,
         NEW ds, ds = Called(cs, f, u)
  PROVE  /\ Nested(ds, u) /\ Len(cs) \in Nat /\ Len(ds) = Len(cs) + 1
         /\ ds[Len(ds)] = [f |-> f, since |-> u, erased |-> 0]
         /\ \A i \in 1..Len(cs) : ds[i] = cs[i] /\ cs[i] \in Running
<1>k. PICK k : k = [f |-> f, since |-> u, erased |-> 0]
  OBVIOUS
<1>1. k \in Running /\ Own(k) = u /\ k.since = u
  BY <1>k DEF Running, Own
<1>2. cs \in Seq(Running) /\ Len(cs) \in Nat
  BY LenProperties DEF Nested
<1>3. /\ ds \in Seq(Running) /\ Len(ds) = Len(cs) + 1
      /\ \A i \in 1..Len(cs) : ds[i] = cs[i] /\ cs[i] \in Running
      /\ ds[Len(cs) + 1] = k
  BY <1>k, <1>1, <1>2, AppendProperties, ElementOfSeq DEF Called
<1>4. ASSUME NEW i \in 1..Len(ds)
      PROVE  Own(ds[i]) <= IF i = Len(ds) THEN u ELSE ds[i + 1].since
  <2>1. CASE i = Len(ds)
    BY <1>1, <1>3, <2>1
  <2>2. CASE i = Len(cs)
    <3>1. Own(cs[i]) <= t /\ cs[i] \in Running
      BY <1>2, <1>3, <1>4, <2>2 DEF Nested
    <3>2. Own(cs[i]) \in Nat
      BY <3>1 DEF Own, Running
    <3> QED BY <1>1, <1>2, <1>3, <1>4, <2>2, <3>1, <3>2
  <2>3. CASE i < Len(cs)
    <3>1. i \in 1..Len(cs) /\ i + 1 \in 1..Len(cs) /\ i # Len(cs) /\ i # Len(ds)
      BY <1>2, <1>3, <2>3
    <3>2. Own(cs[i]) <= cs[i + 1].since
      BY <3>1 DEF Nested
    <3> QED BY <1>3, <3>1, <3>2
  <2> QED BY <1>2, <1>3, <2>1, <2>2, <2>3
<1> QED BY <1>k, <1>2, <1>3, <1>4 DEF Nested

(* What Return(took) leaves.                                               *)
Returned(cs, took) == IF Len(cs) = 1 THEN <<>>
                      ELSE [Front(cs) EXCEPT ![Len(cs) - 1].erased = @ + took]

LEMMA Returning ==
  ASSUME NEW cs, NEW t, Nested(cs, t), NEW u \in Nat, t <= u, t \in Nat, cs # <<>>,
         NEW took, took = 0 \/ took = u - Last(cs).since,
         NEW ds, ds = Returned(cs, took)
  PROVE  /\ Nested(ds, u) /\ Len(cs) \in Nat \ {0} /\ Len(ds) = Len(cs) - 1
         /\ \A i \in 1..Len(cs) : cs[i] \in Running
         /\ \A i \in 1..Len(ds) : ds[i].f = cs[i].f /\ ds[i].since = cs[i].since
         /\ \A i \in 1..(Len(ds) - 1) : ds[i] = cs[i]
         /\ Len(ds) # 0 => ds[Len(ds)].erased = cs[Len(ds)].erased + took
         /\ took \in Nat /\ Own(Last(cs)) <= u
<1>n. PICK n : n = Len(cs)
  OBVIOUS
<1>1. cs \in Seq(Running) /\ n \in Nat \ {0} /\ Last(cs) = cs[n]
  BY <1>n, EmptySeq DEF Nested, Last
<1>2. \A i \in 1..n : cs[i] \in Running /\ Own(cs[i]) \in Nat
  <2>1. \A i \in 1..n : cs[i] \in Running
    BY <1>1, <1>n, ElementOfSeq
  <2>2. \A k \in Running : Own(k) \in Nat
    BY DEF Own, Running
  <2> QED BY <2>1, <2>2
<1>3. Own(cs[n]) <= u /\ cs[n].since <= Own(cs[n]) /\ cs[n].since \in Nat
  <2>1. Own(cs[n]) <= t
    BY <1>1, <1>n DEF Nested
  <2>2. cs[n] \in Running /\ Own(cs[n]) \in Nat
    BY <1>1, <1>2
  <2>3. cs[n].since <= Own(cs[n]) /\ cs[n].since \in Nat
    BY <2>2 DEF Own, Running
  <2> QED BY <2>1, <2>2, <2>3
<1>4. took \in Nat /\ (took = 0 \/ took = u - cs[n].since)
  BY <1>1, <1>2, <1>3
<1>5. CASE n = 1
  <2>1. ds = <<>> /\ Len(ds) = 0
    BY <1>5, <1>n, EmptySeq DEF Returned
  <2>2. Nested(ds, u)
    BY <2>1, EmptySeq DEF Nested
  <2>3. \A i \in 1..Len(ds) : FALSE
    BY <2>1
  <2>4. \A i \in 1..(Len(ds) - 1) : FALSE
    BY <2>1
  <2>5. Len(ds) = Len(cs) - 1
    BY <1>5, <1>n, <2>1
  <2> QED BY <1>1, <1>2, <1>3, <1>4, <1>n, <2>1, <2>2, <2>3, <2>4, <2>5
<1>6. CASE n # 1
  <2>f. PICK front : front = Front(cs)
    OBVIOUS
  <2>m. PICK m : m = n - 1
    OBVIOUS
  <2>1. m \in Nat \ {0} /\ n = m + 1
    BY <1>1, <1>6, <2>m
  <2>2. /\ front \in Seq(Running) /\ Len(front) = m
        /\ \A i \in 1..m : front[i] = cs[i]
    <3>1. front = SubSeq(cs, 1, m)
      BY <1>n, <2>f, <2>m DEF Front
    <3>2. \A i \in 1..m : cs[i] \in Running
      BY <1>2, <2>1
    <3>3. 1 \in Int /\ m \in Int /\ m - 1 + 1 = m
      BY <2>1
    <3>4. /\ front \in Seq(Running)
          /\ Len(front) = IF 1 <= m THEN m - 1 + 1 ELSE 0
          /\ \A i \in 1..(m - 1 + 1) : front[i] = cs[1 + i - 1]
      BY <3>1, <3>2, <3>3, SubSeqProperties
    <3> QED BY <2>1, <3>3, <3>4
  <2>k. PICK k : k = [cs[m] EXCEPT !.erased = @ + took]
    OBVIOUS
  <2>3. /\ k \in Running /\ k.f = cs[m].f /\ k.since = cs[m].since
        /\ k.erased = cs[m].erased + took
    BY <1>2, <1>4, <2>1, <2>k DEF Running
  <2>4. ds = [front EXCEPT ![m] = k]
    <3>1. front[m] = cs[m]
      BY <2>1, <2>2
    <3>2. ds = [front EXCEPT ![m] = [front[m] EXCEPT !.erased = @ + took]]
      BY <1>n, <1>6, <2>f, <2>m DEF Returned
    <3> QED BY <3>1, <3>2, <2>k
  <2>5. /\ ds \in Seq(Running) /\ Len(ds) = m
        /\ \A i \in 1..m : ds[i] = IF i = m THEN k ELSE cs[i]
    BY <2>1, <2>2, <2>3, <2>4, ExceptSeq
  <2>6. Own(k) <= u
    <3>1. Own(cs[m]) <= cs[n].since
      BY <1>n, <2>1 DEF Nested
    <3>2. cs[m].since \in Nat /\ cs[m].erased \in Nat /\ Own(cs[m]) = cs[m].since + cs[m].erased
      BY <1>2, <2>1 DEF Running, Own
    <3>3. Own(k) = cs[m].since + (cs[m].erased + took)
      BY <2>3 DEF Own
    <3>4. cs[n].since \in Nat /\ cs[n].since <= u
      <4>1. Own(cs[n]) \in Nat
        BY <1>1, <1>2
      <4> QED BY <1>3, <4>1
    <3>5. took \in Nat /\ took <= u - cs[n].since
      BY <1>4, <3>4
    <3>6. Own(cs[m]) \in Nat /\ Own(k) = Own(cs[m]) + took
      BY <3>2, <3>3, <3>5
    <3> QED BY <3>1, <3>4, <3>5, <3>6
  <2>7. ASSUME NEW i \in 1..m
        PROVE  Own(ds[i]) <= IF i = m THEN u ELSE ds[i + 1].since
    <3>1. CASE i = m
      BY <2>5, <2>6, <3>1
    <3>2. CASE i # m
      <4>1. i \in 1..n /\ i # n /\ i + 1 \in 1..m
        BY <2>1, <2>7, <3>2
      <4>2. Own(cs[i]) <= cs[i + 1].since
        BY <1>n, <4>1 DEF Nested
      <4>3. ds[i + 1].since = cs[i + 1].since
        BY <2>3, <2>5, <4>1
      <4> QED BY <2>5, <3>2, <4>2, <4>3
    <3> QED BY <3>1, <3>2
  <2>8. Nested(ds, u)
    BY <2>5, <2>7 DEF Nested
  <2>9. \A i \in 1..m : ds[i].f = cs[i].f /\ ds[i].since = cs[i].since
    BY <2>3, <2>5
  <2>10. \A i \in 1..(m - 1) : ds[i] = cs[i]
    BY <2>1, <2>5
  <2>11. ds[m].erased = cs[m].erased + took
    BY <2>1, <2>3, <2>5
  <2> QED BY <1>1, <1>2, <1>3, <1>4, <1>n, <2>m, <2>1, <2>5, <2>8, <2>9, <2>10, <2>11
<1> QED BY <1>5, <1>6

-----------------------------------------------------------------------------
(* What the counted records say about the running calls.                   *)

Back(w, i) == w.records[Len(w.records) - i]
Caller(cs, i) == cs[Len(cs) - i]

(* LastTSC and LastFunctionEntryTSC are not past the start of the          *)
(* innermost call's own time, and the deltas of the function entries at    *)
(* the end of the buffer lead back at least to that of their callers.      *)
Measured(w, cs) ==
  /\ w.enters <= Len(cs)
  /\ w.enters # 0 => /\ w.lastTSC \in Int /\ w.lastTSC <= Own(Caller(cs, 0))
                     /\ w.lastEntry \in Int /\ w.lastEntry <= Own(Caller(cs, 0))
  /\ \A i \in 0..(w.enters - 2) : (\A j \in 0..i : Back(w, j).kind = "Enter") =>
       /\ Back(w, i).delta \in Int
       /\ Back(w, i).delta >= Caller(cs, i).since - Own(Caller(cs, i + 1))

(* The counted records are the entries of the innermost calls.             *)
Innermost(w, cs) ==
  \A i \in 0..(w.enters - 1) : Back(w, i).kind = "Enter" /\ Back(w, i).f = Caller(cs, i).f

LEMMA NothingMeasured ==
  ASSUME NEW w, w.enters = 0, NEW cs, Len(cs) \in Nat
  PROVE  Measured(w, cs) /\ Innermost(w, cs)
BY DEF Measured, Innermost

(* A function entry is measured from the hook before it.                   *)
(* An entry r is the first to be counted, or one more.                     *)
Counts(v, w, r, u) ==
  \/ v.enters \in 0..1 /\ \E recs : IsSeq(recs) /\ v.records = Append(recs, r)
  \/ /\ v.enters \in 0..(w.enters + 1) /\ v.records = Append(w.records, r)
     /\ r.delta = u - w.lastTSC

CountsEntry(v, w, f, u) == \E r : r.kind = "Enter" /\ r.f = f /\ Counts(v, w, r, u)

LEMMA EntryMeasured ==
  ASSUME NEW w, Sound(w), NEW cs, NEW t \in Nat, Nested(cs, t), Measured(w, cs),
         NEW u \in Nat, t <= u, NEW f \in Functions,
         NEW ds, ds = Called(cs, f, u),
         NEW v, v.lastTSC = u, v.lastEntry = u,
         NEW r, r.kind = "Enter", r.f = f, Counts(v, w, r, u)
  PROVE  Measured(v, ds) /\ (Innermost(w, cs) => Innermost(v, ds))
<1>1. /\ Nested(ds, u) /\ Len(cs) \in Nat /\ Len(ds) = Len(cs) + 1
      /\ ds[Len(ds)] = [f |-> f, since |-> u, erased |-> 0]
      /\ \A i \in 1..Len(cs) : ds[i] = cs[i] /\ cs[i] \in Running
  BY Calling
<1>2. /\ Len(v.records) \in Nat \ {0} /\ v.enters \in Nat /\ Back(v, 0) = r
      /\ v.enters > 1 => /\ v.enters \in 0..(w.enters + 1)
                         /\ v.records = Append(w.records, r)
                         /\ r.delta = u - w.lastTSC
  <2>1. PICK recs : IsSeq(recs) /\ v.records = Append(recs, r)
    BY DEF Sound, Counts
  <2>2. /\ Len(recs) \in Nat /\ Len(v.records) = Len(recs) + 1
        /\ v.records[Len(recs) + 1] = r
    BY <2>1, AppendOne
  <2>3. v.records[Len(v.records) - 0] = r /\ Len(v.records) \in Nat \ {0}
    BY <2>2
  <2>4. w.enters \in Nat
    BY AppendOne DEF Sound
  <2> QED BY <2>3, <2>4 DEF Back, Counts
<1>3. Caller(ds, 0).since = u /\ Own(Caller(ds, 0)) = u /\ Caller(ds, 0).f = f
  <2>1. Caller(ds, 0) = [f |-> f, since |-> u, erased |-> 0]
    BY <1>1 DEF Caller
  <2> QED BY <2>1 DEF Own
<1>4. \A i \in 1..Len(cs) : Caller(ds, i) = Caller(cs, i - 1) /\ Caller(ds, i) \in Running
  <2>1. \A i \in 1..Len(cs) : /\ Len(ds) - i = Len(cs) - (i - 1)
                              /\ Len(ds) - i \in 1..Len(cs)
    BY <1>1
  <2> QED BY <1>1, <2>1 DEF Caller
<1>5. v.enters <= Len(ds)
  BY <1>1, <1>2 DEF Measured, Sound
<1>n. Len(cs) \in Nat /\ v.enters \in Nat
  BY <1>1, <1>2
<1>6. ASSUME v.enters > 1
      PROVE  /\ w.enters \in Nat /\ Len(w.records) \in Nat
             /\ w.enters # 0 /\ w.enters <= Len(w.records)
             /\ w.enters <= Len(cs) /\ v.enters <= w.enters + 1
  <2>1. Len(w.records) \in Nat /\ w.enters \in 0..Len(w.records)
    BY AppendOne DEF Sound
  <2>2. v.enters \in 0..(w.enters + 1)
    BY <1>2, <1>6
  <2>3. w.enters <= Len(cs)
    BY DEF Measured
  <2> QED BY <1>6, <2>1, <2>2, <2>3
<1>9. ASSUME v.enters > 1, NEW i \in 1..Len(w.records)
      PROVE  Back(v, i) = Back(w, i - 1)
  <2>1. /\ Len(w.records) \in Nat /\ Len(v.records) = Len(w.records) + 1
        /\ \A k \in 1..Len(w.records) : v.records[k] = w.records[k]
    <3>1. IsSeq(w.records) /\ v.records = Append(w.records, r)
      BY <1>2, <1>9 DEF Sound
    <3> QED BY <3>1, AppendOne
  <2>2. /\ Len(v.records) - i = Len(w.records) - (i - 1)
        /\ Len(v.records) - i \in 1..Len(w.records)
    BY <2>1
  <2> QED BY <2>1, <2>2 DEF Back
<1>7. ASSUME NEW i \in 0..(v.enters - 2), \A j \in 0..i : Back(v, j).kind = "Enter"
      PROVE  /\ Back(v, i).delta \in Int
             /\ Back(v, i).delta >= Caller(ds, i).since - Own(Caller(ds, i + 1))
  <2>1. v.enters > 1 /\ v.enters \in Nat
    BY <1>2, <1>7
  <2>2. CASE i = 0
    <3>1. w.enters # 0 /\ Len(cs) > 0
      BY <1>1, <1>6, <2>1
    <3>2. w.lastTSC \in Int /\ w.lastTSC <= Own(Caller(cs, 0))
      BY <3>1 DEF Measured
    <3>3. Caller(ds, 1) = Caller(cs, 0) /\ Own(Caller(ds, 1)) \in Nat
      <4>1. Caller(ds, 1) = Caller(cs, 1 - 1) /\ Caller(ds, 1) \in Running
        BY <1>1, <1>4, <3>1
      <4> QED BY <4>1 DEF Own, Running
    <3> QED BY <1>2, <1>3, <2>1, <2>2, <3>2, <3>3
  <2>3. CASE i # 0
    <3>1. /\ i - 1 \in 0..(w.enters - 2)
          /\ i \in 1..Len(cs) /\ i + 1 \in 1..Len(cs) /\ i + 1 - 1 = i - 1 + 1
          /\ i \in 1..Len(w.records) /\ w.enters \in Nat
      <4>e. PICK e \in Nat : e = w.enters
        BY <1>6, <2>1
      <4>v. PICK a \in Nat : a = v.enters
        BY <1>n
      <4>c. PICK c \in Nat : c = Len(cs)
        BY <1>n
      <4>l. PICK l \in Nat : l = Len(w.records)
        BY <1>6, <2>1
      <4>1. e <= l /\ e <= c /\ a <= e + 1
        BY <1>6, <2>1, <4>e, <4>v, <4>c, <4>l
      <4>2. i \in 0..(a - 2) /\ i # 0
        BY <2>3, <4>v
      <4>3. /\ i - 1 \in 0..(e - 2) /\ i \in 1..c /\ i + 1 \in 1..c
            /\ i + 1 - 1 = i - 1 + 1 /\ i \in 1..l
        BY <4>1, <4>2
      <4> QED BY <4>3, <4>e, <4>c, <4>l
    <3>2. \A j \in 0..(i - 1) : Back(w, j).kind = "Enter"
      <4> SUFFICES ASSUME NEW j \in 0..(i - 1) PROVE Back(w, j).kind = "Enter"
        OBVIOUS
      <4>1. j + 1 \in 0..i /\ j + 1 \in 1..Len(w.records) /\ j + 1 - 1 = j
        BY <1>6, <2>1, <3>1
      <4>2. Back(v, j + 1).kind = "Enter"
        BY <1>7, <4>1
      <4> QED BY <1>9, <2>1, <4>1, <4>2
    <3>3. /\ Back(w, i - 1).delta \in Int
          /\ Back(w, i - 1).delta >= Caller(cs, i - 1).since - Own(Caller(cs, i - 1 + 1))
      BY <3>1, <3>2 DEF Measured
    <3>4. Back(v, i) = Back(w, i - 1)
      BY <1>9, <2>1, <3>1
    <3>5. Caller(ds, i) = Caller(cs, i - 1) /\ Caller(ds, i + 1) = Caller(cs, i - 1 + 1)
      <4>1. \A k \in 1..Len(cs) : Caller(ds, k) = Caller(cs, k - 1)
        BY <1>4
      <4>2. Caller(ds, i + 1) = Caller(cs, i + 1 - 1)
        BY <3>1, <4>1
      <4> QED BY <3>1, <4>1, <4>2
    <3> QED BY <3>3, <3>4, <3>5
  <2> QED BY <2>2, <2>3
<1>8. ASSUME Innermost(w, cs), NEW i \in 0..(v.enters - 1)
      PROVE  Back(v, i).kind = "Enter" /\ Back(v, i).f = Caller(ds, i).f
  <2>1. CASE i = 0
    BY <1>2, <1>3, <2>1
  <2>2. CASE i # 0
    <3>1. v.enters > 1
      BY <1>2, <1>8, <2>2
    <3>2. i - 1 \in 0..(w.enters - 1) /\ i \in 1..Len(cs) /\ i \in 1..Len(w.records)
      <4>e. PICK e \in Nat : e = w.enters
        BY <1>6, <3>1
      <4>c. PICK c \in Nat : c = Len(cs)
        BY <1>n
      <4>l. PICK l \in Nat : l = Len(w.records)
        BY <1>6, <3>1
      <4>v. PICK a \in Nat : a = v.enters
        BY <1>n
      <4>1. e <= l /\ e <= c /\ a <= e + 1
        BY <1>6, <3>1, <4>e, <4>v, <4>c, <4>l
      <4>2. i \in 0..(a - 1) /\ i # 0
        BY <2>2, <4>v
      <4>3. i - 1 \in 0..(e - 1) /\ i \in 1..c /\ i \in 1..l
        BY <4>1, <4>2
      <4> QED BY <4>3, <4>e, <4>c, <4>l
    <3>3. Back(v, i) = Back(w, i - 1) /\ Caller(ds, i) = Caller(cs, i - 1)
      BY <1>4, <1>9, <3>1, <3>2
    <3> QED BY <1>8, <3>2, <3>3 DEF Innermost
  <2> QED BY <2>1, <2>2
<1> QED BY <1>2, <1>3, <1>5, <1>7, <1>8 DEF Measured, Innermost

(* The last record is erased, from the hook at u.                          *)
Erased(v, w, u) == /\ v.enters = w.enters - 1 /\ v.records = Front(w.records)
                   /\ v.lastTSC = u - Last(w.records).delta
                   /\ v.lastEntry = w.lastEntry - Last(w.records).delta

(* Erasing an entry goes back to its caller's, whose own time has not      *)
(* started before what LastTSC and LastFunctionEntryTSC become.            *)
LEMMA RewindMeasured ==
  ASSUME NEW w, Sound(w), NEW cs, NEW t \in Nat, Nested(cs, t), cs # <<>>,
         Measured(w, cs), w.enters # 0, NEW u \in Nat, t <= u,
         NEW ds, ds = Returned(cs, u - Last(cs).since),
         Last(w.records).kind = "Enter",
         NEW v, Erased(v, w, u)
  PROVE  Measured(v, ds) /\ (Innermost(w, cs) => Innermost(v, ds))
<1>t. PICK took : took = u - Last(cs).since
  OBVIOUS
<1>1. /\ Nested(ds, u) /\ Len(cs) \in Nat \ {0} /\ Len(ds) = Len(cs) - 1
      /\ \A i \in 1..Len(cs) : cs[i] \in Running
      /\ \A i \in 1..Len(ds) : ds[i].f = cs[i].f /\ ds[i].since = cs[i].since
      /\ \A i \in 1..(Len(ds) - 1) : ds[i] = cs[i]
      /\ Len(ds) # 0 => ds[Len(ds)].erased = cs[Len(ds)].erased + took
      /\ took \in Nat /\ Own(Last(cs)) <= u
  BY <1>t, Returning
<1>2. /\ Len(w.records) \in Nat \ {0} /\ Len(v.records) = Len(w.records) - 1
      /\ \A i \in 1..(Len(w.records) - 1) : v.records[i] = w.records[i]
      /\ w.enters \in 1..Len(w.records)
  <2>1. Len(w.records) \in Nat /\ w.enters \in 0..Len(w.records)
    BY AppendOne DEF Sound
  <2>2. Len(w.records) # 0 /\ w.enters \in 1..Len(w.records)
    BY <2>1
  <2> QED BY <2>1, <2>2, FrontOne DEF Sound, Erased
<1>n. /\ Len(cs) \in Nat /\ Len(ds) \in Nat /\ Len(ds) = Len(cs) - 1
      /\ w.enters \in Nat /\ w.enters # 0 /\ Len(w.records) \in Nat
      /\ w.enters <= Len(w.records) /\ w.enters <= Len(cs)
      /\ v.enters = w.enters - 1
  BY <1>1, <1>2 DEF Measured, Erased
<1>3. Last(w.records) = Back(w, 0) /\ Last(cs) = Caller(cs, 0)
  BY <1>n DEF Last, Back, Caller
<1>4. ASSUME NEW i \in 0..(v.enters - 1)
      PROVE  /\ Back(v, i) = Back(w, i + 1)
             /\ Caller(ds, i).f = Caller(cs, i + 1).f
             /\ Caller(ds, i).since = Caller(cs, i + 1).since
             /\ Caller(ds, i + 1) = Caller(cs, i + 2) \/ i = v.enters - 1
             /\ Caller(cs, i + 1) \in Running
  <2>1. /\ Len(w.records) - 1 - i = Len(w.records) - (i + 1)
        /\ Len(w.records) - 1 - i \in 1..(Len(w.records) - 1)
        /\ Len(ds) - i = Len(cs) - (i + 1) /\ Len(ds) - i \in 1..Len(ds)
        /\ Len(cs) - (i + 1) \in 1..Len(cs)
        /\ i # v.enters - 1 => /\ Len(ds) - (i + 1) = Len(cs) - (i + 2)
                               /\ Len(ds) - (i + 1) \in 1..(Len(ds) - 1)
    <3>1. i \in Nat /\ i < v.enters
      BY <1>n
    <3>3. /\ Len(w.records) - 1 - i = Len(w.records) - (i + 1)
          /\ Len(w.records) - 1 - i \in 1..(Len(w.records) - 1)
      <4>1. i + 1 < Len(w.records)
        BY <1>n, <3>1
      <4> QED BY <1>n, <3>1, <4>1
    <3>4. i + 1 < Len(cs)
      BY <1>n, <3>1
    <3>5. /\ Len(ds) - i = Len(cs) - (i + 1) /\ Len(ds) - i \in 1..Len(ds)
          /\ Len(cs) - (i + 1) \in 1..Len(cs)
      BY <1>n, <3>1, <3>4
    <3>6. ASSUME i # v.enters - 1
          PROVE  /\ Len(ds) - (i + 1) = Len(cs) - (i + 2)
                 /\ Len(ds) - (i + 1) \in 1..(Len(ds) - 1)
      <4>1. i + 1 < v.enters /\ v.enters <= Len(ds)
        BY <1>n, <3>1, <3>6
      <4> QED BY <1>n, <3>1, <4>1
    <3> QED BY <3>3, <3>5, <3>6
  <2>2. Back(v, i) = Back(w, i + 1)
    BY <1>2, <2>1 DEF Back
  <2>3. /\ Caller(ds, i).f = Caller(cs, i + 1).f
        /\ Caller(ds, i).since = Caller(cs, i + 1).since
        /\ Caller(cs, i + 1) \in Running
    BY <1>1, <2>1 DEF Caller
  <2>4. i # v.enters - 1 => Caller(ds, i + 1) = Caller(cs, i + 2)
    BY <1>1, <2>1 DEF Caller
  <2> QED BY <2>2, <2>3, <2>4
<1>5. ASSUME v.enters # 0
      PROVE  /\ v.lastTSC \in Int /\ v.lastTSC <= Own(Caller(ds, 0))
             /\ v.lastEntry \in Int /\ v.lastEntry <= Own(Caller(ds, 0))
  <2>d. PICK delta : delta = Back(w, 0).delta
    OBVIOUS
  <2>c. PICK callee : callee = Caller(cs, 0)
    OBVIOUS
  <2>k. PICK k : k = Caller(cs, 1)
    OBVIOUS
  <2>1. 0 \in 0..(w.enters - 2) /\ 0 \in 0..(v.enters - 1) /\ Len(ds) # 0
    BY <1>n, <1>5
  <2>2. delta \in Int /\ delta >= callee.since - Own(k)
    <3>1. \A j \in 0..0 : Back(w, j).kind = "Enter"
      BY <1>3
    <3>2. /\ Back(w, 0).delta \in Int
          /\ Back(w, 0).delta >= Caller(cs, 0).since - Own(Caller(cs, 0 + 1))
      BY <2>1, <3>1 DEF Measured
    <3> QED BY <2>c, <2>d, <2>k, <3>2
  <2>3. callee \in Running /\ k \in Running
    <3>1. Len(cs) - 0 \in 1..Len(cs) /\ Len(cs) - 1 \in 1..Len(cs)
      BY <1>n, <1>5
    <3> QED BY <1>1, <2>c, <2>k, <3>1 DEF Caller
  <2>4. Own(Caller(ds, 0)) = Own(k) + took
    <3>1. /\ Caller(ds, 0).since = k.since
      <4>1. Caller(ds, 0).since = Caller(cs, 0 + 1).since
        BY <1>4, <2>1
      <4> QED BY <2>k, <4>1
    <3>2. Caller(ds, 0).erased = k.erased + took
      <4>1. Len(ds) - 0 = Len(ds) /\ Len(cs) - 1 = Len(ds)
        BY <1>n
      <4> QED BY <1>1, <2>1, <2>k, <4>1 DEF Caller
    <3>3. took \in Nat
      BY <1>1
    <3> QED BY <2>3, <3>1, <3>2, <3>3 DEF Own, Running
  <2>5. /\ Own(k) \in Nat /\ Own(callee) \in Nat /\ callee.since \in Nat
        /\ Own(callee) <= u /\ took = u - callee.since /\ took \in Nat
    BY <1>1, <1>3, <1>t, <2>c, <2>3 DEF Own, Running
  <2>6. w.lastEntry \in Int /\ w.lastEntry <= Own(callee)
    BY <1>n, <2>c DEF Measured
  <2>7. v.lastTSC = u - delta /\ v.lastEntry = w.lastEntry - delta
    BY <1>3, <2>d DEF Erased
  <2>8. v.lastTSC \in Int /\ v.lastTSC <= Own(k) + took
    BY <2>2, <2>5, <2>7
  <2>9. v.lastEntry \in Int /\ v.lastEntry <= Own(k) + took
    <3>1. w.lastEntry <= u
      BY <2>5, <2>6
    <3>2. w.lastEntry - delta \in Int /\ w.lastEntry - delta <= u - delta
      BY <2>2, <2>6, <3>1
    <3>3. u - delta <= Own(k) + took /\ Own(k) + took \in Int /\ u - delta \in Int
      BY <2>2, <2>5
    <3> QED BY <2>7, <3>2, <3>3
  <2> QED BY <2>4, <2>8, <2>9
<1>6. ASSUME NEW i \in 0..(v.enters - 2), \A j \in 0..i : Back(v, j).kind = "Enter"
      PROVE  /\ Back(v, i).delta \in Int
             /\ Back(v, i).delta >= Caller(ds, i).since - Own(Caller(ds, i + 1))
  <2>1. /\ i + 1 \in 0..(w.enters - 2) /\ i \in 0..(v.enters - 1) /\ i # v.enters - 1
        /\ i + 2 = i + 1 + 1 /\ i \in Nat
    <3>e. PICK e \in Nat : e = w.enters
      BY <1>n
    <3>1. v.enters = e - 1 /\ i \in 0..(e - 3)
      <4>1. v.enters = e - 1
        BY <1>n, <3>e
      <4>2. v.enters - 2 = e - 3
        BY <4>1
      <4> QED BY <4>1, <4>2
    <3>2. /\ i \in Nat /\ i + 1 \in 0..(e - 2) /\ i \in 0..(e - 1 - 1) /\ i # e - 1 - 1
          /\ i + 2 = i + 1 + 1
      BY <3>1
    <3> QED BY <3>1, <3>2, <3>e
  <2>2. \A j \in 0..(i + 1) : Back(w, j).kind = "Enter"
    <3> SUFFICES ASSUME NEW j \in 0..(i + 1) PROVE Back(w, j).kind = "Enter"
      OBVIOUS
    <3>1. CASE j = 0
      BY <1>3, <3>1
    <3>2. CASE j # 0
      <4>1. j - 1 \in 0..i /\ j - 1 \in 0..(v.enters - 1) /\ j - 1 + 1 = j
        <5>e. PICK e : e = v.enters - 1
          OBVIOUS
        <5>1. i \in Nat /\ e \in Int /\ i <= e
          <6>1. e \in Int
            BY <1>n, <5>e
          <6> QED BY <2>1, <5>e, <6>1
        <5>2. j \in Nat /\ j # 0 /\ j <= i + 1
          BY <2>1, <3>2
        <5>3. j - 1 \in 0..i /\ j - 1 \in 0..e /\ j - 1 + 1 = j
          BY <5>1, <5>2
        <5> QED BY <5>3, <5>e
      <4> QED BY <1>4, <1>6, <4>1
    <3> QED BY <3>1, <3>2
  <2>3. /\ Back(w, i + 1).delta \in Int
        /\ Back(w, i + 1).delta >= Caller(cs, i + 1).since - Own(Caller(cs, i + 1 + 1))
    BY <2>1, <2>2 DEF Measured
  <2> QED BY <1>4, <2>1, <2>3
<1>7. ASSUME Innermost(w, cs), NEW i \in 0..(v.enters - 1)
      PROVE  Back(v, i).kind = "Enter" /\ Back(v, i).f = Caller(ds, i).f
  <2>1. i + 1 \in 0..(w.enters - 1)
    BY <1>n
  <2> QED BY <1>4, <1>7, <2>1 DEF Innermost
<1>8. v.enters <= Len(ds)
  BY <1>n
<1> QED BY <1>5, <1>6, <1>7, <1>8 DEF Measured, Innermost

-----------------------------------------------------------------------------
(* The inductive invariant.                                                *)

RewindInv == /\ now \in Nat /\ Nested(calls, now)
             /\ Kept(tld)
             /\ ~tld.aborted => Measured(tld, calls)
             /\ plain => ~tld.aborted /\ tld.tails = 0 /\ Innermost(tld, calls)
             /\ erasures \in Nat

LEMMA InitRewind == Init => RewindInv
<1> SUFFICES ASSUME Init PROVE RewindInv
  OBVIOUS
<1>1. /\ <<>> \in Seq(Running) /\ Len(<<>>) = 0 /\ IsSeq(<<>>)
  BY EmptySeq DEF IsSeq
<1>2. Shaped(tld) /\ tld.records = <<>> /\ tld.ptr = 0 /\ tld.extents = 0
      /\ tld.enters = 0 /\ tld.tails = 0 /\ tld.aborted = FALSE
  BY DEF Init, Shaped
<1>3. Kept(tld)
  <2>1. Len(tld.records) = 0 /\ IsSeq(tld.records)
    BY <1>1, <1>2
  <2>2. tld.enters \in 0..Len(tld.records) /\ tld.ptr \in Nat /\ tld.tails \in Nat
    BY <1>2, <2>1
  <2>3. tld.aborted \in BOOLEAN
    BY DEF Init
  <2>4. EventSizes \subseteq {0} => tld.extents = tld.ptr
    BY <1>2
  <2>6. tld.buffers \in Nat /\ 0 < CounterSize
    BY CounterAssumption DEF Init
  <2>5. Sound(tld)
    BY <1>2, <2>1, <2>2, <2>3, <2>4, <2>6 DEF Sound
  <2> QED BY <1>2, <2>5, Sizes DEF Kept
<1>4. now \in Nat /\ calls = <<>>
  BY StepsAssumption DEF Init
<1>5. Nested(calls, now)
  <2>1. 1..Len(calls) = {}
    BY <1>1, <1>4
  <2> QED BY <1>1, <1>4, <2>1 DEF Nested
<1>6. Measured(tld, calls) /\ Innermost(tld, calls)
  BY <1>1, <1>2, <1>4, NothingMeasured
<1>7. erasures \in Nat
  BY DEF Init
<1> QED BY <1>2, <1>3, <1>4, <1>5, <1>6, <1>7 DEF RewindInv

(* Every hook moves the time on, on some CPU.                              *)
LEMMA Arrived ==
  ASSUME RewindInv, NEW dt \in Steps \cup Pauses, NEW c \in CPUs, NEW rare, Arrive(dt, c, rare)
  PROVE  /\ now' \in Nat /\ now <= now' /\ now \in Nat /\ c # NoCPU
         /\ tld.aborted = FALSE /\ Measured(tld, calls)
<1>1. dt \in Nat /\ c # NoCPU
  BY StepsAssumption, CPUsAssumption
<1>2. tld.aborted = FALSE
  BY DEF Arrive, RewindInv, Kept, Sound
<1> QED BY <1>1, <1>2 DEF Arrive, RewindInv

LEMMA HookStamped ==
  ASSUME Kept(tld), NEW c, c # NoCPU, NEW s, s = Stamped(c)
  PROVE  /\ Sound(s.w) /\ Started(s.w) /\ s.w.ptr + 3 <= Capacity
         /\ s.w.cpu = c /\ Placed(s.w, s.delta, tld, now')
         /\ s.w.aborted = tld.aborted /\ s.w.lastTSC = now'
         /\ \/ NoneCounted(s.w)
            \/ /\ s.w.records = tld.records /\ s.w.enters = tld.enters
               /\ s.w.tails = tld.tails /\ s.w.lastEntry = tld.lastEntry
               /\ s.delta = now' - tld.lastTSC
<1>1. s = writeCurrentCPUTSC(prepareBuffer(Ready(tld, c, now'), c, now', MaxSize), c, now')
  BY DEF Stamped, Prepared
<1>2. /\ Sound(s.w) /\ Started(s.w) /\ s.w.ptr + 3 <= Capacity
      /\ s.w.cpu = c /\ Placed(s.w, s.delta, tld, now')
  BY <1>1, Arriving
<1> QED BY <1>2 DEF Placed, Continues, Marks, Begun

FunctionRecord(kind, f, d, t, own) ==
  [kind |-> kind, f |-> f, delta |-> d, at |-> t, own |-> own]

(* How many records back from the end of the buffer a rewind may erase.    *)
Span(w) == 2 * w.tails + w.enters

Appends(v, s, c, kind, f, t, own) ==
  /\ v.cpu = c /\ v.buffers = s.w.buffers /\ v.lastTSC = t
  /\ v.records = Append(s.w.records, FunctionRecord(kind, f, s.delta, t, own))
  /\ Span(v) <= Span(s.w) + 1
  /\ kind = "TailExit" /\ s.w.enters = 0 => Span(v) = 0

(* What an entry writes, with or without its arguments.                    *)
Entry(s, kind, f, t) ==
  writeFunctionRecord([s.w EXCEPT !.lastEntry = t], kind, f, s.delta, t, 0)

LEMMA EntryWritten ==
  ASSUME Kept(tld), tld.aborted = FALSE, NEW c, c # NoCPU, NEW s, s = Stamped(c),
         NEW f, NEW kind \in {"Enter", "EnterArgs"},
         NEW v, v = Entry(s, kind, f, now')
  PROVE  /\ Sound(v) /\ Started(v) /\ v.ptr + 2 <= Capacity
         /\ v.aborted = FALSE
         /\ v.lastTSC = now' /\ v.lastEntry = now'
         /\ Appends(v, s, c, "Enter", f, now', 0)
         /\ kind = "EnterArgs" => NoneCounted(v)
         /\ kind = "Enter" =>
              /\ tld.tails = 0 => v.tails = 0
              /\ CountsEntry(v, tld, f, now')
<1>1. /\ Sound(s.w) /\ Started(s.w) /\ s.w.ptr + 3 <= Capacity
      /\ s.w.aborted = tld.aborted /\ s.w.cpu = c
      /\ s.w.lastTSC = now'
      /\ \/ NoneCounted(s.w)
         \/ /\ s.w.records = tld.records /\ s.w.enters = tld.enters
            /\ s.w.tails = tld.tails /\ s.w.lastEntry = tld.lastEntry
            /\ s.delta = now' - tld.lastTSC
  BY HookStamped
<1>x. PICK x : x = [s.w EXCEPT !.lastEntry = now']
  OBVIOUS
<1>y. PICK y : y = s.w
  OBVIOUS
<1>2. /\ Shaped(x) /\ x.records = y.records /\ x.ptr = y.ptr /\ x.extents = y.extents
      /\ x.enters = y.enters /\ x.tails = y.tails /\ x.cpu = y.cpu
      /\ x.aborted = y.aborted /\ x.lastTSC = y.lastTSC /\ x.lastEntry = now'
      /\ x.buffers = y.buffers
  <2>1. Shaped(y) /\ x = [y EXCEPT !.lastEntry = now']
    BY <1>1, <1>x, <1>y DEF Sound
  <2> QED BY <2>1 DEF Shaped
<1>3. Sound(x) /\ Started(x)
  BY <1>1, <1>2, <1>y DEF Sound, Started
<1>r. PICK r : r = [kind |-> IF kind = "EnterArgs" THEN "Enter" ELSE kind,
                    f |-> f, delta |-> s.delta, at |-> now', own |-> 0]
  OBVIOUS
<1>4. /\ Sound(v) /\ Alike(v, x) /\ v.ptr = x.ptr + 1 /\ v.buffers = x.buffers
      /\ v.records = Append(x.records, r)
      /\ v.enters \in 0..(x.enters + 1)
      /\ kind = "Enter" => v.tails = x.tails
      /\ kind # "Enter" => v.enters = 0
      /\ kind \notin {"Enter", "TailExit"} => v.tails = 0
  <2>1. v = writeFunctionRecord(x, kind, f, s.delta, now', 0)
    BY <1>x DEF Entry
  <2> QED BY <1>r, <1>3, <2>1, Recording
<1>5. r = FunctionRecord("Enter", f, s.delta, now', 0)
      /\ r.kind = "Enter" /\ r.f = f /\ r.delta = s.delta
  BY <1>r DEF FunctionRecord
<1>6. Started(v) /\ v.ptr + 2 <= Capacity
  <2>1. Len(v.records) = Len(x.records) + 1 /\ Len(x.records) \in Nat
    BY <1>3, <1>4, AppendOne DEF Sound
  <2>2. x.ptr \in Nat /\ x.ptr + 3 <= Capacity
    BY <1>1, <1>2, <1>3, <1>y DEF Sound
  <2>3. v.cpu # NoCPU /\ x.ptr >= PreambleSize + Len(x.records)
    BY <1>3, <1>4 DEF Started, Alike
  <2>4. v.ptr = x.ptr + 1
    BY <1>4
  <2>5. v.ptr >= PreambleSize + Len(v.records)
    BY <2>1, <2>2, <2>3, <2>4, Sizes
  <2> QED BY <2>2, <2>3, <2>4, <2>5, Sizes DEF Started
<1>7. /\ v.aborted = FALSE /\ v.lastTSC = now' /\ v.lastEntry = now'
  BY <1>1, <1>2, <1>4, <1>y DEF Alike
<1>10. Appends(v, s, c, "Enter", f, now', 0)
  <2>1. x.enters \in Nat /\ x.tails \in Nat /\ Span(x) = Span(s.w)
    <3>1. Len(x.records) \in Nat
      BY <1>3, AppendOne DEF Sound
    <3> QED BY <1>2, <1>3, <1>y, <3>1 DEF Sound, Span
  <2>2. Span(v) <= Span(s.w) + 1
    <3>1. v.tails \in {0, x.tails} /\ v.enters \in 0..(x.enters + 1)
      BY <1>4
    <3> QED BY <2>1, <3>1 DEF Span
  <2> QED BY <1>1, <1>2, <1>4, <1>5, <1>y, <2>2 DEF Alike, Appends
<1>8. CASE NoneCounted(s.w)
  <2>1. v.enters \in 0..1 /\ (kind = "Enter" => v.tails = 0)
    BY <1>2, <1>4, <1>8, <1>y DEF NoneCounted
  <2>2. Counts(v, tld, r, now')
    BY <1>3, <1>4, <2>1 DEF Counts, Sound
  <2>3. CountsEntry(v, tld, f, now')
    BY <1>5, <2>2 DEF CountsEntry
  <2> QED BY <1>4, <1>6, <1>7, <1>10, <2>1, <2>3 DEF NoneCounted
<1>9. CASE ~NoneCounted(s.w)
  <2>1. /\ v.enters \in 0..(tld.enters + 1) /\ v.records = Append(tld.records, r)
        /\ r.delta = now' - tld.lastTSC /\ x.tails = tld.tails
    BY <1>1, <1>2, <1>4, <1>5, <1>9, <1>y
  <2>2. Counts(v, tld, r, now')
    BY <2>1 DEF Counts
  <2>3. CountsEntry(v, tld, f, now')
    BY <1>5, <2>2 DEF CountsEntry
  <2> QED BY <1>4, <1>6, <1>7, <1>10, <2>1, <2>3 DEF NoneCounted
<1> QED BY <1>8, <1>9

LEMMA FunctionEntryStep ==
  ASSUME RewindInv, NEW dt \in Steps \cup Pauses, NEW c \in CPUs, NEW f \in Functions,
         FunctionEntry(f, dt, c)
  PROVE  RewindInv'
<1>s. PICK s : s = Stamped(c)
  OBVIOUS
<1>1. /\ tld' = Entry(s, "Enter", f, now') /\ calls' = Called(calls, f, now')
      /\ UNCHANGED <<plain, erasures, selfTime>> /\ Arrive(dt, c, FALSE)
  BY <1>s DEF FunctionEntry, Entry, Call, Called
<1>2. /\ now' \in Nat /\ now <= now' /\ now \in Nat /\ c # NoCPU
      /\ tld.aborted = FALSE /\ Measured(tld, calls)
  BY <1>1, Arrived
<1>3. Kept(tld) /\ Sound(tld) /\ Nested(calls, now)
  BY DEF RewindInv, Kept
<1>4. /\ Sound(tld') /\ Started(tld') /\ tld'.ptr + 2 <= Capacity
      /\ tld'.aborted = FALSE
      /\ tld'.lastTSC = now' /\ tld'.lastEntry = now'
      /\ tld.tails = 0 => tld'.tails = 0
      /\ CountsEntry(tld', tld, f, now')
  BY <1>1, <1>2, <1>3, <1>s, EntryWritten
<1>5. Nested(calls', now')
  BY <1>1, <1>2, <1>3, Calling
<1>6. Measured(tld', calls') /\ (Innermost(tld, calls) => Innermost(tld', calls'))
  <2>1. PICK r : r.kind = "Enter" /\ r.f = f /\ Counts(tld', tld, r, now')
    BY <1>4 DEF CountsEntry
  <2> QED BY <1>1, <1>2, <1>3, <1>4, <2>1, EntryMeasured
<1>7. Kept(tld')
  BY <1>4, Sizes DEF Kept, Sound
<1>8. erasures' \in Nat
  BY <1>1 DEF RewindInv
<1>9. plain' => tld'.aborted = FALSE /\ tld'.tails = 0 /\ Innermost(tld', calls')
  BY <1>1, <1>4, <1>6 DEF RewindInv
<1> QED BY <1>2, <1>5, <1>6, <1>7, <1>8, <1>9 DEF RewindInv

LEMMA LogArgsEntryStep ==
  ASSUME RewindInv, NEW dt \in Steps \cup Pauses, NEW c \in CPUs, NEW f \in Functions,
         LogArgsEntry(f, dt, c)
  PROVE  RewindInv'
<1>s. PICK s : s = Stamped(c)
  OBVIOUS
<1>y. PICK y : y = Entry(s, "EnterArgs", f, now')
  OBVIOUS
<1>1. /\ tld' = Write(y, [kind |-> "CallArgument"], MetadataRecSize)
      /\ calls' = Called(calls, f, now')
      /\ UNCHANGED <<plain, erasures, selfTime>> /\ Arrive(dt, c, TRUE)
  BY <1>s, <1>y DEF LogArgsEntry, Entry, Call, Called
<1>2. /\ now' \in Nat /\ now <= now' /\ now \in Nat /\ c # NoCPU
      /\ tld.aborted = FALSE /\ Measured(tld, calls)
  BY <1>1, Arrived
<1>3. Kept(tld) /\ Nested(calls, now)
  BY DEF RewindInv
<1>4. /\ Sound(y) /\ Started(y) /\ y.ptr + 2 <= Capacity
      /\ y.aborted = FALSE /\ NoneCounted(y)
  BY <1>2, <1>3, <1>s, <1>y, EntryWritten
<1>5. /\ Sound(tld') /\ Alike(tld', y)
      /\ tld'.enters = y.enters /\ tld'.tails = y.tails
      /\ tld'.ptr = y.ptr + 2
      /\ tld'.records = Append(y.records, [kind |-> "CallArgument"])
  BY <1>1, <1>4, Sizes, Writing
<1>6. Kept(tld')
  <2>1. Len(tld'.records) = Len(y.records) + 1 /\ Len(y.records) \in Nat
    BY <1>4, <1>5, AppendOne DEF Sound
  <2>2. y.ptr \in Nat /\ y.ptr >= PreambleSize + Len(y.records) /\ tld'.cpu # NoCPU
    BY <1>4, <1>5 DEF Started, Sound, Alike
  <2>3. Started(tld')
    BY <1>5, <2>1, <2>2, Sizes DEF Started
  <2> QED BY <1>4, <1>5, <2>2, <2>3, Sizes DEF Kept
<1>7. Nested(calls', now') /\ Len(calls') \in Nat
  <2>1. Nested(calls', now')
    BY <1>1, <1>2, <1>3, Calling
  <2> QED BY <2>1, LenProperties DEF Nested
<1>8. Measured(tld', calls') /\ Innermost(tld', calls')
  BY <1>4, <1>5, <1>7, NothingMeasured DEF NoneCounted
<1>9. tld'.tails = 0 /\ tld'.aborted = FALSE
  BY <1>4, <1>5 DEF NoneCounted, Alike
<1>10. erasures' \in Nat
  BY <1>1 DEF RewindInv
<1> QED BY <1>2, <1>6, <1>7, <1>8, <1>9, <1>10 DEF RewindInv

LEMMA CustomEventStep ==
  ASSUME RewindInv, NEW dt \in Steps \cup Pauses, NEW c \in CPUs, NEW n \in EventSizes,
         CustomEvent(n, dt, c)
  PROVE  RewindInv'
<1>p. PICK p : p = Prepared(c, MetadataRecSize + n)
  OBVIOUS
<1>x. PICK x : x = Write(p, [kind |-> "CustomEvent"], MetadataRecSize)
  OBVIOUS
<1>1. /\ tld' = [x EXCEPT !.extents = @ + n]
      /\ plain' = FALSE
      /\ UNCHANGED <<calls, erasures, selfTime>> /\ Arrive(dt, c, TRUE)
  BY <1>p, <1>x DEF CustomEvent
<1>2. /\ now' \in Nat /\ now <= now' /\ now \in Nat /\ c # NoCPU
      /\ tld.aborted = FALSE /\ Measured(tld, calls)
  BY <1>1, Arrived
<1>3. Kept(tld) /\ Nested(calls, now)
  BY DEF RewindInv
<1>4. n \in Nat /\ MetadataRecSize + n \in Nat /\ 6 + (MetadataRecSize + n) <= Capacity
  BY EventsAssumption, Sizes
<1>5. /\ Sound(p) /\ Started(p) /\ p.ptr + (MetadataRecSize + n) <= Capacity
      /\ p.aborted = tld.aborted
      /\ p = tld \/ NoneCounted(p)
  <2>1. p = prepareBuffer(Ready(tld, c, now'), c, now', MetadataRecSize + n)
    BY <1>p DEF Prepared
  <2> QED BY <1>2, <1>3, <1>4, <2>1, Preparing DEF Begun
<1>6. /\ Sound(x) /\ Alike(x, p)
      /\ x.enters = p.enters /\ x.tails = p.tails
      /\ x.ptr = p.ptr + 2
      /\ x.records = Append(p.records, [kind |-> "CustomEvent"])
  BY <1>5, <1>x, Sizes, Writing
<1>7. /\ Shaped(tld') /\ tld'.records = x.records /\ tld'.ptr = x.ptr
      /\ tld'.extents = x.extents + n
      /\ tld'.enters = x.enters /\ tld'.tails = x.tails /\ tld'.cpu = x.cpu
      /\ tld'.aborted = x.aborted /\ tld'.lastTSC = x.lastTSC
      /\ tld'.lastEntry = x.lastEntry /\ tld'.buffers = x.buffers
  <2>1. Shaped(x)
    BY <1>6 DEF Sound
  <2> QED BY <1>1, <2>1 DEF Shaped
<1>8. Sound(tld')
  <2>1. EventSizes \subseteq {0} => tld'.extents = tld'.ptr
    <3>1. SUFFICES ASSUME EventSizes \subseteq {0} PROVE tld'.extents = tld'.ptr
      OBVIOUS
    <3>2. n = 0 /\ x.extents = x.ptr /\ x.ptr \in Nat
      BY <1>6, <3>1 DEF Sound
    <3> QED BY <1>7, <3>2
  <2>2. tld'.extents \in Nat /\ tld'.ptr <= tld'.extents
    BY <1>4, <1>6, <1>7 DEF Sound
  <2> QED BY <1>6, <1>7, <2>1, <2>2 DEF Sound
<1>9. /\ Len(p.records) \in Nat /\ Len(tld'.records) = Len(p.records) + 1
      /\ tld'.records[Len(p.records) + 1] = [kind |-> "CustomEvent"]
  BY <1>5, <1>6, <1>7, AppendOne DEF Sound
<1>10. Kept(tld')
  <2>1. p.ptr \in Nat /\ p.ptr >= PreambleSize + Len(p.records) /\ tld'.cpu # NoCPU
    BY <1>5, <1>6, <1>7 DEF Started, Sound, Alike
  <2>2. tld'.ptr = p.ptr + 2 /\ p.ptr + 2 <= Capacity
    BY <1>4, <1>5, <1>6, <1>7, <2>1, Sizes
  <2>3. Started(tld')
    BY <1>9, <2>1, <2>2, Sizes DEF Started
  <2> QED BY <1>8, <2>1, <2>2, <2>3 DEF Kept
<1>11. Nested(calls', now')
  <2>1. calls \in Seq(Running) /\ Len(calls) \in Nat /\ calls' = calls
    BY <1>1, <1>3, LenProperties DEF Nested
  <2>2. ASSUME NEW i \in 1..Len(calls)
        PROVE  Own(calls[i]) <= IF i = Len(calls) THEN now' ELSE calls[i + 1].since
    <3>1. calls[i] \in Running
      BY <2>1, ElementOfSeq
    <3>2. Own(calls[i]) \in Nat
      BY <3>1 DEF Own, Running
    <3>3. Own(calls[i]) <= IF i = Len(calls) THEN now ELSE calls[i + 1].since
      BY <1>3 DEF Nested
    <3> QED BY <1>2, <3>2, <3>3
  <2> QED BY <2>1, <2>2 DEF Nested
<1>12. Measured(tld', calls')
  <2>1. Len(calls) \in Nat
    BY <1>3, LenProperties DEF Nested
  <2>2. CASE NoneCounted(p)
    <3>1. tld'.enters = 0
      BY <1>6, <1>7, <2>2 DEF NoneCounted
    <3> QED BY <1>1, <2>1, <3>1, NothingMeasured
  <2>3. CASE p = tld
    <3>1. /\ tld'.enters = tld.enters /\ tld'.lastTSC = tld.lastTSC
          /\ tld'.lastEntry = tld.lastEntry
      BY <1>6, <1>7, <2>3 DEF Alike
    <3>2. Back(tld', 0).kind = "CustomEvent"
      <4>1. Len(tld'.records) - 0 = Len(p.records) + 1
        BY <1>9
      <4> QED BY <1>9, <4>1 DEF Back
    <3>3. ASSUME NEW i \in 0..(tld'.enters - 2), \A j \in 0..i : Back(tld', j).kind = "Enter"
          PROVE  FALSE
      <4>1. 0 \in 0..i
        OBVIOUS
      <4> QED BY <3>2, <3>3, <4>1
    <3> QED BY <1>1, <1>2, <3>1, <3>3 DEF Measured
  <2> QED BY <1>5, <2>2, <2>3
<1>13. erasures' \in Nat
  BY <1>1 DEF RewindInv
<1> QED BY <1>1, <1>2, <1>10, <1>11, <1>12, <1>13 DEF RewindInv

LEMMA FunctionEndStep ==
  ASSUME RewindInv, NEW dt \in Steps \cup Pauses, NEW c \in CPUs,
         NEW kind \in {"Exit", "TailExit"}, FunctionEnd(kind, dt, c),
         plain' => plain /\ kind = "Exit"
  PROVE  RewindInv'
<1>s. PICK s : s = Stamped(c)
  OBVIOUS
<1>k. PICK k : k = Last(calls)
  OBVIOUS
<1>1. /\ calls # <<>> /\ Arrive(dt, c, FALSE)
      /\ \/ /\ tld' = writeFunctionRecord(s.w, kind, k.f, s.delta, now', OwnTime(k))
            /\ Return(0)
            /\ UNCHANGED <<erasures, selfTime>>
         \/ /\ s.w.enters # 0 /\ now' - s.w.lastEntry < Threshold
            /\ tld' = rewindRecentCall(s.w, k.f, now')
            /\ Return(Lasted(k))
            /\ erasures' = erasures + 1
  BY <1>s, <1>k DEF FunctionEnd
<1>2. /\ now' \in Nat /\ now <= now' /\ now \in Nat /\ c # NoCPU
      /\ tld.aborted = FALSE /\ Measured(tld, calls)
  BY <1>1, Arrived
<1>3. Kept(tld) /\ Nested(calls, now)
  BY DEF RewindInv
<1>4. /\ Sound(s.w) /\ Started(s.w) /\ s.w.ptr + 3 <= Capacity
      /\ s.w.aborted = tld.aborted
      /\ s.w.lastTSC = now'
      /\ \/ NoneCounted(s.w)
         \/ /\ s.w.records = tld.records /\ s.w.enters = tld.enters
            /\ s.w.tails = tld.tails /\ s.w.lastEntry = tld.lastEntry
            /\ s.delta = now' - tld.lastTSC
  BY <1>2, <1>3, <1>s, HookStamped
<1>5. s.w.ptr \in Nat /\ Len(s.w.records) \in Nat /\ s.w.ptr >= PreambleSize + Len(s.w.records)
  BY <1>4, AppendOne DEF Sound, Started
<1>6. CASE /\ tld' = writeFunctionRecord(s.w, kind, k.f, s.delta, now', OwnTime(k))
           /\ Return(0)
           /\ UNCHANGED <<erasures, selfTime>>
  <2>r. PICK r : r = [kind |-> IF kind = "EnterArgs" THEN "Enter" ELSE kind,
                      f |-> k.f, delta |-> s.delta, at |-> now', own |-> OwnTime(k)]
    OBVIOUS
  <2>1. /\ Sound(tld') /\ Alike(tld', s.w) /\ tld'.ptr = s.w.ptr + 1
        /\ tld'.records = Append(s.w.records, r)
        /\ kind # "Enter" => tld'.enters = 0
        /\ kind \notin {"Enter", "TailExit"} => tld'.tails = 0
    <3>v. PICK v : v = writeFunctionRecord(s.w, kind, k.f, s.delta, now', OwnTime(k))
      OBVIOUS
    <3>2. PICK p : p = s.w
      OBVIOUS
    <3>3. Sound(p) /\ v = writeFunctionRecord(p, kind, k.f, s.delta, now', OwnTime(k))
      BY <1>4, <3>2, <3>v
    <3>1. /\ Sound(v) /\ Alike(v, p) /\ v.ptr = p.ptr + 1
          /\ v.records = Append(p.records, r)
          /\ v.enters \in 0..(p.enters + 1)
          /\ kind = "Enter" => v.tails = p.tails
          /\ kind # "Enter" => v.enters = 0
          /\ kind \notin {"Enter", "TailExit"} => v.tails = 0
      BY <2>r, <3>3, Recording
    <3> QED BY <1>6, <3>v, <3>1, <3>2
  <2>2. Kept(tld')
    <3>1. Len(tld'.records) = Len(s.w.records) + 1
      BY <1>4, <2>1, AppendOne DEF Sound
    <3>2. tld'.cpu # NoCPU
      BY <1>4, <2>1 DEF Started, Alike
    <3>3. Started(tld')
      BY <1>5, <2>1, <3>1, <3>2, Sizes DEF Started
    <3> QED BY <1>4, <1>5, <2>1, <3>3, Sizes DEF Kept
  <2>3. tld'.enters = 0 /\ (kind = "Exit" => tld'.tails = 0) /\ tld'.aborted = FALSE
    BY <1>2, <1>4, <2>1 DEF Alike
  <2>4. Nested(calls', now')
    <3>1. calls' = Returned(calls, 0)
      BY <1>6 DEF Return, Returned
    <3> QED BY <1>1, <1>2, <1>3, <3>1, Returning
  <2>5. Measured(tld', calls') /\ Innermost(tld', calls')
    <3>1. Len(calls') \in Nat
      BY <2>4, LenProperties DEF Nested
    <3> QED BY <2>3, <3>1, NothingMeasured
  <2>6. erasures' \in Nat
    BY <1>6 DEF RewindInv
  <2>7. plain' => tld'.tails = 0
    BY <2>3
  <2> QED BY <1>2, <2>2, <2>3, <2>4, <2>5, <2>6, <2>7 DEF RewindInv
<1>7. CASE /\ s.w.enters # 0 /\ now' - s.w.lastEntry < Threshold
           /\ tld' = rewindRecentCall(s.w, k.f, now')
           /\ Return(Lasted(k))
           /\ erasures' = erasures + 1
  <2>t. PICK took : took = now' - Last(calls).since
    OBVIOUS
  <2>0. calls' = Returned(calls, took) /\ Lasted(k) = took
    BY <1>7, <1>k, <2>t DEF Return, Returned, Lasted
  <2>1. /\ s.w.records = tld.records /\ s.w.enters = tld.enters
        /\ s.w.tails = tld.tails /\ s.w.lastEntry = tld.lastEntry /\ tld.enters # 0
    BY <1>4, <1>7 DEF NoneCounted
  <2>2. /\ Sound(tld') /\ Started(tld') /\ tld'.ptr <= s.w.ptr
        /\ \/ tld'.aborted /\ ~EndsWithEntry(s.w, k.f)
           \/ /\ EndsWithEntry(s.w, k.f) /\ NoneCounted(tld')
              /\ s.w.tails = 0 => ~tld'.aborted
           \/ EndsWithEntry(s.w, k.f) /\ ~tld'.aborted /\ EntryGone(tld', s.w)
    <3>1. ~s.w.aborted
      BY <1>2, <1>4
    <3> QED BY <1>4, <1>7, <3>1, Rewinding DEF EntryAndPairsGone
  <2>3. Kept(tld')
    <3>1. tld'.ptr \in Nat
      BY <2>2 DEF Sound
    <3> QED BY <1>4, <1>5, <2>2, <3>1, Sizes DEF Kept
  <2>4. /\ Nested(calls', now') /\ Len(calls) \in Nat \ {0}
        /\ \A i \in 1..Len(calls) : calls[i] \in Running
        /\ took \in Nat
    BY <1>1, <1>2, <1>3, <2>0, <2>t, Returning
  <2>5. Len(calls') \in Nat
    BY <2>4, LenProperties DEF Nested
  <2>6. k = Caller(calls, 0) /\ k \in Running
    <3>1. Len(calls) - 0 = Len(calls) /\ Len(calls) \in 1..Len(calls)
      BY <2>4
    <3> QED BY <1>k, <2>4, <3>1 DEF Caller, Last
  <2>7. Sound(tld) /\ Last(tld.records) = Back(tld, 0)
    <3>1. Len(tld.records) - 0 = Len(tld.records) /\ Sound(tld)
      BY <1>3, AppendOne DEF Kept, Sound
    <3> QED BY <3>1 DEF Back, Last
  <2>8. ~tld'.aborted => Measured(tld', calls')
    <3>1. SUFFICES ASSUME ~tld'.aborted, tld'.enters # 0 PROVE Measured(tld', calls')
      BY <2>5, NothingMeasured
    <3>2. EndsWithEntry(s.w, k.f) /\ Erased(tld', tld, now')
      BY <1>4, <2>1, <2>2, <3>1 DEF Erased, EntryGone, NoneCounted
    <3>3. Last(tld.records).kind = "Enter"
      BY <2>1, <3>2 DEF EndsWithEntry
    <3> QED BY <1>1, <1>2, <1>3, <2>0, <2>1, <2>t, <2>7, <3>2, <3>3, RewindMeasured
  <2>9. plain' => ~tld'.aborted /\ tld'.tails = 0 /\ Innermost(tld', calls')
    <3>1. SUFFICES ASSUME plain' PROVE ~tld'.aborted /\ tld'.tails = 0 /\ Innermost(tld', calls')
      OBVIOUS
    <3>2. tld.tails = 0 /\ Innermost(tld, calls)
      BY <3>1 DEF RewindInv
    <3>3. EndsWithEntry(s.w, k.f)
      <4>1. 0 \in 0..(tld.enters - 1)
        <5>1. tld.enters \in Nat /\ tld.enters # 0
          BY <2>1, <2>7, AppendOne DEF Sound
        <5> QED BY <5>1
      <4>2. Back(tld, 0).kind = "Enter" /\ Back(tld, 0).f = Caller(calls, 0).f
        BY <3>2, <4>1 DEF Innermost
      <4> QED BY <2>1, <2>6, <2>7, <4>2 DEF EndsWithEntry
    <3>4. ~tld'.aborted /\ tld'.tails = 0
      BY <2>1, <2>2, <3>2, <3>3 DEF NoneCounted, EntryGone
    <3>5. CASE tld'.enters = 0
      BY <2>5, <3>4, <3>5, NothingMeasured
    <3>6. CASE tld'.enters # 0
      <4>1. Erased(tld', tld, now')
        BY <1>4, <2>1, <2>2, <3>3, <3>4, <3>6 DEF Erased, EntryGone, NoneCounted
      <4>2. Last(tld.records).kind = "Enter"
        BY <2>1, <3>3 DEF EndsWithEntry
      <4> QED BY <1>1, <1>2, <1>3, <2>0, <2>1, <2>t, <2>7, <3>2, <3>4, <4>1, <4>2,
                 RewindMeasured
    <3> QED BY <3>5, <3>6
  <2>10. erasures' \in Nat
    BY <1>7 DEF RewindInv
  <2> QED BY <1>2, <2>3, <2>4, <2>8, <2>9, <2>10 DEF RewindInv
<1> QED BY <1>1, <1>6, <1>7

-----------------------------------------------------------------------------
(* The theorems.                                                           *)

LEMMA NextRewind == RewindInv /\ [Next]_vars => RewindInv'
<1> SUFFICES ASSUME RewindInv, [Next]_vars PROVE RewindInv'
  OBVIOUS
<1>1. CASE UNCHANGED vars
  BY <1>1 DEF vars, RewindInv
<1>2. ASSUME NEW dt \in Steps \cup Pauses, NEW c \in CPUs,
             \/ \E f \in Functions : FunctionEntry(f, dt, c) \/ LogArgsEntry(f, dt, c)
             \/ FunctionExit(dt, c) \/ FunctionTailExit(dt, c)
             \/ \E n \in EventSizes : CustomEvent(n, dt, c)
      PROVE  RewindInv'
  <2>1. CASE \E f \in Functions : FunctionEntry(f, dt, c) \/ LogArgsEntry(f, dt, c)
    BY <2>1, FunctionEntryStep, LogArgsEntryStep
  <2>2. CASE FunctionExit(dt, c)
    <3>1. FunctionEnd("Exit", dt, c) /\ (plain' => plain)
      BY <2>2 DEF FunctionExit
    <3> QED BY <3>1, FunctionEndStep
  <2>3. CASE FunctionTailExit(dt, c)
    <3>1. FunctionEnd("TailExit", dt, c) /\ ~plain'
      BY <2>3 DEF FunctionTailExit
    <3> QED BY <3>1, FunctionEndStep
  <2>4. CASE \E n \in EventSizes : CustomEvent(n, dt, c)
    BY <2>4, CustomEventStep
  <2> QED BY <1>2, <2>1, <2>2, <2>3, <2>4
<1> QED BY <1>1, <1>2 DEF Next

(* Rewinding always starts from a state where the counters, LastTSC,       *)
(* LastFunctionEntryTSC and the records at the end of the buffer agree     *)
(* with the calls that are running.                                        *)
THEOREM RewindInvariant == Spec => []RewindInv
<1> QED BY InitRewind, NextRewind, PTL DEF Spec

(* Unless an event carries data, the extents are what RecordPtr has        *)
(* written, and it never leaves the buffer.                                *)
THEOREM AlwaysWithinBuffer ==
  ASSUME EventSizes \subseteq {0}
  PROVE  Spec => []WithinBuffer
<1>1. RewindInv => WithinBuffer
  BY DEF RewindInv, Kept, Sound, WithinBuffer
<1> QED BY <1>1, RewindInvariant, PTL

(* Without tail exits and custom events no assertion of rewindRecentCall   *)
(* fails.                                                                  *)
THEOREM PlainAlwaysRewinds == Spec => []PlainRewinds
<1>1. RewindInv => PlainRewinds
  BY DEF RewindInv, PlainRewinds
<1> QED BY <1>1, RewindInvariant, PTL

(* What holds of 0 and of the next number holds up to m.                   *)
LEMMA UpTo ==
  ASSUME NEW m \in Nat, NEW S, 0 \in S, \A i \in 0..(m - 1) : i \in S => i + 1 \in S
  PROVE  0..m \subseteq S
<1> DEFINE T == {j \in 0..m : 0..j \subseteq S}
<1>1. T \in SUBSET (0..m) /\ 0 \in T
  <2>1. 0 \in 0..m /\ 0..0 = {0}
    OBVIOUS
  <2> QED BY <2>1
<1>2. PICK n : n = Max(T)
  OBVIOUS
<1>3. n \in T /\ \A j \in T : j <= n
  <2> HIDE DEF T
  <2> QED BY <1>1, <1>2, Greatest
<1>4. CASE n = m
  BY <1>3, <1>4
<1>5. CASE n # m
  <2>1. n \in 0..(m - 1) /\ 0..n \subseteq S /\ n \in 0..n
    BY <1>3, <1>5
  <2>2. n + 1 \in S
    BY <2>1
  <2>3. \A i \in 0..(n + 1) : i \in 0..n \/ i = n + 1
    BY <2>1
  <2>4. 0..(n + 1) \subseteq S
    BY <2>1, <2>2, <2>3
  <2>5. n + 1 \in T
    BY <2>1, <2>4
  <2> QED BY <1>3, <2>1, <2>5
<1> QED BY <1>4, <1>5

-----------------------------------------------------------------------------
(* The calls that a log leaves open.                                       *)

LEMMA OpenedIs ==
  ASSUME NEW open, NEW r
  PROVE  /\ r.kind \notin FunctionKinds => Opened(open, r) = open
         /\ r.kind = "Enter" => Opened(open, r) = Append(open, r.f)
         /\ r.kind \in {"Exit", "TailExit"} =>
              Opened(open, r) = IF open = <<>> THEN <<>>
                                ELSE IF Last(open) = r.f THEN Front(open) ELSE <<"?">>
BY DEF Opened, FunctionKinds

(* The first m records of a log are those of another.                      *)
Agree(recs, more, m) == \A i \in 1..m : more[i] = recs[i]

(* Replaying the first m records, record by record.                        *)
Replays(open, recs, m) ==
  open = [i \in 0..m |-> IF i = 0 THEN <<>> ELSE Opened(open[i - 1], recs[i])]

LEMMA ReplaysExist ==
  ASSUME NEW recs, NEW m \in Nat
  PROVE  \E open : Replays(open, recs, m)
<1> DEFINE S == {j \in 0..m : \E open : Replays(open, recs, j)}
<1>1. 0 \in S
  <2>1. PICK o : o = [i \in 0..0 |-> <<>>]
    OBVIOUS
  <2>2. o = [i \in 0..0 |-> IF i = 0 THEN <<>> ELSE Opened(o[i - 1], recs[i])]
    BY <2>1
  <2> QED BY <2>2 DEF Replays
<1>2. ASSUME NEW j \in 0..(m - 1), j \in S
      PROVE  j + 1 \in S
  <2>1. PICK o : Replays(o, recs, j)
    BY <1>2
  <2>n. PICK x : x = Opened(o[j], recs[j + 1])
    OBVIOUS
  <2>2. PICK q : q = [i \in 0..(j + 1) |-> IF i = j + 1 THEN x ELSE o[i]]
    OBVIOUS
  <2>3. j \in Nat /\ j + 1 \in 0..m
    OBVIOUS
  <2>4. ASSUME NEW i \in 0..(j + 1)
        PROVE  q[i] = IF i = 0 THEN <<>> ELSE Opened(q[i - 1], recs[i])
    <3>1. CASE i = j + 1
      <4>1. i - 1 = j /\ j \in 0..(j + 1) /\ j # j + 1 /\ i # 0
        BY <2>3, <3>1
      <4>2. q[j] = o[j] /\ q[i] = x
        BY <2>2, <3>1, <4>1
      <4> QED BY <2>n, <3>1, <4>1, <4>2
    <3>2. CASE i # j + 1
      <4>1. i \in 0..j /\ (i # 0 => i - 1 \in 0..(j + 1) /\ i - 1 # j + 1)
        BY <2>3, <3>2
      <4>2. q[i] = o[i] /\ (i # 0 => q[i - 1] = o[i - 1])
        BY <2>2, <3>2, <4>1
      <4>3. o[i] = IF i = 0 THEN <<>> ELSE Opened(o[i - 1], recs[i])
        BY <2>1, <4>1 DEF Replays
      <4> QED BY <4>2, <4>3
    <3> QED BY <3>1, <3>2
  <2>5. q = [i \in 0..(j + 1) |-> q[i]]
    BY <2>2
  <2>6. Replays(q, recs, j + 1)
    BY <2>4, <2>5 DEF Replays
  <2> QED BY <2>3, <2>6
<1>3. 0..m \subseteq S
  <2> HIDE DEF S
  <2> QED BY <1>1, <1>2, UpTo
<1> QED BY <1>3

(* Two logs that are alike so far leave the same calls open.               *)
LEMMA ReplaysAgree ==
  ASSUME NEW recs, NEW more, NEW m, NEW n, m \in Nat /\ n \in Nat /\ m <= n,
         Agree(recs, more, m),
         NEW o, Replays(o, recs, m), NEW q, Replays(q, more, n)
  PROVE  \A i \in 0..m : q[i] = o[i]
<1> DEFINE S == {i \in 0..m : q[i] = o[i]}
<1>1. \A i \in 0..m : /\ i \in 0..n
                      /\ o[i] = IF i = 0 THEN <<>> ELSE Opened(o[i - 1], recs[i])
                      /\ q[i] = IF i = 0 THEN <<>> ELSE Opened(q[i - 1], more[i])
  <2>1. \A i \in 0..m : i \in 0..n
    OBVIOUS
  <2> QED BY <2>1 DEF Replays
<1>2. 0 \in S
  <2>1. 0 \in 0..m
    OBVIOUS
  <2> QED BY <1>1, <2>1
<1>3. ASSUME NEW i \in 0..(m - 1), i \in S
      PROVE  i + 1 \in S
  <2>1. i + 1 \in 0..m /\ i + 1 # 0 /\ i + 1 - 1 = i /\ i + 1 \in 1..m
    OBVIOUS
  <2>2. o[i + 1] = Opened(o[i], recs[i + 1]) /\ q[i + 1] = Opened(q[i], more[i + 1])
    BY <1>1, <2>1
  <2> QED BY <1>3, <2>1, <2>2 DEF Agree
<1>4. 0..m \subseteq S
  <2> HIDE DEF S
  <2> QED BY <1>2, <1>3, UpTo
<1> QED BY <1>4

LEMMA ReplayIs ==
  ASSUME NEW recs, Len(recs) \in Nat
  PROVE  \E open : Replays(open, recs, Len(recs)) /\ Replay(recs) = open[Len(recs)]
<1>1. PICK o : o = CHOOSE open : Replays(open, recs, Len(recs))
  OBVIOUS
<1>2. Replays(o, recs, Len(recs))
  BY <1>1, ReplaysExist
<1>3. Replay(recs) = o[Len(recs)]
  BY <1>1 DEF Replay, Replays
<1> QED BY <1>2, <1>3

LEMMA ReplayNone ==
  ASSUME NEW recs, Len(recs) = 0
  PROVE  Replay(recs) = <<>>
<1>1. PICK o : Replays(o, recs, 0) /\ Replay(recs) = o[0]
  BY ReplayIs
<1> QED BY <1>1 DEF Replays

LEMMA ReplaysOne ==
  ASSUME NEW recs, NEW more, NEW m \in Nat, NEW n \in Nat, n = m + 1, Agree(recs, more, m),
         NEW o, Replays(o, recs, m), NEW q, Replays(q, more, n)
  PROVE  q[n] = Opened(o[m], more[n])
<1>1. /\ m \in Nat /\ n \in Nat /\ m <= n /\ m \in 0..m /\ n \in 0..n
      /\ n # 0 /\ n - 1 = m
  OBVIOUS
<1>2. \A i \in 0..m : q[i] = o[i]
  BY <1>1, ReplaysAgree
<1>3. q[n] = Opened(q[m], more[n])
  BY <1>1 DEF Replays
<1> QED BY <1>1, <1>2, <1>3

LEMMA ReplayOne ==
  ASSUME NEW recs, NEW more, Len(recs) \in Nat, Len(more) = Len(recs) + 1,
         Agree(recs, more, Len(recs))
  PROVE  Replay(more) = Opened(Replay(recs), more[Len(more)])
<1>1. PICK o : Replays(o, recs, Len(recs)) /\ Replay(recs) = o[Len(recs)]
  BY ReplayIs
<1>2. PICK q : Replays(q, more, Len(more)) /\ Replay(more) = q[Len(more)]
  BY ReplayIs
<1>3. Len(more) \in Nat
  OBVIOUS
<1> QED BY <1>1, <1>2, <1>3, ReplaysOne

(* Records that are not of functions leave the open calls as they are.     *)
LEMMA ReplayNothing ==
  ASSUME NEW recs, Len(recs) \in Nat, \A i \in 1..Len(recs) : recs[i].kind \notin FunctionKinds
  PROVE  Replay(recs) = <<>>
<1>m. PICK m : m = Len(recs)
  OBVIOUS
<1>1. PICK o : Replays(o, recs, m) /\ Replay(recs) = o[m]
  BY <1>m, ReplayIs
<1> DEFINE S == {i \in 0..m : o[i] = <<>>}
<1>2. \A i \in 0..m : o[i] = IF i = 0 THEN <<>> ELSE Opened(o[i - 1], recs[i])
  BY <1>1 DEF Replays
<1>3. m \in Nat /\ 0 \in S
  <2>1. m \in Nat /\ 0 \in 0..m
    BY <1>m
  <2> QED BY <1>2, <2>1
<1>4. ASSUME NEW i \in 0..(m - 1), i \in S
      PROVE  i + 1 \in S
  <2>1. i + 1 \in 0..m /\ i + 1 # 0 /\ i + 1 - 1 = i /\ i + 1 \in 1..m
    BY <1>3
  <2>2. o[i + 1] = Opened(o[i], recs[i + 1])
    BY <1>2, <2>1
  <2>3. recs[i + 1].kind \notin FunctionKinds
    BY <1>m, <2>1
  <2>4. o[i + 1] = o[i]
    BY <2>2, <2>3, OpenedIs
  <2> QED BY <1>4, <2>1, <2>4
<1>5. 0..m \subseteq S
  <2> HIDE DEF S
  <2> QED BY <1>3, <1>4, UpTo
<1> QED BY <1>1, <1>3, <1>5

-----------------------------------------------------------------------------
(* The times that a log decodes to.                                        *)

Decodes(base, recs, m) ==
  base = [k \in 0..m |-> IF k = 0 THEN 0 ELSE DecodedTSC(base[k - 1], recs[k])]

LEMMA DecodesExist ==
  ASSUME NEW recs, NEW m \in Nat
  PROVE  \E base : Decodes(base, recs, m)
<1> DEFINE S == {j \in 0..m : \E base : Decodes(base, recs, j)}
<1>1. 0 \in S
  <2>1. PICK b : b = [i \in 0..0 |-> 0]
    OBVIOUS
  <2>2. b = [i \in 0..0 |-> IF i = 0 THEN 0 ELSE DecodedTSC(b[i - 1], recs[i])]
    BY <2>1
  <2> QED BY <2>2 DEF Decodes
<1>2. ASSUME NEW j \in 0..(m - 1), j \in S
      PROVE  j + 1 \in S
  <2>1. PICK b : Decodes(b, recs, j)
    BY <1>2
  <2>n. PICK x : x = DecodedTSC(b[j], recs[j + 1])
    OBVIOUS
  <2>2. PICK q : q = [i \in 0..(j + 1) |-> IF i = j + 1 THEN x ELSE b[i]]
    OBVIOUS
  <2>3. j \in Nat /\ j + 1 \in 0..m
    OBVIOUS
  <2>4. ASSUME NEW i \in 0..(j + 1)
        PROVE  q[i] = IF i = 0 THEN 0 ELSE DecodedTSC(q[i - 1], recs[i])
    <3>1. CASE i = j + 1
      <4>1. i - 1 = j /\ j \in 0..(j + 1) /\ j # j + 1 /\ i # 0
        BY <2>3, <3>1
      <4>2. q[j] = b[j] /\ q[i] = x
        BY <2>2, <3>1, <4>1
      <4> QED BY <2>n, <3>1, <4>1, <4>2
    <3>2. CASE i # j + 1
      <4>1. i \in 0..j /\ (i # 0 => i - 1 \in 0..(j + 1) /\ i - 1 # j + 1)
        BY <2>3, <3>2
      <4>2. q[i] = b[i] /\ (i # 0 => q[i - 1] = b[i - 1])
        BY <2>2, <3>2, <4>1
      <4>3. b[i] = IF i = 0 THEN 0 ELSE DecodedTSC(b[i - 1], recs[i])
        BY <2>1, <4>1 DEF Decodes
      <4> QED BY <4>2, <4>3
    <3> QED BY <3>1, <3>2
  <2>5. q = [i \in 0..(j + 1) |-> q[i]]
    BY <2>2
  <2>6. Decodes(q, recs, j + 1)
    BY <2>4, <2>5 DEF Decodes
  <2> QED BY <2>3, <2>6
<1>3. 0..m \subseteq S
  <2> HIDE DEF S
  <2> QED BY <1>1, <1>2, UpTo
<1> QED BY <1>3

LEMMA DecodesAgree ==
  ASSUME NEW recs, NEW more, NEW m, NEW n, m \in Nat /\ n \in Nat /\ m <= n,
         Agree(recs, more, m),
         NEW b, Decodes(b, recs, m), NEW q, Decodes(q, more, n)
  PROVE  \A i \in 0..m : q[i] = b[i]
<1> DEFINE S == {i \in 0..m : q[i] = b[i]}
<1>1. \A i \in 0..m : /\ i \in 0..n
                      /\ b[i] = IF i = 0 THEN 0 ELSE DecodedTSC(b[i - 1], recs[i])
                      /\ q[i] = IF i = 0 THEN 0 ELSE DecodedTSC(q[i - 1], more[i])
  <2>1. \A i \in 0..m : i \in 0..n
    OBVIOUS
  <2> QED BY <2>1 DEF Decodes
<1>2. 0 \in S
  <2>1. 0 \in 0..m
    OBVIOUS
  <2> QED BY <1>1, <2>1
<1>3. ASSUME NEW i \in 0..(m - 1), i \in S
      PROVE  i + 1 \in S
  <2>1. i + 1 \in 0..m /\ i + 1 # 0 /\ i + 1 - 1 = i /\ i + 1 \in 1..m
    OBVIOUS
  <2>2. b[i + 1] = DecodedTSC(b[i], recs[i + 1]) /\ q[i + 1] = DecodedTSC(q[i], more[i + 1])
    BY <1>1, <2>1
  <2> QED BY <1>3, <2>1, <2>2 DEF Agree
<1>4. 0..m \subseteq S
  <2> HIDE DEF S
  <2> QED BY <1>2, <1>3, UpTo
<1> QED BY <1>4

LEMMA BaseIs ==
  ASSUME NEW recs, NEW m \in Nat
  PROVE  \E base : Decodes(base, recs, m) /\ BaseTSC(recs, m) = base[m]
<1>1. PICK b : b = CHOOSE base : Decodes(base, recs, m)
  OBVIOUS
<1>2. Decodes(b, recs, m)
  BY <1>1, DecodesExist
<1>3. BaseTSC(recs, m) = b[m]
  BY <1>1 DEF BaseTSC, Decodes
<1> QED BY <1>2, <1>3

LEMMA BaseOne ==
  ASSUME NEW recs, NEW m \in Nat
  PROVE  /\ BaseTSC(recs, 0) = 0
         /\ BaseTSC(recs, m + 1) = DecodedTSC(BaseTSC(recs, m), recs[m + 1])
<1>1. PICK b : Decodes(b, recs, m) /\ BaseTSC(recs, m) = b[m]
  BY BaseIs
<1>n. PICK n \in Nat : n = m + 1
  OBVIOUS
<1>3. /\ n \in Nat /\ m <= n /\ m \in 0..m /\ n \in 0..n
      /\ n # 0 /\ n - 1 = m /\ 0 \in Nat /\ 0 \in 0..0
  BY <1>n
<1>2. PICK q : Decodes(q, recs, n) /\ BaseTSC(recs, n) = q[n]
  BY <1>3, BaseIs
<1>4. q[m] = b[m]
  <2>1. Agree(recs, recs, m)
    BY DEF Agree
  <2>2. \A i \in 0..m : q[i] = b[i]
    <3>1. m \in Nat /\ n \in Nat /\ m <= n
      BY <1>3
    <3>2. Decodes(b, recs, m) /\ Decodes(q, recs, n)
      BY <1>1, <1>2
    <3> QED BY <2>1, <3>1, <3>2, DecodesAgree
  <2> QED BY <1>3, <2>2
<1>5. q[n] = DecodedTSC(q[m], recs[n])
  BY <1>2, <1>3 DEF Decodes
<1>6. BaseTSC(recs, 0) = 0
  <2>1. PICK c : Decodes(c, recs, 0) /\ BaseTSC(recs, 0) = c[0]
    BY <1>3, BaseIs
  <2> QED BY <1>3, <2>1 DEF Decodes
<1> QED BY <1>n, <1>1, <1>2, <1>4, <1>5, <1>6

LEMMA BaseAlike ==
  ASSUME NEW recs, NEW more, NEW m \in Nat, Agree(recs, more, m)
  PROVE  BaseTSC(more, m) = BaseTSC(recs, m)
<1>1. PICK b : Decodes(b, recs, m) /\ BaseTSC(recs, m) = b[m]
  BY BaseIs
<1>2. PICK q : Decodes(q, more, m) /\ BaseTSC(more, m) = q[m]
  BY BaseIs
<1>3. m \in Nat /\ m <= m /\ m \in 0..m
  OBVIOUS
<1>4. \A i \in 0..m : q[i] = b[i]
  BY <1>1, <1>2, <1>3, DecodesAgree
<1> QED BY <1>1, <1>2, <1>3, <1>4

-----------------------------------------------------------------------------
(* The times that the deltas lead back to.                                 *)

(* The function records at the end, R of them: g[i] is the time before the *)
(* last i, from the time t on.                                             *)
Leads(g, recs, t, R) ==
  /\ g \in [0..R -> Nat] /\ g[0] = t
  /\ \A i \in 0..(R - 1) : LET delta == recs[Len(recs) - i].delta
                          IN delta \in Nat /\ g[i + 1] = g[i] - delta

LEMMA BeforeIs ==
  ASSUME NEW w, NEW R \in Nat, NEW g, Leads(g, w.records, w.lastTSC, R), NEW k \in 0..R
  PROVE  Before(w, k) = g[k]
<1> DEFINE Times(h) == h = [i \in 0..k |-> IF i = 0 THEN w.lastTSC
                                ELSE h[i - 1] - w.records[Len(w.records) - i + 1].delta]
<1>0. k \in Nat /\ k <= R /\ 0 \in 0..k /\ k \in 0..k
  OBVIOUS
<1>1. ASSUME NEW i \in 0..k
      PROVE  g[i] = IF i = 0 THEN w.lastTSC
                    ELSE g[i - 1] - w.records[Len(w.records) - i + 1].delta
  <2>1. CASE i = 0
    BY <2>1 DEF Leads
  <2>2. CASE i # 0
    <3>1. /\ i - 1 \in 0..(R - 1) /\ i - 1 + 1 = i
      BY <1>0, <2>2
    <3>2. g[i - 1 + 1] = g[i - 1] - w.records[Len(w.records) - (i - 1)].delta
      BY <3>1 DEF Leads
    <3> QED BY <2>2, <3>1, <3>2
  <2> QED BY <2>1, <2>2
<1>2. PICK h : h = [i \in 0..k |-> g[i]]
  OBVIOUS
<1>3. Times(h)
  <2>1. ASSUME NEW i \in 0..k
        PROVE  h[i] = IF i = 0 THEN w.lastTSC
                      ELSE h[i - 1] - w.records[Len(w.records) - i + 1].delta
    <3>1. i # 0 => i - 1 \in 0..k
      BY <1>0
    <3> QED BY <1>1, <1>2, <3>1
  <2>2. h = [i \in 0..k |-> h[i]]
    BY <1>2
  <2> QED BY <2>1, <2>2
<1>4. PICK l : l = CHOOSE q : Times(q)
  OBVIOUS
<1>5. Times(l)
  <2>1. \E q : Times(q)
    BY <1>3
  <2> HIDE DEF Times
  <2> QED BY <1>4, <2>1
<1>6. Before(w, k) = l[k]
  BY <1>4 DEF Before
<1> DEFINE S == {i \in 0..k : l[i] = g[i]}
<1>7. 0 \in S
  BY <1>0, <1>1, <1>5
<1>8. ASSUME NEW i \in 0..(k - 1), i \in S PROVE i + 1 \in S
  <2>n. PICK n \in Nat : n = i + 1
    OBVIOUS
  <2>1. n \in 0..k /\ n # 0 /\ n - 1 = i
    BY <1>0, <2>n
  <2>d. PICK d : d = w.records[Len(w.records) - n + 1].delta
    OBVIOUS
  <2>2. g[n] = g[i] - d
    <3>1. g[n] = IF n = 0 THEN w.lastTSC
                 ELSE g[n - 1] - w.records[Len(w.records) - n + 1].delta
      BY <1>1, <2>1
    <3> QED BY <2>1, <2>d, <3>1
  <2>3. l[n] = l[i] - d
    <3>1. l[n] = IF n = 0 THEN w.lastTSC
                 ELSE l[n - 1] - w.records[Len(w.records) - n + 1].delta
      BY <1>5, <2>1
    <3> QED BY <2>1, <2>d, <3>1
  <2> QED BY <1>8, <2>n, <2>1, <2>2, <2>3
<1>9. 0..k \subseteq S
  <2> HIDE DEF S
  <2> QED BY <1>0, <1>7, <1>8, UpTo
<1> QED BY <1>0, <1>6, <1>9

(* The calls o are the innermost of cs.                                    *)
Ends(o, cs) == /\ IsSeq(o) /\ Len(o) <= Len(cs)
               /\ \A i \in 0..(Len(o) - 1) : o[Len(o) - i] = Caller(cs, i).f

LEMMA FrontAppend ==
  ASSUME NEW s, IsSeq(s), NEW e
  PROVE  /\ Front(Append(s, e)) = s /\ Last(Append(s, e)) = e
         /\ Append(s, e) # <<>>
<1>1. PICK S : s \in Seq(S)
  BY DEF IsSeq
<1>p. PICK a : a = Append(s, e)
  OBVIOUS
<1>n. PICK n \in Nat : n = Len(s)
  BY <1>1, LenProperties
<1>t. PICK T : T = S \cup {e}
  OBVIOUS
<1>2. s \in Seq(T) /\ a \in Seq(T) /\ a # <<>> /\ Len(a) = n + 1
      /\ (\A i \in 1..n : a[i] = s[i]) /\ a[n + 1] = e
  <2>1. s \in Seq(T) /\ e \in T
    BY <1>1, <1>t, SeqMonotonic
  <2> QED BY <2>1, <1>n, <1>p, AppendProperties
<1>3. PICK b : b = Front(a)
  OBVIOUS
<1>4. b \in Seq(T) /\ Len(b) = n /\ \A i \in 1..n : b[i] = a[i]
  <2>1. b = SubSeq(a, 1, n)
    BY <1>2, <1>3 DEF Front
  <2>2. IsSeq(a) /\ n \in 0..Len(a)
    BY <1>2 DEF IsSeq
  <2>3. IsSeq(b) /\ Len(b) = n /\ \A i \in 1..n : b[i] = a[i]
    BY <2>1, <2>2, Prefix
  <2>4. \A i \in 1..n : a[i] \in T
    BY <1>2, ElementOfSeq
  <2>5. 1 \in Int /\ n \in Int
    OBVIOUS
  <2>6. b \in Seq(T)
    BY <2>1, <2>4, <2>5, SubSeqProperties
  <2> QED BY <2>3, <2>6
<1>5. b = s
  <2>1. Len(b) = Len(s) /\ \A i \in 1..Len(b) : b[i] = s[i]
    BY <1>2, <1>4, <1>n
  <2> QED BY <1>2, <1>4, <2>1, SeqEqual
<1>6. Last(a) = e
  BY <1>2, <1>n DEF Last
<1> QED BY <1>2, <1>3, <1>5, <1>6, <1>p

(* What is replayed is a sequence.                                         *)
LEMMA OpenedSeq ==
  ASSUME NEW o, IsSeq(o), NEW r
  PROVE  IsSeq(Opened(o, r))
<1>1. IsSeq(<<>>) /\ IsSeq(<<"?">>)
  <2>1. <<>> \in Seq({}) /\ <<"?">> \in Seq({"?"})
    OBVIOUS
  <2> QED BY <2>1 DEF IsSeq
<1>2. IsSeq(Append(o, r.f))
  BY AppendOne
<1>3. o # <<>> => IsSeq(Front(o))
  <2>1. o # <<>> => Len(o) # 0
    BY EmptySeq DEF IsSeq
  <2> QED BY <2>1, FrontOne
<1> QED BY <1>1, <1>2, <1>3 DEF Opened, FunctionKinds

LEMMA ReplaySeq ==
  ASSUME NEW recs, Len(recs) \in Nat
  PROVE  IsSeq(Replay(recs))
<1>m. PICK m \in Nat : m = Len(recs)
  OBVIOUS
<1>1. PICK o : Replays(o, recs, m) /\ Replay(recs) = o[m]
  BY <1>m, ReplayIs
<1> DEFINE S == {i \in 0..m : IsSeq(o[i])}
<1>2. \A i \in 0..m : o[i] = IF i = 0 THEN <<>> ELSE Opened(o[i - 1], recs[i])
  BY <1>1 DEF Replays
<1>3. 0 \in S /\ m \in 0..m
  <2>1. m \in 0..m /\ 0 \in 0..m
    OBVIOUS
  <2>2. IsSeq(<<>>)
    BY EmptySeq DEF IsSeq
  <2> QED BY <1>2, <2>1, <2>2
<1>4. ASSUME NEW i \in 0..(m - 1), i \in S
      PROVE  i + 1 \in S
  <2>1. i + 1 \in 0..m /\ i + 1 # 0 /\ i + 1 - 1 = i
    OBVIOUS
  <2>2. o[i + 1] = Opened(o[i], recs[i + 1])
    BY <1>2, <2>1
  <2>3. IsSeq(o[i])
    BY <1>4
  <2>4. IsSeq(o[i + 1])
    BY <2>2, <2>3, OpenedSeq
  <2> QED BY <2>1, <2>4
<1>5. 0..m \subseteq S
  <2> HIDE DEF S
  <2> QED BY <1>3, <1>4, UpTo
<1> QED BY <1>1, <1>3, <1>5

LEMMA EndsNone ==
  ASSUME NEW cs, Len(cs) \in Nat
  PROVE  Ends(<<>>, cs)
<1>1. IsSeq(<<>>) /\ Len(<<>>) = 0
  BY EmptySeq DEF IsSeq
<1> QED BY <1>1 DEF Ends

(* One more call of f.                                                     *)
LEMMA EndsCalled ==
  ASSUME NEW o, NEW cs, Ends(o, cs), NEW ds, Len(cs) \in Nat, Len(ds) = Len(cs) + 1,
         NEW f, ds[Len(ds)].f = f, \A i \in 1..Len(cs) : ds[i] = cs[i]
  PROVE  Ends(Append(o, f), ds)
<1>a. PICK a : a = Append(o, f)
  OBVIOUS
<1>n. PICK n : n = Len(o)
  OBVIOUS
<1>m. PICK m : m = Len(cs)
  OBVIOUS
<1>1. /\ IsSeq(a) /\ n \in Nat /\ Len(a) = n + 1
      /\ \A i \in 1..n : a[i] = o[i]
      /\ a[n + 1] = f
  BY <1>a, <1>n, AppendOne DEF Ends
<1>2. m \in Nat /\ n <= m /\ Len(ds) = m + 1
  BY <1>n, <1>m DEF Ends
<1>3. ASSUME NEW i \in 0..n
      PROVE  a[n + 1 - i] = Caller(ds, i).f
  <2>1. CASE i = 0
    <3>1. n + 1 - i = n + 1 /\ Len(ds) - i = Len(ds)
      BY <1>1, <1>2, <2>1
    <3> QED BY <1>1, <3>1 DEF Caller
  <2>2. CASE i # 0
    <3>1. /\ i - 1 \in 0..(n - 1) /\ n + 1 - i = n - (i - 1) /\ n + 1 - i \in 1..n
          /\ m + 1 - i = m - (i - 1) /\ m + 1 - i \in 1..m
      BY <1>1, <1>2, <2>2
    <3>2. o[n - (i - 1)] = Caller(cs, i - 1).f
      BY <1>n, <3>1 DEF Ends
    <3>3. Caller(ds, i) = Caller(cs, i - 1)
      BY <1>m, <1>2, <3>1 DEF Caller
    <3> QED BY <1>1, <3>1, <3>2, <3>3
  <2> QED BY <2>1, <2>2
<1>4. n + 1 <= m + 1 /\ n + 1 - 1 = n
  BY <1>1, <1>2
<1> QED BY <1>1, <1>2, <1>3, <1>4, <1>a DEF Ends

(* The innermost call ends.                                                *)
LEMMA EndsReturned ==
  ASSUME NEW o, NEW cs, Ends(o, cs), NEW ds, Len(cs) \in Nat \ {0}, Len(ds) = Len(cs) - 1,
         \A i \in 1..Len(ds) : ds[i].f = cs[i].f
  PROVE  /\ o = <<>> => Ends(o, ds)
         /\ o # <<>> => Ends(Front(o), ds) /\ Last(o) = Last(cs).f
<1>n. PICK n : n = Len(o)
  OBVIOUS
<1>m. PICK m : m = Len(cs)
  OBVIOUS
<1>1. /\ IsSeq(o) /\ n \in Nat /\ n <= m /\ m \in Nat \ {0} /\ Len(ds) = m - 1
      /\ o # <<>> => n # 0
  <2>1. IsSeq(o) /\ n <= m
    BY <1>n, <1>m DEF Ends
  <2>2. n \in Nat /\ (o # <<>> => n # 0)
    BY <1>n, <2>1, EmptySeq, LenProperties DEF IsSeq
  <2> QED BY <1>m, <2>1, <2>2
<1>2. CASE o = <<>>
  <2>1. Len(ds) \in Nat
    BY <1>1
  <2> QED BY <1>2, <2>1, EndsNone
<1>3. CASE o # <<>>
  <2>p. PICK p : p = Front(o)
    OBVIOUS
  <2>1. /\ IsSeq(p) /\ Len(p) = n - 1 /\ \A i \in 1..(n - 1) : p[i] = o[i]
    BY <1>1, <1>3, <1>n, <2>p, FrontOne
  <2>2. ASSUME NEW i \in 0..(n - 1 - 1)
        PROVE  p[n - 1 - i] = Caller(ds, i).f
    <3>1. /\ n - 1 - i = n - (i + 1) /\ n - 1 - i \in 1..(n - 1) /\ i + 1 \in 0..(n - 1)
          /\ m - 1 - i = m - (i + 1) /\ m - 1 - i \in 1..(m - 1)
      BY <1>1
    <3>2. o[n - (i + 1)] = Caller(cs, i + 1).f
      BY <1>n, <3>1 DEF Ends
    <3>3. Caller(ds, i).f = Caller(cs, i + 1).f
      BY <1>m, <1>1, <3>1 DEF Caller
    <3> QED BY <2>1, <3>1, <3>2, <3>3
  <2>3. Ends(p, ds)
    <3>1. n - 1 <= m - 1
      BY <1>1
    <3> QED BY <1>1, <2>1, <2>2, <3>1 DEF Ends
  <2>4. Last(o) = Last(cs).f
    <3>1. 0 \in 0..(n - 1) /\ n - 0 = n /\ m - 0 = m
      BY <1>1, <1>3
    <3>2. o[n - 0] = Caller(cs, 0).f
      BY <1>n, <3>1 DEF Ends
    <3> QED BY <1>n, <1>m, <3>1, <3>2 DEF Caller, Last
  <2> QED BY <1>3, <2>p, <2>3, <2>4
<1> QED BY <1>2, <1>3

-----------------------------------------------------------------------------
(* The open calls of a log are the innermost running ones.                 *)
Matches(recs, cs) == Ends(Replay(recs), cs)

LEMMA ReplayMore ==
  ASSUME NEW recs, IsSeq(recs), NEW r
  PROVE  Replay(Append(recs, r)) = Opened(Replay(recs), r)
<1>m. PICK more : more = Append(recs, r)
  OBVIOUS
<1>1. /\ Len(recs) \in Nat /\ Len(more) = Len(recs) + 1
      /\ Agree(recs, more, Len(recs)) /\ more[Len(more)] = r
  BY <1>m, AppendOne DEF Agree
<1> QED BY <1>m, <1>1, ReplayOne

LEMMA MatchesMore ==
  ASSUME NEW recs, IsSeq(recs), NEW cs, Matches(recs, cs), NEW r, r.kind \notin FunctionKinds
  PROVE  Matches(Append(recs, r), cs)
<1>1. Replay(Append(recs, r)) = Opened(Replay(recs), r)
  BY ReplayMore
<1>2. Opened(Replay(recs), r) = Replay(recs)
  BY OpenedIs
<1> QED BY <1>1, <1>2 DEF Matches

LEMMA MatchesCall ==
  ASSUME NEW recs, IsSeq(recs), NEW cs, Matches(recs, cs),
         NEW ds, Len(cs) \in Nat, Len(ds) = Len(cs) + 1,
         \A i \in 1..Len(cs) : ds[i] = cs[i],
         NEW r, r.kind = "Enter", r.f = ds[Len(ds)].f
  PROVE  Matches(Append(recs, r), ds)
<1>1. Replay(Append(recs, r)) = Append(Replay(recs), r.f)
  <2>1. Replay(Append(recs, r)) = Opened(Replay(recs), r)
    BY ReplayMore
  <2>2. Opened(Replay(recs), r) = Append(Replay(recs), r.f)
    BY OpenedIs
  <2> QED BY <2>1, <2>2
<1>2. Ends(Append(Replay(recs), r.f), ds)
  BY EndsCalled DEF Matches
<1> QED BY <1>1, <1>2 DEF Matches

LEMMA MatchesReturn ==
  ASSUME NEW recs, IsSeq(recs), NEW cs, Matches(recs, cs),
         NEW ds, Len(cs) \in Nat \ {0}, Len(ds) = Len(cs) - 1,
         \A i \in 1..Len(ds) : ds[i].f = cs[i].f,
         NEW r, r.kind \in {"Exit", "TailExit"}, r.f = Last(cs).f
  PROVE  Matches(Append(recs, r), ds)
<1>o. PICK o : o = Replay(recs)
  OBVIOUS
<1>1. Replay(Append(recs, r)) = IF o = <<>> THEN <<>>
                                ELSE IF Last(o) = r.f THEN Front(o) ELSE <<"?">>
  <2>1. Replay(Append(recs, r)) = Opened(o, r)
    BY <1>o, ReplayMore
  <2>2. Opened(o, r) = IF o = <<>> THEN <<>>
                       ELSE IF Last(o) = r.f THEN Front(o) ELSE <<"?">>
    BY OpenedIs
  <2> QED BY <2>1, <2>2
<1>2. /\ o = <<>> => Ends(o, ds)
      /\ o # <<>> => Ends(Front(o), ds) /\ Last(o) = Last(cs).f
  <2>1. Ends(o, cs)
    BY <1>o DEF Matches
  <2> QED BY <2>1, EndsReturned
<1> QED BY <1>1, <1>2 DEF Matches

(* The entry of the call that ends is taken back.                          *)
LEMMA MatchesErased ==
  ASSUME NEW recs, IsSeq(recs), Len(recs) # 0, NEW cs, Matches(recs, cs),
         NEW ds, Len(cs) \in Nat \ {0}, Len(ds) = Len(cs) - 1,
         \A i \in 1..Len(ds) : ds[i].f = cs[i].f,
         Last(recs).kind = "Enter"
  PROVE  Matches(Front(recs), ds)
<1>f. PICK front : front = Front(recs)
  OBVIOUS
<1>1. /\ IsSeq(front) /\ Len(front) \in Nat /\ Len(recs) = Len(front) + 1
      /\ Agree(front, recs, Len(front))
  <2>1. /\ IsSeq(front) /\ Len(recs) \in Nat /\ Len(front) = Len(recs) - 1
        /\ \A i \in 1..(Len(recs) - 1) : front[i] = recs[i]
    BY <1>f, FrontOne
  <2>2. Len(front) \in Nat /\ Len(recs) = Len(front) + 1
    BY <2>1, AppendOne
  <2>3. Agree(front, recs, Len(front))
    BY <2>1 DEF Agree
  <2> QED BY <2>1, <2>2, <2>3
<1>o. PICK o : o = Replay(front)
  OBVIOUS
<1>2. IsSeq(o) /\ Replay(recs) = Append(o, Last(recs).f)
  BY <1>1, <1>o, ReplaySeq, ReplayOne, OpenedIs DEF Last
<1>3. Ends(Append(o, Last(recs).f), cs)
  BY <1>2 DEF Matches
<1>4. Front(Append(o, Last(recs).f)) = o /\ Append(o, Last(recs).f) # <<>>
  BY <1>2, FrontAppend
<1>5. Ends(o, ds)
  BY <1>3, <1>4, EndsReturned
<1> QED BY <1>5, <1>f, <1>o DEF Matches

(* So are pairs of an entry and a tail exit.                               *)
LEMMA MatchesUnpaired ==
  ASSUME NEW v, NEW w, IsSeq(w.records), NEW n, Unpaired(v, w, n)
  PROVE  Replay(v.records) = Replay(w.records) /\ IsSeq(v.records)
<1>l. PICK l : l = Len(w.records)
  OBVIOUS
<1>1. /\ n \in Nat /\ l \in Nat /\ 2 * n \in 0..l
      /\ v.records = SubSeq(w.records, 1, l - 2 * n)
  BY <1>l, AppendOne DEF Unpaired
<1> DEFINE upto(k) == SubSeq(w.records, 1, k)
           S == {j \in 0..n : Replay(upto(l - 2 * j)) = Replay(w.records)}
<1>2. \A k \in 0..l : /\ IsSeq(upto(k)) /\ Len(upto(k)) = k
                      /\ \A i \in 1..k : upto(k)[i] = w.records[i]
  BY <1>l, Prefix
<1>3. 0 \in S
  <2>1. upto(l) = w.records
    <3>1. PICK T : w.records \in Seq(T)
      BY DEF IsSeq
    <3> QED BY <3>1, <1>l, SubSeqFull
  <2>2. l - 2 * 0 = l
    BY <1>1
  <2>3. 0 \in 0..n
    BY <1>1
  <2> QED BY <2>1, <2>2, <2>3
<1>4. ASSUME NEW j \in 0..(n - 1), j \in S
      PROVE  j + 1 \in S
  <2>k. PICK k : k = l - 2 * (j + 1)
    OBVIOUS
  <2>1. /\ k \in Nat /\ k + 1 \in 0..l /\ k + 2 \in 0..l /\ k \in 0..l
        /\ k + 2 = l - 2 * j /\ j + 1 \in 1..n /\ j + 1 \in 0..n
        /\ l - 2 * (j + 1) + 2 = k + 2 /\ l - 2 * (j + 1) + 1 = k + 1
    BY <1>1, <2>k
  <2>2. IsPair(w, j + 1)
    BY <2>1 DEF Unpaired
  <2>3. /\ w.records[k + 2].kind = "TailExit" /\ w.records[k + 1].kind = "Enter"
        /\ w.records[k + 1].f = w.records[k + 2].f
    BY <1>l, <2>1, <2>2 DEF IsPair, TailExitAt, EntryAt
  <2>o. PICK o : o = Replay(upto(k))
    OBVIOUS
  <2>x. PICK x : x = w.records[k + 1].f
    OBVIOUS
  <2>4. IsSeq(o) /\ Replay(upto(k + 1)) = Append(o, x)
    <3>1. /\ Len(upto(k)) = k /\ Len(upto(k + 1)) = k + 1
          /\ upto(k + 1)[k + 1] = w.records[k + 1]
          /\ Agree(upto(k), upto(k + 1), k)
      BY <1>2, <2>1 DEF Agree
    <3> HIDE DEF upto
    <3>2. Replay(upto(k + 1)) = Opened(o, w.records[k + 1])
      BY <2>1, <2>o, <3>1, ReplayOne
    <3> QED BY <2>1, <2>3, <2>o, <2>x, <3>1, <3>2, ReplaySeq, OpenedIs
  <2>5. Replay(upto(k + 2)) = o
    <3>1. /\ Len(upto(k + 1)) = k + 1 /\ Len(upto(k + 2)) = k + 1 + 1
          /\ upto(k + 2)[k + 2] = w.records[k + 2]
          /\ Agree(upto(k + 1), upto(k + 2), k + 1) /\ k + 1 \in Nat
          /\ Len(upto(k + 2)) = k + 2
      BY <1>2, <2>1 DEF Agree
    <3> HIDE DEF upto
    <3>2. Replay(upto(k + 2)) = Opened(Append(o, x), w.records[k + 2])
      BY <2>4, <3>1, ReplayOne
    <3>3. /\ Front(Append(o, x)) = o /\ Last(Append(o, x)) = x
          /\ Append(o, x) # <<>>
      BY <2>4, FrontAppend
    <3>r. PICK r : r = w.records[k + 2]
      OBVIOUS
    <3>4. r.kind \in {"Exit", "TailExit"} /\ r.f = x
      BY <2>3, <2>x, <3>r
    <3>a. PICK a : a = Append(o, x)
      OBVIOUS
    <3>6. Opened(a, r) = IF a = <<>> THEN <<>>
                         ELSE IF Last(a) = r.f THEN Front(a) ELSE <<"?">>
      BY <3>4, OpenedIs
    <3>5. Opened(Append(o, x), r) = o
      BY <3>3, <3>4, <3>6, <3>a
    <3> QED BY <3>2, <3>5, <3>r
  <2>6. Replay(upto(l - 2 * j)) = Replay(w.records)
    BY <1>4
  <2> QED BY <2>1, <2>5, <2>6, <2>k, <2>o
<1>5. n \in S
  <2>1. 0..n \subseteq S
    <3> HIDE DEF S
    <3> QED BY <1>1, <1>3, <1>4, UpTo
  <2> QED BY <1>1, <2>1
<1>6. l - 2 * n \in 0..l
  BY <1>1
<1> QED BY <1>1, <1>2, <1>5, <1>6

(* A log of metadata leaves no call open.                                  *)
LEMMA MatchesBegun ==
  ASSUME NEW recs, IsSeq(recs), NEW t, AllTagged(recs, t), NEW cs, Len(cs) \in Nat
  PROVE  Matches(recs, cs)
<1>1. Len(recs) \in Nat
  BY AppendOne
<1>2. \A i \in 1..Len(recs) : recs[i].kind \notin FunctionKinds
  BY DEF AllTagged, Tagged, FunctionKinds
<1> QED BY <1>1, <1>2, ReplayNothing, EndsNone DEF Matches

(* Wherever a hook's record is placed.                                     *)
LEMMA MatchesPlaced ==
  ASSUME NEW w, IsSeq(w.records), NEW cs, Len(cs) \in Nat, Matches(w.records, cs),
         NEW p, IsSeq(p.records), NEW d, NEW t, Placed(p, d, w, t)
  PROVE  Matches(p.records, cs)
<1>1. CASE Continues(p, d, w, t)
  BY <1>1 DEF Continues
<1>2. CASE Marks(p, d, w, t)
  <2>1. PICK r : Tagged(r, t) /\ p.records = Append(w.records, r)
    BY <1>2 DEF Marks, TagAdded
  <2>2. r.kind \notin FunctionKinds
    BY <2>1 DEF Tagged, FunctionKinds
  <2> QED BY <2>1, <2>2, MatchesMore
<1>3. CASE Begun(p, w, t)
  BY <1>3, MatchesBegun DEF Begun
<1> QED BY <1>1, <1>2, <1>3 DEF Placed

(* What LogMatchesCalls says.                                              *)
LEMMA MatchesSuffix ==
  ASSUME NEW recs, NEW cs, cs \in Seq(Running), Matches(recs, cs)
  PROVE  IsSuffix(Replay(recs), [i \in DOMAIN cs |-> cs[i].f])
<1>o. PICK o : o = Replay(recs)
  OBVIOUS
<1>b. PICK b : b = [i \in DOMAIN cs |-> cs[i].f]
  OBVIOUS
<1>m. PICK m \in Nat : m = Len(cs)
  BY LenProperties
<1>n. PICK n \in Nat : n = Len(o)
  BY <1>o, LenProperties DEF Matches, Ends, IsSeq
<1>1. /\ n <= m
      /\ \A i \in 0..(n - 1) : o[n - i] = cs[m - i].f
  BY <1>o, <1>m, <1>n DEF Matches, Ends, Caller
<1>2. b = [i \in 1..m |-> cs[i].f] /\ \A i \in 1..m : cs[i].f \in Functions
  <2>1. DOMAIN cs = 1..m /\ \A i \in 1..m : cs[i] \in Running
    BY <1>m, LenProperties, ElementOfSeq
  <2> QED BY <1>b, <2>1 DEF Running
<1>3. b \in Seq(Functions) /\ Len(b) = m
  <2>1. b \in [1..m -> Functions]
    BY <1>2
  <2>2. b \in Seq(Functions)
    BY <2>1, SeqDef
  <2> QED BY <2>1, <2>2, LenProperties
<1>x. PICK x : x = Reverse(o)
  OBVIOUS
<1>y. PICK y : y = Reverse(b)
  OBVIOUS
<1>4. x = [i \in 1..n |-> o[(n - i) + 1]] /\ y = [i \in 1..m |-> b[(m - i) + 1]]
  BY <1>n, <1>x, <1>y, <1>3 DEF Reverse
<1>5. \A i \in 1..n : x[i] = y[i] /\ y[i] \in Functions
  <2> SUFFICES ASSUME NEW i \in 1..n PROVE x[i] = y[i] /\ y[i] \in Functions
    OBVIOUS
  <2>1. /\ i - 1 \in 0..(n - 1) /\ (n - i) + 1 = n - (i - 1)
        /\ (m - i) + 1 = m - (i - 1) /\ i \in 1..m /\ (m - i) + 1 \in 1..m
    BY <1>1
  <2>2. x[i] = o[n - (i - 1)] /\ y[i] = cs[(m - i) + 1].f
    BY <1>2, <1>4, <2>1
  <2> QED BY <1>1, <1>2, <2>1, <2>2
<1>6. \A i \in 1..m : y[i] \in Functions
  <2> SUFFICES ASSUME NEW i \in 1..m PROVE y[i] \in Functions
    OBVIOUS
  <2>1. (m - i) + 1 \in 1..m
    OBVIOUS
  <2> QED BY <1>2, <1>4, <2>1
<1>7. x \in Seq(Functions) /\ Len(x) = n /\ y \in Seq(Functions) /\ Len(y) = m
  <2>1. x \in [1..n -> Functions] /\ y \in [1..m -> Functions]
    BY <1>4, <1>5, <1>6
  <2>2. x \in Seq(Functions) /\ y \in Seq(Functions)
    BY <2>1, SeqDef
  <2> QED BY <2>1, <2>2, LenProperties
<1>8. SubSeq(x, 1, n) = SubSeq(y, 1, n)
  <2>1. 1 \in Int /\ n \in Int /\ n - 1 + 1 = n
    OBVIOUS
  <2>2. \A i \in 1..n : x[i] \in Functions /\ y[i] \in Functions
    BY <1>5
  <2>3. /\ SubSeq(x, 1, n) \in Seq(Functions) /\ SubSeq(y, 1, n) \in Seq(Functions)
        /\ \A i \in 1..n : SubSeq(x, 1, n)[i] = x[1 + i - 1]
        /\ \A i \in 1..n : SubSeq(y, 1, n)[i] = y[1 + i - 1]
        /\ Len(SubSeq(x, 1, n)) = IF 1 <= n THEN n - 1 + 1 ELSE 0
        /\ Len(SubSeq(y, 1, n)) = IF 1 <= n THEN n - 1 + 1 ELSE 0
    BY <2>1, <2>2, SubSeqProperties
  <2>4. /\ Len(SubSeq(x, 1, n)) = n /\ Len(SubSeq(y, 1, n)) = n
        /\ \A i \in 1..n : SubSeq(x, 1, n)[i] = SubSeq(y, 1, n)[i]
    BY <1>5, <2>1, <2>3
  <2> QED BY <2>3, <2>4, SeqEqual
<1>9. IsPrefix(x, y)
  BY <1>1, <1>7, <1>8 DEF IsPrefix
<1> QED BY <1>9, <1>o, <1>b, <1>x, <1>y DEF IsSuffix

-----------------------------------------------------------------------------
(* What each hook does to the log, whatever metadata come with it.         *)

(* A record of a function, made at t on CPU c.                             *)
Logs(v, w, c, kind, f, t, own) ==
  \E s : /\ IsSeq(s.w.records) /\ Placed(s.w, s.delta, w, t)
         /\ Appends(v, s, c, kind, f, t, own)

(* The call that ends is taken back from p, where the hook would have put  *)
(* its record.                                                             *)
TakesBack(v, p, w, f, t) ==
  /\ IsSeq(p.records) /\ Len(p.records) # 0
  /\ p.records = w.records /\ p.lastTSC = t /\ p.lastEntry = w.lastEntry
  /\ p.enters = w.enters /\ w.enters # 0 /\ p.tails = w.tails
  /\ v.buffers = w.buffers
  /\ \/ v.aborted /\ v.records = p.records /\ v.lastTSC = t /\ v.lastEntry = w.lastEntry
     \/ EndsWithEntry(p, f) /\ EntryAndPairsGone(v, p)
     \/ EndsWithEntry(p, f) /\ EntryGone(v, p)

(* An event's record on p.                                                 *)
LogsEvent(v, p, w, c, t) ==
  /\ IsSeq(p.records) /\ (p = w \/ Begun(p, w, t))
  /\ v.records = Append(p.records, [kind |-> "CustomEvent"])
  /\ v.enters = p.enters /\ v.tails = p.tails
  /\ v.buffers = p.buffers /\ v.cpu \in {w.cpu, c}
  /\ v.lastTSC = w.lastTSC /\ v.lastEntry = w.lastEntry

LEMMA EntryLogs ==
  ASSUME RewindInv, NEW dt \in Steps \cup Pauses, NEW c \in CPUs, NEW f \in Functions,
         FunctionEntry(f, dt, c)
  PROVE  /\ Logs(tld', tld, c, "Enter", f, now', 0) /\ tld'.lastEntry = now'
         /\ calls' = Called(calls, f, now')
<1>s. PICK s : s = Stamped(c)
  OBVIOUS
<1>1. /\ tld' = Entry(s, "Enter", f, now') /\ calls' = Called(calls, f, now')
      /\ Arrive(dt, c, FALSE)
  BY <1>s DEF FunctionEntry, Entry, Call, Called
<1>2. c # NoCPU /\ tld.aborted = FALSE /\ Kept(tld)
  BY <1>1, Arrived DEF RewindInv
<1>3. Appends(tld', s, c, "Enter", f, now', 0) /\ tld'.lastEntry = now'
  <2>1. "Enter" \in {"Enter", "EnterArgs"}
    OBVIOUS
  <2> QED BY <1>1, <1>2, <1>s, <2>1, EntryWritten
<1>4. IsSeq(s.w.records) /\ Placed(s.w, s.delta, tld, now')
  BY <1>2, <1>s, HookStamped DEF Sound
<1> QED BY <1>1, <1>3, <1>4 DEF Logs

LEMMA ArgsLogs ==
  ASSUME RewindInv, NEW dt \in Steps \cup Pauses, NEW c \in CPUs, NEW f \in Functions,
         LogArgsEntry(f, dt, c)
  PROVE  /\ calls' = Called(calls, f, now')
         /\ \E y : /\ Logs(y, tld, c, "Enter", f, now', 0) /\ IsSeq(y.records)
                   /\ Alike(tld', y) /\ tld'.buffers = y.buffers
                   /\ y.lastEntry = now' /\ NoneCounted(y) /\ NoneCounted(tld')
                   /\ tld'.records = Append(y.records, [kind |-> "CallArgument"])
<1>s. PICK s : s = Stamped(c)
  OBVIOUS
<1>y. PICK y : y = Entry(s, "EnterArgs", f, now')
  OBVIOUS
<1>1. /\ tld' = Write(y, [kind |-> "CallArgument"], MetadataRecSize)
      /\ calls' = Called(calls, f, now') /\ Arrive(dt, c, TRUE)
  BY <1>s, <1>y DEF LogArgsEntry, Entry, Call, Called
<1>2. c # NoCPU /\ tld.aborted = FALSE /\ Kept(tld)
  BY <1>1, Arrived DEF RewindInv
<1>3. /\ Appends(y, s, c, "Enter", f, now', 0) /\ y.lastEntry = now'
      /\ Sound(y) /\ NoneCounted(y)
  <2>1. "EnterArgs" \in {"Enter", "EnterArgs"}
    OBVIOUS
  <2> QED BY <1>2, <1>s, <1>y, <2>1, EntryWritten
<1>4. IsSeq(s.w.records) /\ Placed(s.w, s.delta, tld, now')
  BY <1>2, <1>s, HookStamped DEF Sound
<1>5. Logs(y, tld, c, "Enter", f, now', 0)
  BY <1>3, <1>4 DEF Logs
<1>6. /\ Alike(tld', y) /\ tld'.enters = y.enters /\ tld'.tails = y.tails
      /\ tld'.buffers = y.buffers
      /\ tld'.records = Append(y.records, [kind |-> "CallArgument"])
  BY <1>1, <1>3, Sizes, Writing
<1>7. IsSeq(y.records) /\ NoneCounted(tld')
  BY <1>3, <1>6 DEF Sound, NoneCounted
<1> QED BY <1>1, <1>3, <1>5, <1>6, <1>7

LEMMA EventLogs ==
  ASSUME RewindInv, NEW dt \in Steps \cup Pauses, NEW c \in CPUs, NEW n \in EventSizes,
         CustomEvent(n, dt, c)
  PROVE  \E p : LogsEvent(tld', p, tld, c, now')
<1>p. PICK p : p = Prepared(c, MetadataRecSize + n)
  OBVIOUS
<1>x. PICK x : x = Write(p, [kind |-> "CustomEvent"], MetadataRecSize)
  OBVIOUS
<1>1. /\ tld' = [x EXCEPT !.extents = @ + n]
      /\ Arrive(dt, c, TRUE)
  BY <1>p, <1>x DEF CustomEvent
<1>2. c # NoCPU /\ Kept(tld)
  BY <1>1, Arrived DEF RewindInv
<1>4. n \in Nat /\ MetadataRecSize + n \in Nat /\ 6 + (MetadataRecSize + n) <= Capacity
  BY EventsAssumption, Sizes
<1>5. /\ Sound(p) /\ p.cpu \in {tld.cpu, c}
      /\ p.lastTSC = tld.lastTSC /\ p.lastEntry = tld.lastEntry
      /\ p = tld \/ Begun(p, tld, now')
  <2>1. p = prepareBuffer(Ready(tld, c, now'), c, now', MetadataRecSize + n)
    BY <1>p DEF Prepared
  <2> QED BY <1>2, <1>4, <2>1, Preparing
<1>6. /\ Sound(x) /\ Alike(x, p) /\ x.enters = p.enters /\ x.tails = p.tails
      /\ x.buffers = p.buffers
      /\ x.records = Append(p.records, [kind |-> "CustomEvent"])
  BY <1>5, <1>x, Sizes, Writing
<1>7. /\ tld'.records = x.records /\ tld'.buffers = x.buffers
      /\ tld'.enters = x.enters /\ tld'.tails = x.tails /\ tld'.cpu = x.cpu
      /\ tld'.lastTSC = x.lastTSC /\ tld'.lastEntry = x.lastEntry
  <2>1. Shaped(x)
    BY <1>6 DEF Sound
  <2> QED BY <1>1, <2>1 DEF Shaped
<1>8. IsSeq(p.records)
  BY <1>5 DEF Sound
<1> QED BY <1>5, <1>6, <1>7, <1>8 DEF LogsEvent, Alike

(* The longest own time, with those of the call k and of its pairs.        *)
ErasesTimes(longer, long, v, p, k) ==
  longer = Max({long, OwnTime(k)} \cup ErasedOwnTimes(p.records, Len(v.records)))

LEMMA EndLogs ==
  ASSUME RewindInv, NEW dt \in Steps \cup Pauses, NEW c \in CPUs,
         NEW kind \in {"Exit", "TailExit"}, FunctionEnd(kind, dt, c)
  PROVE  \/ /\ Logs(tld', tld, c, kind, Last(calls).f, now', OwnTime(Last(calls)))
            /\ tld'.enters = 0 /\ tld'.lastEntry = tld.lastEntry
            /\ calls' = Returned(calls, 0)
            /\ erasures' = erasures /\ selfTime' = selfTime
         \/ /\ \E p : /\ TakesBack(tld', p, tld, Last(calls).f, now')
                      /\ ErasesTimes(selfTime', selfTime, tld', p, Last(calls))
            /\ tld'.cpu = c
            /\ calls' = Returned(calls, now' - Last(calls).since)
            /\ erasures' = erasures + 1
            /\ now' - tld.lastEntry < Threshold
<1>s. PICK s : s = Stamped(c)
  OBVIOUS
<1>k. PICK k : k = Last(calls)
  OBVIOUS
<1>1. /\ Arrive(dt, c, FALSE)
      /\ \/ /\ tld' = writeFunctionRecord(s.w, kind, k.f, s.delta, now', OwnTime(k))
            /\ calls' = Returned(calls, 0)
            /\ erasures' = erasures /\ selfTime' = selfTime
         \/ /\ s.w.enters # 0 /\ now' - s.w.lastEntry < Threshold
            /\ tld' = rewindRecentCall(s.w, k.f, now')
            /\ calls' = Returned(calls, now' - k.since)
            /\ erasures' = erasures + 1
            /\ ErasesTimes(selfTime', selfTime, tld', s.w, k)
  BY <1>s, <1>k DEF FunctionEnd, Return, Returned, Lasted, ErasesTimes
<1>2. c # NoCPU /\ tld.aborted = FALSE /\ Kept(tld)
  BY <1>1, Arrived DEF RewindInv
<1>3. /\ Sound(s.w) /\ Started(s.w) /\ s.w.cpu = c
      /\ Placed(s.w, s.delta, tld, now')
      /\ s.w.aborted = tld.aborted
  BY <1>2, <1>s, HookStamped
<1>p. PICK p : p = s.w
  OBVIOUS
<1>4. /\ Sound(p) /\ Started(p) /\ p.cpu = c /\ IsSeq(p.records)
      /\ Placed(p, s.delta, tld, now')
      /\ ~p.aborted /\ p.lastTSC = now' /\ p.lastEntry = tld.lastEntry
  BY <1>2, <1>3, <1>p DEF Sound, Placed
<1>5. CASE /\ tld' = writeFunctionRecord(p, kind, k.f, s.delta, now', OwnTime(k))
           /\ calls' = Returned(calls, 0)
           /\ erasures' = erasures /\ selfTime' = selfTime
  <2>r. PICK r : r = [kind |-> IF kind = "EnterArgs" THEN "Enter" ELSE kind,
                      f |-> k.f, delta |-> s.delta, at |-> now', own |-> OwnTime(k)]
    OBVIOUS
  <2>v. PICK v : v = writeFunctionRecord(p, kind, k.f, s.delta, now', OwnTime(k))
    OBVIOUS
  <2>1. /\ Alike(v, p) /\ v.buffers = p.buffers
        /\ v.records = Append(p.records, r)
        /\ kind # "Enter" => v.enters = 0
        /\ kind \notin {"Enter", "TailExit"} => v.tails = 0
        /\ kind = "TailExit" => v.tails \in 0..(p.tails + 1)
        /\ kind = "TailExit" /\ p.enters = 0 => v.tails = 0
    BY <1>4, <2>r, <2>v, Recording
  <2>2. kind # "Enter" /\ kind # "EnterArgs"
    OBVIOUS
  <2>3. r = FunctionRecord(kind, k.f, s.delta, now', OwnTime(k))
    BY <2>r, <2>2 DEF FunctionRecord
  <2>7. /\ Span(v) <= Span(p) + 1
        /\ kind = "TailExit" /\ p.enters = 0 => Span(v) = 0
    <3>1. p.enters \in Nat /\ p.tails \in Nat
      BY <1>4, AppendOne DEF Sound
    <3>2. CASE p.enters = 0
      <4>1. v.tails = 0 /\ v.enters = 0
        BY <2>1, <2>2, <3>2
      <4> QED BY <3>1, <4>1 DEF Span
    <3>3. CASE p.enters # 0
      <4>1. v.tails \in 0..(p.tails + 1) /\ v.enters = 0
        BY <2>1, <2>2, <3>1
      <4> QED BY <3>1, <3>3, <4>1 DEF Span
    <3> QED BY <3>2, <3>3
  <2>4. Appends(v, s, c, kind, k.f, now', OwnTime(k))
    BY <1>4, <1>p, <2>1, <2>3, <2>7 DEF Appends, Alike
  <2>5. Logs(v, tld, c, kind, k.f, now', OwnTime(k))
    BY <1>4, <1>p, <2>4 DEF Logs
  <2>6. v.enters = 0 /\ v.lastEntry = tld.lastEntry
    BY <1>4, <2>1, <2>2 DEF Alike
  <2> QED BY <1>5, <1>k, <2>v, <2>5, <2>6
<1>6. CASE /\ p.enters # 0 /\ now' - p.lastEntry < Threshold
           /\ tld' = rewindRecentCall(p, k.f, now')
           /\ calls' = Returned(calls, now' - k.since)
           /\ erasures' = erasures + 1
           /\ ErasesTimes(selfTime', selfTime, tld', p, k)
  <2>v. PICK v : v = rewindRecentCall(p, k.f, now')
    OBVIOUS
  <2>1. /\ v.cpu = p.cpu /\ v.buffers = p.buffers
        /\ \/ /\ v.aborted /\ ~EndsWithEntry(p, k.f) /\ v.records = p.records
              /\ v.lastTSC = p.lastTSC /\ v.lastEntry = p.lastEntry
           \/ /\ EndsWithEntry(p, k.f) /\ EntryAndPairsGone(v, p)
              /\ p.tails = 0 => ~v.aborted
           \/ EndsWithEntry(p, k.f) /\ ~v.aborted /\ EntryGone(v, p)
    BY <1>4, <1>6, <2>v, Rewinding
  <2>2. Continues(p, s.delta, tld, now')
    BY <1>4, <1>6 DEF Placed, Marks, Begun, NoneCounted
  <2>3. Len(p.records) # 0
    BY <1>4, <1>6, AppendOne DEF Sound
  <2>4. TakesBack(v, p, tld, k.f, now')
    BY <1>4, <1>6, <2>1, <2>2, <2>3 DEF TakesBack, Continues
  <2> QED BY <1>4, <1>6, <1>k, <2>1, <2>4, <2>v
<1> QED BY <1>1, <1>5, <1>6, <1>p

-----------------------------------------------------------------------------
(* The log matches the running calls.                                      *)

MatchInv == ~tld.aborted => Matches(tld.records, calls)

LEMMA LogsMatch ==
  ASSUME NEW w, IsSeq(w.records), NEW cs, Len(cs) \in Nat, Matches(w.records, cs),
         NEW v, NEW c, NEW kind, NEW f, NEW t, NEW own,
         Logs(v, w, c, kind, f, t, own),
         NEW ds,
         \/ /\ kind = "Enter" /\ Len(ds) = Len(cs) + 1 /\ ds[Len(ds)].f = f
            /\ \A i \in 1..Len(cs) : ds[i] = cs[i]
         \/ /\ kind \in {"Exit", "TailExit"} /\ Len(cs) # 0 /\ Len(ds) = Len(cs) - 1
            /\ f = Last(cs).f
            /\ \A i \in 1..Len(ds) : ds[i].f = cs[i].f
  PROVE  Matches(v.records, ds)
<1>1. PICK s : /\ IsSeq(s.w.records) /\ Placed(s.w, s.delta, w, t)
               /\ Appends(v, s, c, kind, f, t, own)
  BY DEF Logs
<1>p. PICK p : p = s.w
  OBVIOUS
<1>2. IsSeq(p.records) /\ Matches(p.records, cs)
  BY <1>1, <1>p, MatchesPlaced
<1>r. PICK r : r = FunctionRecord(kind, f, s.delta, t, own)
  OBVIOUS
<1>3. v.records = Append(p.records, r)
  BY <1>1, <1>p, <1>r DEF Appends
<1>4. r.kind = kind /\ r.f = f
  BY <1>r DEF FunctionRecord
<1>5. CASE /\ kind = "Enter" /\ Len(ds) = Len(cs) + 1 /\ ds[Len(ds)].f = f
           /\ \A i \in 1..Len(cs) : ds[i] = cs[i]
  BY <1>2, <1>3, <1>4, <1>5, MatchesCall
<1>6. CASE /\ kind \in {"Exit", "TailExit"} /\ Len(cs) # 0 /\ Len(ds) = Len(cs) - 1
           /\ f = Last(cs).f
           /\ \A i \in 1..Len(ds) : ds[i].f = cs[i].f
  <2>1. Len(cs) \in Nat \ {0} /\ r.kind \in {"Exit", "TailExit"} /\ r.f = Last(cs).f
    BY <1>4, <1>6
  <2>2. Len(ds) = Len(cs) - 1
    BY <1>6
  <2>3. \A i \in 1..Len(ds) : ds[i].f = cs[i].f
    BY <1>6
  <2>4. Matches(Append(p.records, r), ds)
    BY <1>2, <2>1, <2>2, <2>3, MatchesReturn
  <2> QED BY <1>3, <2>4
<1> QED BY <1>5, <1>6

LEMMA TakenBackMatches ==
  ASSUME NEW w, NEW cs, Len(cs) \in Nat \ {0}, Matches(w.records, cs),
         NEW v, ~v.aborted, NEW p, NEW f, NEW t, TakesBack(v, p, w, f, t),
         NEW ds, Len(ds) = Len(cs) - 1, \A i \in 1..Len(ds) : ds[i].f = cs[i].f
  PROVE  Matches(v.records, ds)
<1>1. /\ IsSeq(p.records) /\ Len(p.records) # 0 /\ EndsWithEntry(p, f)
      /\ EntryAndPairsGone(v, p) \/ EntryGone(v, p)
      /\ Matches(p.records, cs)
  BY DEF TakesBack
<1>2. Matches(Front(p.records), ds)
  <2>1. Last(p.records).kind = "Enter"
    BY <1>1 DEF EndsWithEntry
  <2> QED BY <1>1, <2>1, MatchesErased
<1>3. CASE EntryGone(v, p)
  BY <1>2, <1>3 DEF EntryGone
<1>4. CASE EntryAndPairsGone(v, p)
  <2>1. PICK x, n : /\ IsSeq(x.records) /\ x.records = Front(p.records)
                    /\ Unpaired(v, x, n)
    BY <1>4 DEF EntryAndPairsGone
  <2>2. Replay(v.records) = Replay(x.records)
    BY <2>1, MatchesUnpaired
  <2> QED BY <1>2, <2>1, <2>2 DEF Matches
<1> QED BY <1>1, <1>3, <1>4

LEMMA EntryMatches ==
  ASSUME RewindInv, MatchInv, NEW dt \in Steps \cup Pauses, NEW c \in CPUs,
         NEW f \in Functions, FunctionEntry(f, dt, c) \/ LogArgsEntry(f, dt, c)
  PROVE  MatchInv'
<1>1. \E rare : Arrive(dt, c, rare)
  BY DEF FunctionEntry, LogArgsEntry
<1>2. /\ now' \in Nat /\ now <= now' /\ now \in Nat /\ tld.aborted = FALSE
  BY <1>1, Arrived
<1>3. Nested(calls, now) /\ IsSeq(tld.records) /\ Matches(tld.records, calls)
  BY <1>2 DEF RewindInv, Kept, Sound, MatchInv
<1>4. calls' = Called(calls, f, now')
  BY EntryLogs, ArgsLogs
<1>5. /\ Len(calls) \in Nat /\ Len(calls') = Len(calls) + 1
      /\ calls'[Len(calls')].f = f
      /\ \A i \in 1..Len(calls) : calls'[i] = calls[i]
  <2>1. /\ Len(calls) \in Nat /\ Len(calls') = Len(calls) + 1
        /\ calls'[Len(calls')] = [f |-> f, since |-> now', erased |-> 0]
        /\ \A i \in 1..Len(calls) : calls'[i] = calls[i]
    BY <1>2, <1>3, <1>4, Calling
  <2> QED BY <2>1
<1>6. CASE FunctionEntry(f, dt, c)
  <2>1. Logs(tld', tld, c, "Enter", f, now', 0)
    BY <1>6, EntryLogs
  <2>2. Matches(tld'.records, calls')
    BY <1>3, <1>5, <2>1, LogsMatch
  <2> QED BY <2>2 DEF MatchInv
<1>7. CASE LogArgsEntry(f, dt, c)
  <2>1. PICK y : /\ Logs(y, tld, c, "Enter", f, now', 0) /\ IsSeq(y.records)
                 /\ tld'.records = Append(y.records, [kind |-> "CallArgument"])
    BY <1>7, ArgsLogs
  <2>2. Matches(y.records, calls')
    BY <1>3, <1>5, <2>1, LogsMatch
  <2>r. PICK r : r = [kind |-> "CallArgument"]
    OBVIOUS
  <2>3. r.kind \notin FunctionKinds
    BY <2>r DEF FunctionKinds
  <2>4. Matches(tld'.records, calls')
    BY <2>1, <2>2, <2>3, <2>r, MatchesMore
  <2> QED BY <2>4 DEF MatchInv
<1> QED BY <1>6, <1>7

LEMMA EndMatches ==
  ASSUME RewindInv, MatchInv, NEW dt \in Steps \cup Pauses, NEW c \in CPUs,
         NEW kind \in {"Exit", "TailExit"}, FunctionEnd(kind, dt, c)
  PROVE  MatchInv'
<1>1. Arrive(dt, c, FALSE) /\ calls # <<>>
  BY DEF FunctionEnd
<1>2. /\ now' \in Nat /\ now <= now' /\ now \in Nat /\ tld.aborted = FALSE
  BY <1>1, Arrived
<1>3. Nested(calls, now) /\ IsSeq(tld.records) /\ Matches(tld.records, calls)
  BY <1>2 DEF RewindInv, Kept, Sound, MatchInv
<1>4. \E took : /\ took = 0 \/ took = now' - Last(calls).since
                /\ calls' = Returned(calls, took)
  BY EndLogs
<1>5. /\ Len(calls) \in Nat \ {0} /\ Len(calls') = Len(calls) - 1
      /\ \A i \in 1..Len(calls') : calls'[i].f = calls[i].f
  BY <1>1, <1>2, <1>3, <1>4, Returning
<1>6. CASE Logs(tld', tld, c, kind, Last(calls).f, now', OwnTime(Last(calls)))
  <2>1. Matches(tld'.records, calls')
    BY <1>3, <1>5, <1>6, LogsMatch
  <2> QED BY <2>1 DEF MatchInv
<1>7. CASE \E p : TakesBack(tld', p, tld, Last(calls).f, now')
  <2>1. SUFFICES ASSUME ~tld'.aborted PROVE Matches(tld'.records, calls')
    BY DEF MatchInv
  <2> QED BY <1>3, <1>5, <1>7, <2>1, TakenBackMatches
<1> QED BY <1>6, <1>7, EndLogs

LEMMA EventMatches ==
  ASSUME RewindInv, MatchInv, NEW dt \in Steps \cup Pauses, NEW c \in CPUs,
         NEW n \in EventSizes, CustomEvent(n, dt, c)
  PROVE  MatchInv'
<1>1. Arrive(dt, c, TRUE) /\ calls' = calls
  BY DEF CustomEvent
<1>2. tld.aborted = FALSE
  BY <1>1, Arrived
<1>3. /\ Len(calls) \in Nat /\ Matches(tld.records, calls)
  BY <1>2, LenProperties DEF RewindInv, Nested, MatchInv
<1>4. PICK p : /\ IsSeq(p.records) /\ (p = tld \/ Begun(p, tld, now'))
               /\ tld'.records = Append(p.records, [kind |-> "CustomEvent"])
  BY EventLogs DEF LogsEvent
<1>5. Matches(p.records, calls)
  BY <1>3, <1>4, MatchesBegun DEF Begun
<1>r. PICK r : r = [kind |-> "CustomEvent"]
  OBVIOUS
<1>6. r.kind \notin FunctionKinds
  BY <1>r DEF FunctionKinds
<1>7. Matches(tld'.records, calls)
  BY <1>4, <1>5, <1>6, <1>r, MatchesMore
<1> QED BY <1>1, <1>7 DEF MatchInv

LEMMA InitMatch == Init => MatchInv
<1> SUFFICES ASSUME Init PROVE MatchInv
  OBVIOUS
<1>1. tld.records = <<>> /\ calls = <<>> /\ Len(<<>>) = 0
  BY EmptySeq DEF Init
<1>2. Ends(<<>>, calls) /\ Replay(tld.records) = <<>>
  BY <1>1, ReplayNone, EndsNone
<1> QED BY <1>2 DEF MatchInv, Matches

LEMMA NextMatch == RewindInv /\ MatchInv /\ [Next]_vars => MatchInv'
<1> SUFFICES ASSUME RewindInv, MatchInv, [Next]_vars PROVE MatchInv'
  OBVIOUS
<1>1. CASE UNCHANGED vars
  BY <1>1 DEF vars, MatchInv
<1>2. CASE Next
  BY <1>2, EntryMatches, EndMatches, EventMatches DEF Next, FunctionExit, FunctionTailExit
<1> QED BY <1>1, <1>2

(* Replayed from its start, a buffer leaves open calls that are still      *)
(* running, whatever was erased, wherever the thread has been and however  *)
(* often it started a buffer: unless an assertion has failed.              *)
THEOREM LogAlwaysMatchesCalls == Spec => []LogMatchesCalls
<1>1. RewindInv /\ MatchInv => LogMatchesCalls
  BY MatchesSuffix DEF RewindInv, Nested, MatchInv, LogMatchesCalls
<1> QED BY <1>1, InitMatch, NextMatch, RewindInvariant, PTL DEF Spec

-----------------------------------------------------------------------------
(* The reader recovers the times of a first buffer.                        *)

Timed(recs) == \A i \in 1..Len(recs) : recs[i].kind \in FunctionKinds
                                         => BaseTSC(recs, i) = recs[i].at

(* Every record decodes to its time, and the log as a whole to t.          *)
Decoded(recs, t) == IsSeq(recs) /\ BaseTSC(recs, Len(recs)) = t /\ Timed(recs)

LEMMA DecodedIs ==
  ASSUME NEW t, NEW r
  PROVE  /\ r.kind \in {"NewCPUId", "TSCWrap"} => DecodedTSC(t, r) = r.tsc
         /\ r.kind \in FunctionKinds => DecodedTSC(t, r) = t + r.delta
         /\ r.kind \in {"CallArgument", "CustomEvent"} => DecodedTSC(t, r) = t
BY DEF DecodedTSC, FunctionKinds

LEMMA DecodedMore ==
  ASSUME NEW recs, NEW t, Decoded(recs, t), NEW r, NEW u, u = DecodedTSC(t, r),
         r.kind \in FunctionKinds => r.at = u
  PROVE  Decoded(Append(recs, r), u)
<1>n. PICK n \in Nat : n = Len(recs)
  BY AppendOne DEF Decoded
<1>m. PICK more : more = Append(recs, r)
  OBVIOUS
<1>1. /\ IsSeq(more) /\ Len(more) = n + 1 /\ more[n + 1] = r
      /\ \A i \in 1..n : more[i] = recs[i]
  BY <1>n, <1>m, AppendOne DEF Decoded
<1>2. ASSUME NEW i \in 0..n PROVE BaseTSC(more, i) = BaseTSC(recs, i)
  <2>1. i \in Nat /\ \A j \in 1..i : j \in 1..n
    OBVIOUS
  <2>2. Agree(recs, more, i)
    BY <1>1, <2>1 DEF Agree
  <2> QED BY <2>1, <2>2, BaseAlike
<1>3. BaseTSC(more, n + 1) = u
  <2>1. BaseTSC(more, n + 1) = DecodedTSC(BaseTSC(more, n), more[n + 1])
    BY BaseOne
  <2>2. n \in 0..n /\ BaseTSC(recs, n) = t
    BY <1>n DEF Decoded
  <2> QED BY <1>1, <1>2, <2>1, <2>2
<1>4. ASSUME NEW i \in 1..(n + 1), more[i].kind \in FunctionKinds
      PROVE  BaseTSC(more, i) = more[i].at
  <2>1. CASE i = n + 1
    BY <1>1, <1>3, <1>4, <2>1
  <2>2. CASE i # n + 1
    <3>1. i \in 1..n /\ i \in 0..n
      BY <2>2
    <3>2. BaseTSC(recs, i) = recs[i].at
      BY <1>n, <1>1, <1>4, <3>1 DEF Decoded, Timed
    <3> QED BY <1>1, <1>2, <3>1, <3>2
  <2> QED BY <2>1, <2>2
<1>5. Timed(more)
  BY <1>1, <1>4 DEF Timed
<1> QED BY <1>m, <1>1, <1>3, <1>5 DEF Decoded

LEMMA DecodedBegun ==
  ASSUME NEW recs, IsSeq(recs), NEW t, AllTagged(recs, t)
  PROVE  Decoded(recs, t)
<1>n. PICK n \in Nat : n = Len(recs)
  BY AppendOne
<1>1. n # 0 /\ \A i \in 1..n : Tagged(recs[i], t)
  BY <1>n DEF AllTagged
<1>m. PICK m \in Nat : n = m + 1
  <2>1. n - 1 \in Nat /\ n = (n - 1) + 1
    BY <1>1
  <2> QED BY <2>1
<1>2. BaseTSC(recs, n) = t
  <2>1. BaseTSC(recs, m + 1) = DecodedTSC(BaseTSC(recs, m), recs[m + 1])
    BY BaseOne
  <2>2. Tagged(recs[n], t)
    BY <1>1
  <2>x. PICK x : x = BaseTSC(recs, m)
    OBVIOUS
  <2>3. DecodedTSC(x, recs[n]) = t
    BY <2>2, DecodedIs DEF Tagged
  <2> QED BY <1>m, <2>1, <2>3, <2>x
<1>3. Timed(recs)
  BY <1>n, <1>1 DEF Timed, Tagged, FunctionKinds
<1> QED BY <1>n, <1>2, <1>3 DEF Decoded

(* While a thread has no buffer it has not done anything yet.              *)
FirstInv ==
  /\ tld.buffers = 0 => /\ tld.ptr = 0 /\ tld.records = <<>> /\ tld.lastTSC = 0
                        /\ calls = <<>> /\ hooks = 0 /\ now > MaxDelta
  /\ tld.buffers = 1 /\ erasures = 0 =>
       tld.lastTSC \in Int /\ Decoded(tld.records, tld.lastTSC)

First(w, t) == /\ w.buffers \in Nat
               /\ w.buffers = 0 => w.ptr = 0 /\ w.lastTSC = 0 /\ t > MaxDelta
               /\ w.buffers = 1 => w.lastTSC \in Int /\ Decoded(w.records, w.lastTSC)

LEMMA PlacedDecoded ==
  ASSUME NEW w, NEW t \in Int, First(w, t),
         NEW p, IsSeq(p.records), NEW d, Placed(p, d, w, t)
  PROVE  /\ p.buffers # 0
         /\ p.buffers = 1 => \E u \in Int : d \in Int /\ u + d = t /\ Decoded(p.records, u)
<1>1. CASE Begun(p, w, t)
  <2>1. p.buffers # 0 /\ (p.buffers = 1 => w.buffers = 0)
    BY <1>1 DEF Begun, First
  <2>2. SUFFICES ASSUME p.buffers = 1
                 PROVE \E u \in Int : d \in Int /\ u + d = t /\ Decoded(p.records, u)
    BY <2>1
  <2>3. d = 0
    <3>1. w.lastTSC = 0 /\ t > MaxDelta
      BY <2>1, <2>2 DEF First
    <3>2. d = 0 \/ (d = t - 0 /\ ~(t - 0 > MaxDelta))
      BY <3>1 DEF Placed
    <3>3. t - 0 = t
      OBVIOUS
    <3> QED BY <3>1, <3>2, <3>3
  <2>4. Decoded(p.records, t)
    BY <1>1, DecodedBegun DEF Begun
  <2>5. t \in Int /\ d \in Int /\ t + d = t
    BY <2>3
  <2> QED BY <2>4, <2>5
<1>2. CASE Continues(p, d, w, t)
  <2>1. /\ p.buffers # 0 /\ p.records = w.records /\ d = t - w.lastTSC
        /\ p.buffers = 1 => w.lastTSC \in Int /\ Decoded(w.records, w.lastTSC)
    BY <1>2 DEF Continues, First
  <2>2. w.lastTSC \in Int => d \in Int /\ w.lastTSC + d = t
    BY <2>1
  <2> QED BY <2>1, <2>2
<1>3. CASE Marks(p, d, w, t)
  <2>1. /\ p.buffers # 0 /\ d = 0
        /\ p.buffers = 1 => Decoded(w.records, w.lastTSC)
    BY <1>3 DEF Marks, First
  <2>2. PICK r : Tagged(r, t) /\ p.records = Append(w.records, r)
    BY <1>3 DEF Marks, TagAdded
  <2>x. PICK x : x = w.lastTSC
    OBVIOUS
  <2>3. DecodedTSC(x, r) = t /\ r.kind \notin FunctionKinds
    BY <2>2, DecodedIs DEF Tagged, FunctionKinds
  <2>4. p.buffers = 1 => Decoded(p.records, t)
    BY <2>1, <2>2, <2>3, <2>x, DecodedMore
  <2>5. t \in Int /\ d \in Int /\ t + d = t
    BY <2>1
  <2> QED BY <2>1, <2>4, <2>5
<1> QED BY <1>1, <1>2, <1>3 DEF Placed

LEMMA LogsDecoded ==
  ASSUME NEW w, NEW t \in Int, First(w, t), NEW v, NEW c,
         NEW kind \in {"Enter", "Exit", "TailExit"}, NEW f, NEW own,
         Logs(v, w, c, kind, f, t, own)
  PROVE  v.buffers # 0 /\ v.lastTSC = t /\ (v.buffers = 1 => Decoded(v.records, t))
<1>1. PICK s : /\ IsSeq(s.w.records) /\ Placed(s.w, s.delta, w, t)
               /\ Appends(v, s, c, kind, f, t, own)
  BY DEF Logs
<1>p. PICK p : p = s.w
  OBVIOUS
<1>d. PICK d : d = s.delta
  OBVIOUS
<1>2. /\ p.buffers # 0
      /\ p.buffers = 1 => \E u \in Int : d \in Int /\ u + d = t /\ Decoded(p.records, u)
  BY <1>1, <1>p, <1>d, PlacedDecoded
<1>r. PICK r : r = FunctionRecord(kind, f, d, t, own)
  OBVIOUS
<1>3. v.records = Append(p.records, r) /\ v.buffers = p.buffers /\ v.lastTSC = t
  BY <1>1, <1>p, <1>d, <1>r DEF Appends
<1>4. r.kind \in FunctionKinds /\ r.delta = d /\ r.at = t
  BY <1>r DEF FunctionRecord, FunctionKinds
<1>5. SUFFICES ASSUME v.buffers = 1 PROVE Decoded(v.records, t)
  BY <1>2, <1>3
<1>6. PICK u \in Int : d \in Int /\ u + d = t /\ Decoded(p.records, u)
  BY <1>2, <1>3, <1>5
<1>7. t = DecodedTSC(u, r)
  BY <1>4, <1>6, DecodedIs
<1> QED BY <1>3, <1>4, <1>6, <1>7, DecodedMore

LEMMA FirstHook ==
  ASSUME RewindInv, FirstInv, erasures = 0,
         NEW dt \in Steps \cup Pauses, NEW c \in CPUs, NEW rare, Arrive(dt, c, rare)
  PROVE  now' \in Int /\ First(tld, now')
<1>1. now' \in Nat /\ now <= now' /\ now \in Nat
  BY Arrived
<1>2. tld.buffers \in Nat
  BY DEF RewindInv, Kept, Sound
<1>3. tld.buffers = 0 => tld.ptr = 0 /\ tld.lastTSC = 0 /\ now > MaxDelta
  BY DEF FirstInv
<1>4. now > MaxDelta => now' > MaxDelta
  BY <1>1, StepsAssumption
<1> QED BY <1>1, <1>2, <1>3, <1>4 DEF FirstInv, First

(* A thread has a buffer after every hook.                                 *)
LEMMA PlacedBuffer ==
  ASSUME NEW w, w.buffers \in Nat, w.buffers = 0 => w.ptr = 0, NEW t,
         NEW p, NEW d, Placed(p, d, w, t)
  PROVE  p.buffers # 0
BY DEF Placed, Continues, Marks, Begun

LEMMA LogsFirst ==
  ASSUME RewindInv, FirstInv, NEW dt \in Steps \cup Pauses, NEW c \in CPUs, NEW rare,
         Arrive(dt, c, rare), erasures' = erasures,
         NEW kind \in {"Enter", "Exit", "TailExit"}, NEW f, NEW own,
         Logs(tld', tld, c, kind, f, now', own)
  PROVE  FirstInv'
<1>1. tld'.buffers # 0
  <2>1. PICK s : /\ Placed(s.w, s.delta, tld, now')
                 /\ Appends(tld', s, c, kind, f, now', own)
    BY DEF Logs
  <2>2. tld.buffers \in Nat /\ (tld.buffers = 0 => tld.ptr = 0)
    BY DEF RewindInv, Kept, Sound, FirstInv
  <2>p. PICK p : p = s.w
    OBVIOUS
  <2>3. p.buffers # 0
    BY <2>1, <2>2, <2>p, PlacedBuffer
  <2> QED BY <2>1, <2>3, <2>p DEF Appends
<1>2. CASE erasures = 0
  <2>1. now' \in Int /\ First(tld, now')
    BY <1>2, FirstHook
  <2>2. tld'.lastTSC = now' /\ (tld'.buffers = 1 => Decoded(tld'.records, now'))
    BY <2>1, LogsDecoded
  <2> QED BY <1>1, <2>1, <2>2 DEF FirstInv
<1>3. CASE erasures # 0
  BY <1>1, <1>3 DEF FirstInv
<1> QED BY <1>2, <1>3

LEMMA ArgsFirst ==
  ASSUME RewindInv, FirstInv, NEW dt \in Steps \cup Pauses, NEW c \in CPUs,
         NEW f \in Functions, LogArgsEntry(f, dt, c)
  PROVE  FirstInv'
<1>1. Arrive(dt, c, TRUE) /\ erasures' = erasures
  BY DEF LogArgsEntry
<1>2. PICK y : /\ Logs(y, tld, c, "Enter", f, now', 0)
               /\ Alike(tld', y) /\ tld'.buffers = y.buffers
               /\ tld'.records = Append(y.records, [kind |-> "CallArgument"])
  BY ArgsLogs
<1>3. y.buffers # 0
  <2>1. PICK s : /\ Placed(s.w, s.delta, tld, now')
                 /\ Appends(y, s, c, "Enter", f, now', 0)
    BY <1>2 DEF Logs
  <2>2. tld.buffers \in Nat /\ (tld.buffers = 0 => tld.ptr = 0)
    BY DEF RewindInv, Kept, Sound, FirstInv
  <2>p. PICK p : p = s.w
    OBVIOUS
  <2>3. p.buffers # 0
    BY <2>1, <2>2, <2>p, PlacedBuffer
  <2> QED BY <2>1, <2>3, <2>p DEF Appends
<1>4. CASE erasures = 0
  <2>1. now' \in Int /\ First(tld, now')
    BY <1>1, <1>4, FirstHook
  <2>2. y.lastTSC = now' /\ (y.buffers = 1 => Decoded(y.records, now'))
    BY <1>2, <2>1, LogsDecoded
  <2>t. PICK t : t = now'
    OBVIOUS
  <2>r. PICK r : r = [kind |-> "CallArgument"]
    OBVIOUS
  <2>3. t = DecodedTSC(t, r) /\ r.kind \notin FunctionKinds
    BY <2>r, DecodedIs DEF FunctionKinds
  <2>4. y.buffers = 1 => Decoded(Append(y.records, r), t)
    BY <2>2, <2>3, <2>t, DecodedMore
  <2>5. tld'.lastTSC = now' /\ tld'.buffers # 0
        /\ (tld'.buffers = 1 => Decoded(tld'.records, now'))
    BY <1>2, <1>3, <2>2, <2>4, <2>r, <2>t DEF Alike
  <2> QED BY <2>1, <2>5 DEF FirstInv
<1>5. CASE erasures # 0
  BY <1>1, <1>2, <1>3, <1>5 DEF FirstInv
<1> QED BY <1>4, <1>5

LEMMA EndFirst ==
  ASSUME RewindInv, FirstInv, NEW dt \in Steps \cup Pauses, NEW c \in CPUs,
         NEW kind \in {"Exit", "TailExit"}, FunctionEnd(kind, dt, c)
  PROVE  FirstInv'
<1>1. Arrive(dt, c, FALSE) /\ calls # <<>>
  BY DEF FunctionEnd
<1>2. CASE Logs(tld', tld, c, kind, Last(calls).f, now', OwnTime(Last(calls))) /\ erasures' = erasures
  BY <1>1, <1>2, LogsFirst
<1>3. CASE /\ \E p : TakesBack(tld', p, tld, Last(calls).f, now')
           /\ erasures' = erasures + 1
  <2>1. tld'.buffers = tld.buffers /\ tld.buffers # 0
    BY <1>1, <1>3 DEF TakesBack, FirstInv
  <2>2. erasures' # 0
    BY <1>3 DEF RewindInv
  <2> QED BY <2>1, <2>2 DEF FirstInv
<1> QED BY <1>2, <1>3, EndLogs

LEMMA EventFirst ==
  ASSUME RewindInv, FirstInv, NEW dt \in Steps \cup Pauses, NEW c \in CPUs,
         NEW n \in EventSizes, CustomEvent(n, dt, c)
  PROVE  FirstInv'
<1>1. hooks > 0 /\ erasures' = erasures
  BY DEF CustomEvent
<1>2. PICK p : LogsEvent(tld', p, tld, c, now')
  BY EventLogs
<1>3. tld.buffers \in Nat \ {0}
  BY <1>1 DEF RewindInv, Kept, Sound, FirstInv
<1>4. p = tld \/ (p.buffers > tld.buffers)
  BY <1>2 DEF LogsEvent, Begun
<1>5. tld'.buffers # 0 /\ (tld'.buffers = 1 => p = tld)
  BY <1>2, <1>3, <1>4 DEF LogsEvent
<1>6. ASSUME tld'.buffers = 1, erasures = 0
      PROVE  tld'.lastTSC \in Int /\ Decoded(tld'.records, tld'.lastTSC)
  <2>1. p = tld
    BY <1>5, <1>6
  <2>2. /\ tld.buffers = 1 /\ tld'.lastTSC = tld.lastTSC
        /\ tld'.records = Append(tld.records, [kind |-> "CustomEvent"])
    BY <1>2, <1>6, <2>1 DEF LogsEvent
  <2>3. tld.lastTSC \in Int /\ Decoded(tld.records, tld.lastTSC)
    BY <1>6, <2>2 DEF FirstInv
  <2>t. PICK t : t = tld.lastTSC
    OBVIOUS
  <2>r. PICK r : r = [kind |-> "CustomEvent"]
    OBVIOUS
  <2>4. t = DecodedTSC(t, r) /\ r.kind \notin FunctionKinds
    BY <2>r, DecodedIs DEF FunctionKinds
  <2>5. Decoded(Append(tld.records, r), t)
    BY <2>3, <2>4, <2>t, DecodedMore
  <2> QED BY <2>2, <2>3, <2>5, <2>r, <2>t
<1> QED BY <1>1, <1>5, <1>6 DEF FirstInv

LEMMA InitFirst == Init => FirstInv
BY StepsAssumption DEF Init, FirstInv

LEMMA NextFirst == RewindInv /\ FirstInv /\ [Next]_vars => FirstInv'
<1> SUFFICES ASSUME RewindInv, FirstInv, [Next]_vars PROVE FirstInv'
  OBVIOUS
<1>1. CASE UNCHANGED vars
  BY <1>1 DEF vars, FirstInv
<1>2. ASSUME NEW dt \in Steps \cup Pauses, NEW c \in CPUs, NEW f \in Functions,
             FunctionEntry(f, dt, c)
      PROVE  FirstInv'
  <2>1. /\ Arrive(dt, c, FALSE) /\ erasures' = erasures
    BY <1>2 DEF FunctionEntry
  <2>2. Logs(tld', tld, c, "Enter", f, now', 0)
    BY <1>2, EntryLogs
  <2> QED BY <2>1, <2>2, LogsFirst
<1>3. CASE Next
  BY <1>2, <1>3, ArgsFirst, EndFirst, EventFirst DEF Next, FunctionExit, FunctionTailExit
<1> QED BY <1>1, <1>3

(* In a thread's first buffer, and while nothing has been erased, the      *)
(* reader recovers the time of every function record, with CPU changes,    *)
(* deltas that do not fit, arguments and custom events in between.         *)
THEOREM FirstBufferDecodes == Spec => []FirstTimesDecode
<1>1. RewindInv /\ FirstInv => FirstTimesDecode
  <2> SUFFICES ASSUME RewindInv, FirstInv, tld.buffers <= 1, erasures = 0 PROVE TimesDecode
    BY DEF FirstTimesDecode
  <2>1. tld.buffers \in Nat
    BY DEF RewindInv, Kept, Sound
  <2>2. CASE tld.buffers = 0
    <3>1. Len(tld.records) = 0
      BY <2>2, EmptySeq DEF FirstInv
    <3> QED BY <3>1 DEF TimesDecode
  <2>3. CASE tld.buffers = 1
    BY <2>3 DEF FirstInv, Decoded, Timed, TimesDecode
  <2> QED BY <2>1, <2>2, <2>3
<1> QED BY <1>1, InitFirst, NextFirst, RewindInvariant, PTL DEF Spec

-----------------------------------------------------------------------------
(* The deltas of the records at the end never lead back past 0.            *)

(* The last R records are of functions.                                    *)
Runs(recs, R) == /\ R \in 0..Len(recs)
                 /\ \A i \in 0..(R - 1) : recs[Len(recs) - i].kind \in FunctionKinds

(* From t on, the deltas of every run at the end lead back to a time.      *)
Chain(recs, t) == \A R : Runs(recs, R) => \E g : Leads(g, recs, t, R)

LEMMA LeadsDown ==
  ASSUME NEW recs, NEW t, NEW R \in Nat, NEW g, Leads(g, recs, t, R)
  PROVE  \A i \in 0..R : g[i] \in 0..t
<1> DEFINE S == {i \in 0..R : g[i] \in 0..t}
<1>1. \A i \in 0..R : g[i] \in Nat
  BY DEF Leads
<1>2. t \in Nat /\ 0 \in S
  <2>1. 0 \in 0..R /\ g[0] = t
    BY DEF Leads
  <2> QED BY <1>1, <2>1
<1>3. ASSUME NEW i \in 0..(R - 1), i \in S PROVE i + 1 \in S
  <2>1. i + 1 \in 0..R /\ g[i] \in 0..t
    BY <1>3
  <2>2. PICK d \in Nat : g[i + 1] = g[i] - d
    BY DEF Leads
  <2>3. g[i + 1] \in Nat
    BY <1>1, <2>1
  <2>4. g[i + 1] \in 0..t
    BY <1>2, <2>1, <2>2, <2>3
  <2> QED BY <2>1, <2>4
<1>4. 0..R \subseteq S
  <2> HIDE DEF S
  <2> QED BY <1>2, <1>3, UpTo
<1> QED BY <1>4

(* Without the last k records.                                             *)
LEMMA LeadsShift ==
  ASSUME NEW recs, IsSeq(recs), NEW t, NEW R \in Nat, NEW k \in Nat, NEW n \in Nat,
         n = R + k, n <= Len(recs), NEW h, Leads(h, recs, t, n),
         NEW rest, rest = SubSeq(recs, 1, Len(recs) - k),
         NEW g, g = [i \in 0..R |-> h[i + k]]
  PROVE  Leads(g, rest, h[k], R)
<1>l. PICK l \in Nat : l = Len(recs)
  BY AppendOne
<1>1. l - k \in 0..l /\ n <= l /\ n = R + k
  BY <1>l
<1>2. Len(rest) = l - k /\ \A i \in 1..(l - k) : rest[i] = recs[i]
  BY <1>l, <1>1, Prefix
<1>3. /\ h \in [0..n -> Nat]
      /\ \A i \in 0..(n - 1) : recs[l - i].delta \in Nat /\ h[i + 1] = h[i] - recs[l - i].delta
  BY <1>l DEF Leads
<1>4. g \in [0..R -> Nat] /\ g[0] = h[k]
  <2>1. \A i \in 0..R : i + k \in 0..n
    BY <1>1
  <2>2. 0 \in 0..R /\ 0 + k = k
    OBVIOUS
  <2>3. \A i \in 0..R : h[i + k] \in Nat
    BY <1>3, <2>1
  <2> QED BY <2>2, <2>3
<1>5. ASSUME NEW i \in 0..(R - 1)
      PROVE  rest[Len(rest) - i].delta \in Nat /\ g[i + 1] = g[i] - rest[Len(rest) - i].delta
  <2>1. /\ i + k \in 0..(n - 1) /\ i \in 0..R /\ i + 1 \in 0..R
        /\ (i + 1) + k = (i + k) + 1 /\ l - (i + k) = (l - k) - i
        /\ (l - k) - i \in 1..(l - k)
    BY <1>1
  <2>2. recs[l - (i + k)].delta \in Nat /\ h[(i + k) + 1] = h[i + k] - recs[l - (i + k)].delta
    BY <1>3, <2>1
  <2>3. g[i] = h[i + k] /\ g[i + 1] = h[(i + k) + 1]
    BY <2>1
  <2>4. rest[Len(rest) - i] = recs[l - (i + k)]
    BY <1>2, <2>1
  <2> QED BY <2>2, <2>3, <2>4
<1> QED BY <1>4, <1>5 DEF Leads

(* Records of functions are taken off the end of a log.                    *)
LEMMA ChainDrop ==
  ASSUME NEW w, IsSeq(w.records), Chain(w.records, w.lastTSC),
         NEW k \in Nat, Runs(w.records, k),
         NEW rest, rest = SubSeq(w.records, 1, Len(w.records) - k)
  PROVE  Before(w, k) \in 0..w.lastTSC /\ Chain(rest, Before(w, k))
<1>r. PICK recs : recs = w.records
  OBVIOUS
<1>l. PICK l \in Nat : l = Len(recs)
  BY <1>r, AppendOne
<1>1. /\ k \in 0..l /\ l - k \in 0..l
      /\ \A i \in 0..(k - 1) : recs[l - i].kind \in FunctionKinds
  BY <1>l, <1>r DEF Runs
<1>2. Len(rest) = l - k /\ \A i \in 1..(l - k) : rest[i] = recs[i]
  BY <1>l, <1>r, <1>1, Prefix
<1>3. Before(w, k) \in 0..w.lastTSC
  <2>1. PICK g : Leads(g, recs, w.lastTSC, k)
    BY <1>r DEF Chain
  <2>2. k \in 0..k
    OBVIOUS
  <2>3. Before(w, k) = g[k]
    BY <1>r, <2>1, <2>2, BeforeIs
  <2>t. PICK t : t = w.lastTSC
    OBVIOUS
  <2>4. \A i \in 0..k : g[i] \in 0..t
    BY <2>1, <2>t, LeadsDown
  <2> QED BY <2>2, <2>3, <2>4, <2>t
<1>4. ASSUME NEW R, Runs(rest, R)
      PROVE  \E g : Leads(g, rest, Before(w, k), R)
  <2>1. R \in 0..(l - k) /\ \A i \in 0..(R - 1) : rest[(l - k) - i].kind \in FunctionKinds
    BY <1>2, <1>4 DEF Runs
  <2>n. PICK n \in Nat : n = R + k
    BY <2>1
  <2>2. R \in Nat /\ n \in 0..l /\ n <= l
    BY <1>1, <2>1, <2>n
  <2>3. ASSUME NEW i \in 0..(n - 1) PROVE recs[l - i].kind \in FunctionKinds
    <3>1. CASE i < k
      <4>1. i \in 0..(k - 1)
        BY <3>1
      <4> QED BY <1>1, <4>1
    <3>2. CASE ~(i < k)
      <4>1. /\ i - k \in 0..(R - 1) /\ (l - k) - (i - k) = l - i
            /\ l - i \in 1..(l - k)
        BY <1>1, <2>n, <2>1, <3>2
      <4>2. rest[(l - k) - (i - k)].kind \in FunctionKinds
        BY <2>1, <4>1
      <4> QED BY <1>2, <4>1, <4>2
    <3> QED BY <3>1, <3>2
  <2>4. Runs(recs, n)
    BY <1>l, <2>2, <2>3 DEF Runs
  <2>5. PICK h : Leads(h, recs, w.lastTSC, n)
    BY <1>r, <2>4 DEF Chain
  <2>6. h[k] = Before(w, k)
    <3>1. k \in 0..n
      BY <2>n, <2>2
    <3> QED BY <1>r, <2>5, <3>1, BeforeIs
  <2>g. PICK g : g = [i \in 0..R |-> h[i + k]]
    OBVIOUS
  <2>7. Leads(g, rest, h[k], R)
    <3>1. IsSeq(recs) /\ rest = SubSeq(recs, 1, Len(recs) - k) /\ n <= Len(recs)
      BY <1>r, <1>l, <2>2
    <3> QED BY <2>n, <2>2, <2>5, <2>g, <3>1, LeadsShift
  <2> QED BY <2>6, <2>7
<1> QED BY <1>3, <1>4 DEF Chain

LEMMA ChainPop ==
  ASSUME NEW recs, IsSeq(recs), Len(recs) # 0, NEW t, Chain(recs, t),
         Last(recs).kind \in FunctionKinds
  PROVE  /\ Last(recs).delta \in Nat /\ t \in Nat /\ t - Last(recs).delta \in 0..t
         /\ Chain(Front(recs), t - Last(recs).delta)
<1>l. PICK l \in Nat \ {0} : l = Len(recs)
  BY FrontOne
<1>0. PICK d : d = Last(recs).delta
  OBVIOUS
<1>1. Runs(recs, 1) /\ recs[l - 0] = Last(recs)
  <2>1. l - 0 = l /\ 1 \in 0..l /\ \A i \in 0..(1 - 1) : l - i = l
    OBVIOUS
  <2> QED BY <1>l, <2>1 DEF Runs, Last
<1>w. PICK w : w = [records |-> recs, lastTSC |-> t]
  OBVIOUS
<1>2. w.records = recs /\ w.lastTSC = t
  BY <1>w
<1>3. PICK g : Leads(g, recs, t, 1)
  BY <1>1 DEF Chain
<1>4. Before(w, 1) = g[1]
  <2>1. 1 \in Nat /\ 1 \in 0..1
    OBVIOUS
  <2> QED BY <1>2, <1>3, <2>1, BeforeIs
<1>5. d \in Nat /\ g[1] = t - d /\ g[0] = t /\ g[0] \in Nat
  <2>1. 0 \in 0..(1 - 1) /\ 0 + 1 = 1 /\ 0 \in 0..1
    OBVIOUS
  <2> QED BY <1>0, <1>l, <1>1, <1>3, <2>1 DEF Leads
<1>6. /\ Before(w, 1) \in 0..t
      /\ Chain(Front(recs), Before(w, 1))
  <2>1. Front(recs) = SubSeq(recs, 1, Len(recs) - 1)
    BY DEF Front
  <2>2. 1 \in Nat
    OBVIOUS
  <2> QED BY <1>1, <1>2, <2>1, <2>2, ChainDrop
<1> QED BY <1>0, <1>4, <1>5, <1>6

LEMMA ChainPush ==
  ASSUME NEW recs, IsSeq(recs), NEW u, Chain(recs, u), NEW r, r.delta \in Nat,
         NEW t \in Nat, u + r.delta = t, u \in Nat
  PROVE  Chain(Append(recs, r), t)
<1>l. PICK l \in Nat : l = Len(recs)
  BY AppendOne
<1>m. PICK more : more = Append(recs, r)
  OBVIOUS
<1>d. PICK d \in Nat : d = r.delta
  OBVIOUS
<1>1. /\ Len(more) = l + 1 /\ more[l + 1] = r
      /\ \A i \in 1..l : more[i] = recs[i]
  BY <1>l, <1>m, AppendOne
<1>2. ASSUME NEW R, Runs(more, R)
      PROVE  \E g : Leads(g, more, t, R)
  <2>1. R \in 0..(l + 1) /\ \A i \in 0..(R - 1) : more[(l + 1) - i].kind \in FunctionKinds
    BY <1>1, <1>2 DEF Runs
  <2>2. CASE R = 0
    <3>g. PICK g : g = [i \in 0..0 |-> t]
      OBVIOUS
    <3>1. g \in [0..0 -> Nat] /\ g[0] = t /\ 0..(0 - 1) = {}
      BY <3>g
    <3> QED BY <2>2, <3>1 DEF Leads
  <2>3. CASE R # 0
    <3>q. PICK Q \in Nat : R = Q + 1
      <4>1. R - 1 \in Nat /\ R = (R - 1) + 1
        BY <2>1, <2>3
      <4> QED BY <4>1
    <3>1. Q \in 0..l
      BY <2>1, <3>q
    <3>2. ASSUME NEW i \in 0..(Q - 1) PROVE recs[l - i].kind \in FunctionKinds
      <4>1. i + 1 \in 0..(R - 1) /\ (l + 1) - (i + 1) = l - i /\ l - i \in 1..l
        BY <3>1, <3>q
      <4>2. more[(l + 1) - (i + 1)].kind \in FunctionKinds
        BY <2>1, <4>1
      <4> QED BY <1>1, <4>1, <4>2
    <3>3. Runs(recs, Q)
      BY <1>l, <3>1, <3>2 DEF Runs
    <3>4. PICK h : Leads(h, recs, u, Q)
      BY <3>3 DEF Chain
    <3>g. PICK g : g = [i \in 0..R |-> IF i = 0 THEN t ELSE h[i - 1]]
      OBVIOUS
    <3>5. /\ h \in [0..Q -> Nat] /\ h[0] = u
          /\ \A i \in 0..(Q - 1) : recs[l - i].delta \in Nat /\ h[i + 1] = h[i] - recs[l - i].delta
      BY <1>l, <3>4 DEF Leads
    <3>6. g \in [0..R -> Nat] /\ g[0] = t
      <4>1. \A i \in 0..R : i # 0 => i - 1 \in 0..Q
        BY <3>q
      <4>2. \A i \in 0..R : g[i] \in Nat
        BY <3>5, <3>g, <4>1
      <4>3. 0 \in 0..R
        BY <3>q
      <4> QED BY <3>g, <4>2, <4>3
    <3>7. ASSUME NEW i \in 0..(R - 1)
          PROVE  /\ more[Len(more) - i].delta \in Nat
                 /\ g[i + 1] = g[i] - more[Len(more) - i].delta
      <4>0. i \in 0..R /\ i + 1 \in 0..R /\ i + 1 # 0 /\ (i + 1) - 1 = i
        BY <3>q
      <4>1. g[i + 1] = h[i]
        BY <3>g, <4>0
      <4>2. CASE i = 0
        <5>1. (l + 1) - i = l + 1
          BY <4>2
        <5>2. more[Len(more) - i].delta = d
          BY <1>1, <1>d, <5>1
        <5>3. h[i] = u /\ g[i] = t
          BY <3>5, <3>6, <4>2
        <5>4. u = t - d
          BY <1>d
        <5> QED BY <4>1, <5>2, <5>3, <5>4
      <4>3. CASE i # 0
        <5>1. /\ i - 1 \in 0..(Q - 1) /\ (l + 1) - i = l - (i - 1) /\ (i - 1) + 1 = i
              /\ l - (i - 1) \in 1..l
          BY <3>1, <3>q, <4>3
        <5>2. more[Len(more) - i] = recs[l - (i - 1)]
          BY <1>1, <5>1
        <5>3. recs[l - (i - 1)].delta \in Nat /\ h[i] = h[i - 1] - recs[l - (i - 1)].delta
          BY <3>5, <5>1
        <5>4. g[i] = h[i - 1]
          BY <3>g, <4>0, <4>3
        <5> QED BY <4>1, <5>2, <5>3, <5>4
      <4> QED BY <4>2, <4>3
    <3> QED BY <3>6, <3>7 DEF Leads
  <2> QED BY <2>2, <2>3
<1> QED BY <1>2, <1>m DEF Chain

(* Behind a record that is not of a function nothing leads back.           *)
LEMMA ChainStart ==
  ASSUME NEW recs, IsSeq(recs), Len(recs) # 0 => recs[Len(recs)].kind \notin FunctionKinds,
         NEW t \in Nat
  PROVE  Chain(recs, t)
<1>l. PICK l \in Nat : l = Len(recs)
  BY AppendOne
<1>1. ASSUME NEW R, Runs(recs, R) PROVE R = 0
  <2>1. SUFFICES ASSUME R # 0 PROVE FALSE
    OBVIOUS
  <2>2. R \in 0..l /\ \A i \in 0..(R - 1) : recs[l - i].kind \in FunctionKinds
    BY <1>1, <1>l DEF Runs
  <2>3. 0 \in 0..(R - 1) /\ l - 0 = l /\ l # 0
    BY <2>1, <2>2
  <2> QED BY <1>l, <2>2, <2>3
<1>g. PICK g : g = [i \in 0..0 |-> t]
  OBVIOUS
<1>2. Leads(g, recs, t, 0)
  <2>1. g \in [0..0 -> Nat] /\ g[0] = t /\ 0..(0 - 1) = {}
    BY <1>g
  <2> QED BY <2>1 DEF Leads
<1> QED BY <1>1, <1>2 DEF Chain

LEMMA ChainRaise ==
  ASSUME NEW recs, NEW t \in Nat, Chain(recs, t), NEW u \in Nat, t <= u
  PROVE  Chain(recs, u)
<1>1. ASSUME NEW R, Runs(recs, R) PROVE \E g : Leads(g, recs, u, R)
  <2>1. PICK h : Leads(h, recs, t, R)
    BY <1>1 DEF Chain
  <2>d. PICK d \in Nat : d = u - t
    <3>1. u - t \in Nat
      OBVIOUS
    <3> QED BY <3>1
  <2>g. PICK g : g = [i \in 0..R |-> h[i] + d]
    OBVIOUS
  <2>2. /\ h \in [0..R -> Nat] /\ h[0] = t
        /\ \A i \in 0..(R - 1) : /\ recs[Len(recs) - i].delta \in Nat
                                 /\ h[i + 1] = h[i] - recs[Len(recs) - i].delta
    BY <2>1 DEF Leads
  <2>3. R \in Int /\ R >= 0
    BY <1>1 DEF Runs
  <2>4. g \in [0..R -> Nat] /\ g[0] = u
    <3>1. \A i \in 0..R : h[i] \in Nat
      BY <2>2
    <3>2. \A i \in 0..R : h[i] + d \in Nat
      BY <3>1
    <3>3. 0 \in 0..R /\ t + d = u
      BY <2>3, <2>d
    <3> QED BY <2>2, <2>g, <3>2, <3>3
  <2>5. ASSUME NEW i \in 0..(R - 1)
        PROVE  g[i + 1] = g[i] - recs[Len(recs) - i].delta
    <3>1. i \in 0..R /\ i + 1 \in 0..R
      BY <2>3
    <3>x. PICK x \in Nat : x = recs[Len(recs) - i].delta
      BY <2>2
    <3>2. h[i + 1] = h[i] - x /\ h[i] \in Nat
      BY <2>2, <3>1, <3>x
    <3>3. g[i + 1] = h[i + 1] + d /\ g[i] = h[i] + d
      BY <2>g, <3>1
    <3> QED BY <3>2, <3>3, <3>x
  <2> QED BY <2>2, <2>4, <2>5 DEF Leads
<1> QED BY <1>1 DEF Chain

LEMMA ChainMore ==
  ASSUME NEW recs, IsSeq(recs), NEW r, r.kind \notin FunctionKinds, NEW t \in Nat
  PROVE  Chain(Append(recs, r), t)
<1>m. PICK more : more = Append(recs, r)
  OBVIOUS
<1>1. IsSeq(more) /\ more[Len(more)].kind \notin FunctionKinds
  BY <1>m, AppendOne
<1> QED BY <1>m, <1>1, ChainStart

Chained(w) == /\ Chain(w.records, w.lastTSC)
              /\ w.enters # 0 => Chain(w.records, w.lastEntry)

Past(w, t) == w.lastTSC \in 0..t /\ w.lastEntry \in 0..t

(* LastTSC and LastFunctionEntryTSC are moved back by deltas that add up   *)
(* to no more than the time that has gone by.                              *)
TypeInv ==
  /\ hooks \in 0..MaxHooks /\ odd \in 0..MaxOdd
  /\ tld.cpu \in CPUs \cup {NoCPU}
  /\ Past(tld, now)
  /\ ~tld.aborted => Chained(tld)
  /\ \A i \in 1..Len(calls) : calls[i].since <= now

LEMMA PlacedChained ==
  ASSUME NEW w, IsSeq(w.records), Chain(w.records, w.lastTSC),
         NEW t \in Nat, w.lastTSC \in 0..t,
         NEW p, IsSeq(p.records), NEW d, Placed(p, d, w, t)
  PROVE  d \in Nat /\ \E u \in Nat : u + d = t /\ Chain(p.records, u)
<1>1. d \in 0..t
  <2>1. d = 0 \/ d = t - w.lastTSC
    BY DEF Placed
  <2> QED BY <2>1
<1>u. PICK u \in Nat : u + d = t
  <2>1. t - d \in Nat /\ (t - d) + d = t
    BY <1>1
  <2> QED BY <2>1
<1>2. CASE Continues(p, d, w, t)
  <2>1. p.records = w.records /\ d = t - w.lastTSC
    BY <1>2 DEF Continues
  <2>2. u = w.lastTSC
    BY <1>1, <1>u, <2>1
  <2> QED BY <1>1, <1>u, <2>1, <2>2
<1>3. CASE Marks(p, d, w, t) \/ Begun(p, w, t)
  <2>1. Len(p.records) # 0 => p.records[Len(p.records)].kind \notin FunctionKinds
    <3>1. CASE Begun(p, w, t)
      <4>1. Len(p.records) \in Nat
        BY AppendOne
      <4>2. Len(p.records) # 0 => Len(p.records) \in 1..Len(p.records)
        BY <4>1
      <4> QED BY <3>1, <4>2 DEF Begun, AllTagged, Tagged, FunctionKinds
    <3>2. CASE Marks(p, d, w, t)
      <4>1. PICK r : Tagged(r, t) /\ p.records = Append(w.records, r)
        BY <3>2 DEF Marks, TagAdded
      <4>2. r.kind \notin FunctionKinds
        BY <4>1 DEF Tagged, FunctionKinds
      <4>3. p.records[Len(p.records)] = r
        BY <4>1, AppendOne
      <4> QED BY <4>2, <4>3
    <3> QED BY <1>3, <3>1, <3>2
  <2>2. Chain(p.records, u)
    BY <2>1, ChainStart
  <2> QED BY <1>1, <1>u, <2>2
<1> QED BY <1>2, <1>3 DEF Placed

LEMMA LogsChained ==
  ASSUME NEW w, IsSeq(w.records), Chain(w.records, w.lastTSC),
         NEW t \in Nat, w.lastTSC \in 0..t,
         NEW v, NEW c, NEW kind, NEW f, NEW own,
         Logs(v, w, c, kind, f, t, own)
  PROVE  v.cpu = c /\ v.lastTSC = t /\ Chain(v.records, t)
<1>1. PICK s : /\ IsSeq(s.w.records) /\ Placed(s.w, s.delta, w, t)
               /\ Appends(v, s, c, kind, f, t, own)
  BY DEF Logs
<1>p. PICK p : p = s.w
  OBVIOUS
<1>d. PICK d : d = s.delta
  OBVIOUS
<1>2. d \in Nat /\ \E u \in Nat : u + d = t /\ Chain(p.records, u)
  BY <1>1, <1>p, <1>d, PlacedChained
<1>r. PICK r : r = FunctionRecord(kind, f, d, t, own)
  OBVIOUS
<1>3. v.records = Append(p.records, r) /\ v.cpu = c /\ v.lastTSC = t
  BY <1>1, <1>p, <1>d, <1>r DEF Appends
<1>4. r.delta = d
  BY <1>r DEF FunctionRecord
<1>5. PICK u \in Nat : u + d = t /\ Chain(p.records, u)
  BY <1>2
<1>6. Chain(Append(p.records, r), t)
  <2>1. IsSeq(p.records) /\ r.delta \in Nat /\ u + r.delta = t
    BY <1>1, <1>2, <1>4, <1>5, <1>p
  <2> QED BY <1>5, <2>1, ChainPush
<1> QED BY <1>3, <1>6

(* A record of n pairs belongs to one of them.                             *)
LEMMA InPair ==
  ASSUME NEW n \in Nat, NEW i \in 0..(2 * n - 1)
  PROVE  \E j \in 1..n : i = 2 * j - 2 \/ i = 2 * j - 1
<1>1. i \in Nat /\ i < 2 * n
  OBVIOUS
<1>2. \E h \in Nat : i = 2 * h \/ i = 2 * h + 1
  <2>1. i \div 2 \in Nat /\ (i = 2 * (i \div 2) \/ i = 2 * (i \div 2) + 1)
    BY <1>1
  <2> QED BY <2>1
<1>3. PICK h \in Nat : i = 2 * h \/ i = 2 * h + 1
  BY <1>2
<1>4. h + 1 \in 1..n /\ (i = 2 * (h + 1) - 2 \/ i = 2 * (h + 1) - 1)
  BY <1>1, <1>3
<1> QED BY <1>4

LEMMA PairsRun ==
  ASSUME NEW x, IsSeq(x.records), NEW v, NEW n, Unpaired(v, x, n)
  PROVE  Runs(x.records, 2 * n)
<1>l. PICK l \in Nat : l = Len(x.records)
  BY AppendOne
<1>1. n \in Nat /\ 2 * n \in 0..l /\ \A i \in 1..n : IsPair(x, i)
  BY <1>l DEF Unpaired
<1>2. ASSUME NEW i \in 0..(2 * n - 1) PROVE x.records[l - i].kind \in FunctionKinds
  <2>1. PICK j \in 1..n : i = 2 * j - 2 \/ i = 2 * j - 1
    BY <1>1, InPair
  <2>2. j \in Nat /\ (l - i = l - 2 * j + 2 \/ l - i = l - 2 * j + 1)
    BY <2>1, <1>1
  <2>3. /\ x.records[l - 2 * j + 2].kind = "TailExit"
        /\ x.records[l - 2 * j + 1].kind = "Enter"
    BY <1>l, <1>1, <2>1 DEF IsPair, TailExitAt, EntryAt
  <2> QED BY <2>2, <2>3 DEF FunctionKinds
<1> QED BY <1>l, <1>1, <1>2 DEF Runs

LEMMA PairsChained ==
  ASSUME NEW x, IsSeq(x.records), Chain(x.records, x.lastTSC),
         NEW v, NEW n, Unpaired(v, x, n)
  PROVE  v.lastTSC \in 0..x.lastTSC /\ Chain(v.records, v.lastTSC)
<1>l. PICK l \in Nat : l = Len(x.records)
  BY AppendOne
<1>k. PICK k \in Nat : k = 2 * n
  BY DEF Unpaired
<1>1. /\ n \in Nat /\ k \in 0..l /\ k = 2 * n
      /\ v.records = SubSeq(x.records, 1, l - k)
      /\ v.lastTSC = Before(x, k)
  BY <1>k, <1>l DEF Unpaired
<1>3. Runs(x.records, k)
  BY <1>1, PairsRun
<1>4. Before(x, k) \in 0..x.lastTSC /\ Chain(v.records, Before(x, k))
  <2>1. v.records = SubSeq(x.records, 1, Len(x.records) - k)
    BY <1>1, <1>l
  <2> QED BY <1>3, <2>1, ChainDrop
<1> QED BY <1>1, <1>4

LEMMA TakenBackChained ==
  ASSUME NEW w, NEW t \in Nat, NEW u \in Nat, u <= t, Past(w, u), Chained(w),
         NEW v, NEW p, NEW f, TakesBack(v, p, w, f, t)
  PROVE  Past(v, t) /\ (~v.aborted => Chained(v))
<1>1. /\ IsSeq(p.records) /\ Len(p.records) # 0 /\ p.records = w.records
      /\ p.lastTSC = t /\ p.lastEntry = w.lastEntry /\ p.enters = w.enters /\ w.enters # 0
  BY DEF TakesBack
<1>t. w.lastTSC \in Nat /\ w.lastTSC <= t /\ w.lastEntry \in 0..t
  BY DEF Past
<1>2. Chain(p.records, t) /\ Chain(p.records, p.lastEntry)
  <2>x. PICK x \in Nat : x = w.lastTSC
    BY <1>t
  <2>1. Chain(p.records, x) /\ x <= t
    BY <1>1, <1>t, <2>x DEF Chained
  <2>2. Chain(p.records, t)
    BY <2>1, ChainRaise
  <2> QED BY <1>1, <2>2 DEF Chained
<1>3. CASE v.aborted /\ v.lastTSC = t /\ v.lastEntry = w.lastEntry
  <2>1. t \in 0..t
    OBVIOUS
  <2> QED BY <1>3, <1>t, <2>1 DEF Past
<1>d. PICK d : d = Last(p.records).delta
  OBVIOUS
<1>r. PICK r : r = Front(p.records)
  OBVIOUS
<1>4. ASSUME EndsWithEntry(p, f)
      PROVE  /\ t - d \in 0..t /\ Chain(r, t - d)
             /\ p.lastEntry - d \in 0..p.lastEntry /\ Chain(r, p.lastEntry - d)
  <2>1. Last(p.records).kind \in FunctionKinds
    BY <1>4 DEF EndsWithEntry, FunctionKinds
  <2> QED BY <1>1, <1>2, <1>d, <1>r, <2>1, ChainPop
<1>5. CASE EndsWithEntry(p, f) /\ EntryGone(v, p)
  <2>1. /\ v.records = r /\ v.lastTSC = t - d /\ v.lastEntry = p.lastEntry - d
    BY <1>1, <1>5, <1>d, <1>r DEF EntryGone
  <2>2. p.lastEntry \in 0..t
    BY <1>1, <1>t
  <2>3. v.lastEntry \in 0..t
    <3>1. p.lastEntry - d \in 0..p.lastEntry
      BY <1>4, <1>5
    <3> QED BY <2>1, <2>2, <3>1
  <2> QED BY <1>4, <1>5, <2>1, <2>3 DEF Past, Chained
<1>6. CASE EndsWithEntry(p, f) /\ EntryAndPairsGone(v, p)
  <2>1. PICK x, n : /\ IsSeq(x.records) /\ x.records = r
                    /\ x.lastTSC = t - d
                    /\ Unpaired(v, x, n)
    BY <1>1, <1>6, <1>d, <1>r DEF EntryAndPairsGone
  <2>2. v.enters = 0 /\ v.lastEntry = 0
    BY <1>6 DEF EntryAndPairsGone, NoneCounted
  <2>3. Chain(x.records, x.lastTSC) /\ x.lastTSC \in 0..t
    BY <1>4, <1>6, <2>1
  <2>4. v.lastTSC \in 0..x.lastTSC /\ Chain(v.records, v.lastTSC)
    BY <2>1, <2>3, PairsChained
  <2>5. v.lastTSC \in 0..t /\ 0 \in 0..t
    BY <2>3, <2>4
  <2> QED BY <2>2, <2>4, <2>5 DEF Past, Chained
<1> QED BY <1>3, <1>5, <1>6 DEF TakesBack

(* The counters of the bounds, and the running calls.                      *)
LEMMA HookTypes ==
  ASSUME RewindInv, TypeInv, NEW dt \in Steps \cup Pauses, NEW c \in CPUs, NEW rare,
         Arrive(dt, c, rare)
  PROVE  /\ hooks' \in 0..MaxHooks /\ odd' \in 0..MaxOdd
         /\ now' \in Nat /\ now \in Nat /\ now <= now' /\ tld.aborted = FALSE
         /\ Chained(tld) /\ Past(tld, now') /\ IsSeq(tld.records)
<1>1. now' \in Nat /\ now <= now' /\ now \in Nat /\ tld.aborted = FALSE
  BY Arrived
<1>2. hooks' \in 0..MaxHooks /\ odd' \in 0..MaxOdd
  BY BoundsAssumption DEF Arrive, TypeInv
<1>3. Past(tld, now')
  BY <1>1 DEF TypeInv, Past
<1> QED BY <1>1, <1>2, <1>3 DEF TypeInv, RewindInv, Kept, Sound

LEMMA SinceCalled ==
  ASSUME RewindInv, TypeInv, now' \in Nat, now <= now', NEW f \in Functions,
         calls' = Called(calls, f, now')
  PROVE  \A i \in 1..Len(calls') : calls'[i].since <= now'
<1>1. now \in Nat /\ Nested(calls, now)
  BY DEF RewindInv
<1>2. /\ Len(calls) \in Nat /\ Len(calls') = Len(calls) + 1
      /\ calls'[Len(calls')] = [f |-> f, since |-> now', erased |-> 0]
      /\ \A i \in 1..Len(calls) : calls'[i] = calls[i] /\ calls[i] \in Running
  BY <1>1, Calling
<1>3. \A i \in 1..Len(calls) : calls[i].since \in Nat /\ calls[i].since <= now
  BY <1>2 DEF Running, TypeInv
<1>4. ASSUME NEW i \in 1..Len(calls') PROVE calls'[i].since <= now'
  <2>1. CASE i = Len(calls')
    BY <1>2, <2>1
  <2>2. CASE i # Len(calls')
    <3>1. i \in 1..Len(calls)
      BY <1>2, <2>2
    <3>2. calls'[i].since \in Nat /\ calls'[i].since <= now
      BY <1>2, <1>3, <3>1
    <3> QED BY <1>1, <3>2
  <2> QED BY <2>1, <2>2
<1> QED BY <1>4

LEMMA SinceReturned ==
  ASSUME RewindInv, TypeInv, now' \in Nat, now <= now', calls # <<>>,
         NEW took, took = 0 \/ took = now' - Last(calls).since,
         calls' = Returned(calls, took)
  PROVE  \A i \in 1..Len(calls') : calls'[i].since <= now'
<1>1. now \in Nat /\ Nested(calls, now)
  BY DEF RewindInv
<1>2. /\ Len(calls) \in Nat \ {0} /\ Len(calls') = Len(calls) - 1
      /\ \A i \in 1..Len(calls) : calls[i] \in Running
      /\ \A i \in 1..Len(calls') : calls'[i].since = calls[i].since
  BY <1>1, Returning
<1>3. ASSUME NEW i \in 1..Len(calls') PROVE calls'[i].since <= now'
  <2>1. i \in 1..Len(calls)
    BY <1>2
  <2>2. calls[i].since \in Nat /\ calls[i].since <= now
    BY <1>2, <2>1 DEF Running, TypeInv
  <2> QED BY <1>1, <1>2, <2>2
<1> QED BY <1>3

LEMMA EntryTypes ==
  ASSUME RewindInv, TypeInv, NEW dt \in Steps \cup Pauses, NEW c \in CPUs,
         NEW f \in Functions, FunctionEntry(f, dt, c) \/ LogArgsEntry(f, dt, c)
  PROVE  TypeInv'
<1>1. /\ hooks' \in 0..MaxHooks /\ odd' \in 0..MaxOdd
      /\ now' \in Nat /\ now <= now' /\ Chained(tld) /\ Past(tld, now') /\ IsSeq(tld.records)
  BY HookTypes DEF FunctionEntry, LogArgsEntry
<1>2. calls' = Called(calls, f, now')
  BY EntryLogs, ArgsLogs
<1>3. \A i \in 1..Len(calls') : calls'[i].since <= now'
  BY <1>1, <1>2, SinceCalled
<1>4. Chain(tld.records, tld.lastTSC) /\ tld.lastTSC \in 0..now' /\ now' \in 0..now'
  BY <1>1 DEF Chained, Past
<1>5. CASE FunctionEntry(f, dt, c)
  <2>1. Logs(tld', tld, c, "Enter", f, now', 0) /\ tld'.lastEntry = now'
    BY <1>5, EntryLogs
  <2>2. tld'.cpu = c /\ tld'.lastTSC = now' /\ Chain(tld'.records, now')
    BY <1>1, <1>4, <2>1, LogsChained
  <2>3. Past(tld', now') /\ Chained(tld')
    BY <1>4, <2>1, <2>2 DEF Past, Chained
  <2> QED BY <1>1, <1>3, <2>2, <2>3 DEF TypeInv
<1>6. CASE LogArgsEntry(f, dt, c)
  <2>1. PICK y : /\ Logs(y, tld, c, "Enter", f, now', 0) /\ IsSeq(y.records)
                 /\ Alike(tld', y)
                 /\ y.lastEntry = now' /\ NoneCounted(tld')
                 /\ tld'.records = Append(y.records, [kind |-> "CallArgument"])
    BY <1>6, ArgsLogs
  <2>2. y.cpu = c /\ y.lastTSC = now'
    BY <1>1, <1>4, <2>1, LogsChained
  <2>r. PICK r : r = [kind |-> "CallArgument"]
    OBVIOUS
  <2>3. r.kind \notin FunctionKinds
    BY <2>r DEF FunctionKinds
  <2>4. Chain(Append(y.records, r), now')
    BY <1>1, <2>1, <2>3, ChainMore
  <2>5. tld'.cpu = c /\ tld'.lastTSC = now' /\ tld'.lastEntry = now'
    BY <2>1, <2>2 DEF Alike
  <2>6. Past(tld', now') /\ Chained(tld')
    BY <1>4, <2>1, <2>4, <2>5, <2>r DEF Past, Chained, NoneCounted
  <2> QED BY <1>1, <1>3, <2>5, <2>6 DEF TypeInv
<1> QED BY <1>5, <1>6

LEMMA EndTypes ==
  ASSUME RewindInv, TypeInv, NEW dt \in Steps \cup Pauses, NEW c \in CPUs,
         NEW kind \in {"Exit", "TailExit"}, FunctionEnd(kind, dt, c)
  PROVE  TypeInv'
<1>0. calls # <<>>
  BY DEF FunctionEnd
<1>1. /\ hooks' \in 0..MaxHooks /\ odd' \in 0..MaxOdd
      /\ now' \in Nat /\ now \in Nat /\ now <= now'
      /\ Chained(tld) /\ Past(tld, now') /\ IsSeq(tld.records)
  BY HookTypes DEF FunctionEnd
<1>2. \E took : /\ took = 0 \/ took = now' - Last(calls).since
                /\ calls' = Returned(calls, took)
  BY EndLogs
<1>3. \A i \in 1..Len(calls') : calls'[i].since <= now'
  BY <1>0, <1>1, <1>2, SinceReturned
<1>4. Chain(tld.records, tld.lastTSC) /\ tld.lastTSC \in 0..now' /\ now' \in 0..now'
  BY <1>1 DEF Chained, Past
<1>5. CASE /\ Logs(tld', tld, c, kind, Last(calls).f, now', OwnTime(Last(calls)))
           /\ tld'.enters = 0 /\ tld'.lastEntry = tld.lastEntry
  <2>1. tld'.cpu = c /\ tld'.lastTSC = now' /\ Chain(tld'.records, now')
    BY <1>1, <1>4, <1>5, LogsChained
  <2>2. Past(tld', now') /\ Chained(tld')
    BY <1>1, <1>4, <1>5, <2>1 DEF Past, Chained
  <2> QED BY <1>1, <1>3, <2>1, <2>2 DEF TypeInv
<1>6. CASE /\ \E p : TakesBack(tld', p, tld, Last(calls).f, now')
           /\ tld'.cpu = c
  <2>1. Past(tld, now)
    BY DEF TypeInv
  <2>2. Past(tld', now') /\ (~tld'.aborted => Chained(tld'))
    BY <1>1, <1>6, <2>1, TakenBackChained
  <2> QED BY <1>1, <1>3, <1>6, <2>2 DEF TypeInv
<1> QED BY <1>5, <1>6, EndLogs

LEMMA EventTypes ==
  ASSUME RewindInv, TypeInv, NEW dt \in Steps \cup Pauses, NEW c \in CPUs,
         NEW n \in EventSizes, CustomEvent(n, dt, c)
  PROVE  TypeInv'
<1>0. calls' = calls
  BY DEF CustomEvent
<1>1. /\ hooks' \in 0..MaxHooks /\ odd' \in 0..MaxOdd
      /\ now' \in Nat /\ now \in Nat /\ now <= now'
      /\ Past(tld, now')
  BY HookTypes DEF CustomEvent
<1>2. PICK p : LogsEvent(tld', p, tld, c, now')
  BY EventLogs
<1>r. PICK r : r = [kind |-> "CustomEvent"]
  OBVIOUS
<1>3. /\ IsSeq(p.records) /\ tld'.records = Append(p.records, r)
      /\ tld'.cpu \in {tld.cpu, c}
      /\ tld'.lastTSC = tld.lastTSC /\ tld'.lastEntry = tld.lastEntry
  BY <1>2, <1>r DEF LogsEvent
<1>4. r.kind \notin FunctionKinds
  BY <1>r DEF FunctionKinds
<1>5. tld.lastTSC \in Nat /\ tld.lastEntry \in Nat /\ Past(tld', now')
  BY <1>1, <1>3 DEF Past
<1>6. Chained(tld')
  BY <1>3, <1>4, <1>5, ChainMore DEF Chained
<1>7. \A i \in 1..Len(calls') : calls'[i].since <= now'
  <2>1. ASSUME NEW i \in 1..Len(calls) PROVE calls[i].since <= now'
    <3>1. calls \in Seq(Running)
      BY DEF RewindInv, Nested
    <3>2. calls[i] \in Running
      BY <3>1, ElementOfSeq
    <3>3. calls[i].since \in Nat /\ calls[i].since <= now
      BY <3>2 DEF Running, TypeInv
    <3> QED BY <1>1, <3>3
  <2> QED BY <1>0, <2>1
<1>8. tld'.cpu \in CPUs \cup {NoCPU}
  BY <1>3 DEF TypeInv
<1> QED BY <1>1, <1>5, <1>6, <1>7, <1>8 DEF TypeInv

LEMMA InitTypes == Init => TypeInv
<1> SUFFICES ASSUME Init PROVE TypeInv
  OBVIOUS
<1>1. tld.records = <<>> /\ Len(<<>>) = 0 /\ IsSeq(<<>>) /\ calls = <<>>
  BY EmptySeq DEF Init, IsSeq
<1>2. /\ tld.lastTSC = 0 /\ tld.lastEntry = 0 /\ tld.enters = 0 /\ tld.cpu = NoCPU
      /\ hooks = 0 /\ odd = 0
  BY DEF Init
<1>3. Chain(<<>>, 0)
  <2>1. 0 \in Nat
    OBVIOUS
  <2> QED BY <1>1, <2>1, ChainStart
<1>4. Chained(tld)
  BY <1>1, <1>2, <1>3 DEF Chained
<1>5. Past(tld, now)
  BY <1>2, StepsAssumption DEF Init, Past
<1> QED BY <1>1, <1>2, <1>4, <1>5, BoundsAssumption DEF TypeInv

LEMMA NextTypes == RewindInv /\ TypeInv /\ [Next]_vars => TypeInv'
<1> SUFFICES ASSUME RewindInv, TypeInv, [Next]_vars PROVE TypeInv'
  OBVIOUS
<1>1. CASE UNCHANGED vars
  BY <1>1 DEF vars, TypeInv
<1>2. CASE Next
  BY <1>2, EntryTypes, EndTypes, EventTypes DEF Next, FunctionExit, FunctionTailExit
<1> QED BY <1>1, <1>2

(* RecordPtr stays in the buffer, the counters keep their width, and       *)
(* LastTSC and LastFunctionEntryTSC are times of the past, however many    *)
(* deltas rewinding has taken off them.                                    *)
THEOREM WriterTypes == Spec => []TypeOK
<1>1. RewindInv /\ TypeInv => TypeOK
  <2> SUFFICES ASSUME RewindInv, TypeInv PROVE TypeOK
    OBVIOUS
  <2>1. Sound(tld) /\ tld.ptr <= Capacity /\ calls \in Seq(Running) /\ now \in Nat
    BY DEF RewindInv, Kept, Nested
  <2>2. tld.ptr \in 0..Capacity /\ tld.extents \in Nat /\ tld.buffers \in Nat
    BY <2>1, Sizes DEF Sound
  <2>3. tld.enters \in 0..(CounterSize - 1) /\ tld.tails \in 0..(CounterSize - 1)
    <3>1. Len(tld.records) \in Nat
      BY <2>1, AppendOne DEF Sound
    <3> QED BY <2>1, <3>1, CounterAssumption DEF Sound
  <2>4. tld.aborted \in BOOLEAN
    BY <2>1 DEF Sound
  <2>5. \A i \in DOMAIN calls : calls[i].f \in Functions /\ calls[i].since \in 0..now
    <3>1. DOMAIN calls = 1..Len(calls)
      BY <2>1, LenProperties
    <3>2. ASSUME NEW i \in 1..Len(calls)
          PROVE  calls[i].f \in Functions /\ calls[i].since \in 0..now
      <4>1. calls[i] \in Running
        BY <2>1, ElementOfSeq
      <4>2. calls[i].since \in Nat /\ calls[i].f \in Functions
        BY <4>1 DEF Running
      <4> QED BY <2>1, <4>2 DEF TypeInv
    <3> QED BY <3>1, <3>2
  <2> QED BY <2>1, <2>2, <2>3, <2>4, <2>5 DEF TypeInv, Past, TypeOK
<1> QED BY <1>1, InitTypes, NextTypes, RewindInvariant, PTL DEF Spec

-----------------------------------------------------------------------------
(* Only short calls are taken back.                                        *)

(* A call that ended with a tail exit took no more of its own than the     *)
(* delta of its record, unless the record is out of a rewind's reach m.    *)
OwnLogged(recs, m) ==
  \A j \in 1..Len(recs) : recs[j].kind = "TailExit" =>
    /\ recs[j].own \in Nat
    /\ recs[j].own <= recs[j].delta \/ m <= Len(recs) - j

OwnInv == /\ selfTime \in Nat
          /\ erasures = 0 => selfTime = 0
          /\ erasures > 0 => selfTime < Threshold
          /\ ~tld.aborted => OwnLogged(tld.records, Span(tld))

LEMMA SpanIs ==
  ASSUME NEW w, Sound(w)
  PROVE  w.enters \in Nat /\ w.tails \in Nat /\ Span(w) \in Nat
<1>1. Len(w.records) \in Nat
  BY AppendOne DEF Sound
<1>2. w.enters \in Nat /\ w.tails \in Nat
  BY <1>1 DEF Sound
<1> QED BY <1>2 DEF Span

LEMMA OwnMore ==
  ASSUME NEW recs, IsSeq(recs), NEW m \in Nat, OwnLogged(recs, m),
         NEW n \in Nat, n <= m + 1,
         NEW r, r.kind = "TailExit" => r.own \in Nat /\ (r.own <= r.delta \/ n = 0)
  PROVE  OwnLogged(Append(recs, r), n)
<1>m. PICK more : more = Append(recs, r)
  OBVIOUS
<1>l. PICK l \in Nat : l = Len(recs)
  BY AppendOne
<1>1. /\ Len(more) = l + 1 /\ more[l + 1] = r
      /\ \A j \in 1..l : more[j] = recs[j]
  BY <1>l, <1>m, AppendOne
<1>2. ASSUME NEW j \in 1..(l + 1), more[j].kind = "TailExit"
      PROVE  more[j].own \in Nat /\ (more[j].own <= more[j].delta \/ n <= (l + 1) - j)
  <2>1. CASE j = l + 1
    BY <1>1, <1>2, <2>1
  <2>2. CASE j \in 1..l
    <3>1. recs[j].own \in Nat /\ (recs[j].own <= recs[j].delta \/ m <= l - j)
      BY <1>l, <1>1, <1>2, <2>2 DEF OwnLogged
    <3> QED BY <1>1, <2>2, <3>1
  <2> QED BY <2>1, <2>2
<1> QED BY <1>m, <1>1, <1>2 DEF OwnLogged

LEMMA OwnLess ==
  ASSUME NEW recs, IsSeq(recs), NEW m \in Nat, OwnLogged(recs, m),
         NEW k \in 0..Len(recs), NEW n \in Nat, n + k <= m \/ n = 0
  PROVE  OwnLogged(SubSeq(recs, 1, Len(recs) - k), n)
<1>r. PICK rest : rest = SubSeq(recs, 1, Len(recs) - k)
  OBVIOUS
<1>l. PICK l \in Nat : l = Len(recs)
  BY AppendOne
<1>1. Len(rest) = l - k /\ \A j \in 1..(l - k) : rest[j] = recs[j]
  <2>1. l - k \in 0..l
    BY <1>l
  <2> QED BY <1>l, <1>r, <2>1, Prefix
<1>2. ASSUME NEW j \in 1..(l - k), rest[j].kind = "TailExit"
      PROVE  rest[j].own \in Nat /\ (rest[j].own <= rest[j].delta \/ n <= (l - k) - j)
  <2>1. j \in 1..l /\ rest[j] = recs[j]
    BY <1>l, <1>1
  <2>2. recs[j].own \in Nat /\ (recs[j].own <= recs[j].delta \/ m <= l - j)
    BY <1>l, <1>2, <2>1 DEF OwnLogged
  <2>3. m <= l - j => n <= (l - k) - j
    BY <1>l, <2>1
  <2> QED BY <2>1, <2>2, <2>3
<1> QED BY <1>r, <1>1, <1>2 DEF OwnLogged

LEMMA OwnBegun ==
  ASSUME NEW p, NEW w, NEW t, Begun(p, w, t)
  PROVE  Span(p) = 0 /\ OwnLogged(p.records, Span(p))
<1>1. Span(p) = 0
  BY DEF Begun, NoneCounted, Span
<1>2. \A j \in 1..Len(p.records) : p.records[j].kind # "TailExit"
  BY DEF Begun, AllTagged, Tagged
<1> QED BY <1>1, <1>2 DEF OwnLogged

LEMMA OwnPlaced ==
  ASSUME NEW w, Sound(w), OwnLogged(w.records, Span(w)), NEW t,
         NEW p, NEW d, Placed(p, d, w, t)
  PROVE  Span(p) \in Nat /\ OwnLogged(p.records, Span(p))
<1>1. CASE Continues(p, d, w, t)
  BY <1>1, SpanIs DEF Continues, Span
<1>2. CASE Marks(p, d, w, t)
  <2>1. PICK r : Tagged(r, t) /\ p.records = Append(w.records, r)
    BY <1>2 DEF Marks, TagAdded
  <2>2. Span(p) = 0 /\ 0 \in Nat
    BY <1>2 DEF Marks, NoneCounted, Span
  <2>3. Span(w) \in Nat /\ 0 <= Span(w) + 1 /\ IsSeq(w.records)
    BY SpanIs DEF Sound
  <2>4. r.kind # "TailExit"
    BY <2>1 DEF Tagged
  <2> QED BY <2>1, <2>2, <2>3, <2>4, OwnMore
<1>3. CASE Begun(p, w, t)
  BY <1>3, OwnBegun
<1> QED BY <1>1, <1>2, <1>3 DEF Placed

(* A tail exit that is counted is measured from the hook before it.        *)
LEMMA OwnLogs ==
  ASSUME NEW w, Sound(w), OwnLogged(w.records, Span(w)),
         NEW v, NEW c, NEW kind, NEW f, NEW t, NEW own, Logs(v, w, c, kind, f, t, own),
         Span(v) \in Nat,
         kind = "TailExit" => /\ own \in Nat
                              /\ w.enters # 0 => own <= t - w.lastTSC
  PROVE  OwnLogged(v.records, Span(v))
<1>1. PICK s : /\ IsSeq(s.w.records) /\ Placed(s.w, s.delta, w, t)
               /\ Appends(v, s, c, kind, f, t, own)
  BY DEF Logs
<1>p. PICK p : p = s.w
  OBVIOUS
<1>d. PICK d : d = s.delta
  OBVIOUS
<1>r. PICK r : r = FunctionRecord(kind, f, d, t, own)
  OBVIOUS
<1>2. /\ v.records = Append(p.records, r) /\ Span(v) <= Span(p) + 1
      /\ kind = "TailExit" /\ p.enters = 0 => Span(v) = 0
  BY <1>1, <1>p, <1>d, <1>r DEF Appends
<1>3. r.kind = kind /\ r.own = own /\ r.delta = d
  BY <1>r DEF FunctionRecord
<1>4. Span(p) \in Nat /\ OwnLogged(p.records, Span(p)) /\ IsSeq(p.records)
  BY <1>1, <1>p, OwnPlaced
<1>5. ASSUME kind = "TailExit", p.enters # 0 PROVE own \in Nat /\ own <= d
  <2>1. Continues(p, d, w, t)
    BY <1>1, <1>p, <1>d, <1>5 DEF Placed, Marks, Begun, NoneCounted
  <2> QED BY <1>5, <2>1 DEF Continues
<1>6. r.kind = "TailExit" => r.own \in Nat /\ (r.own <= r.delta \/ Span(v) = 0)
  BY <1>2, <1>3, <1>5
<1> QED BY <1>2, <1>4, <1>6, OwnMore

(* The tail exit of a pair that is erased was within the rewind's reach,   *)
(* so its delta, which is shorter than the time since its predecessor,     *)
(* covers what the call took.                                              *)
LEMMA PairsWereShort ==
  ASSUME NEW x, IsSeq(x.records), x.tails \in Nat, NEW t \in Nat,
         x.lastTSC \in 0..t, Chain(x.records, x.lastTSC),
         OwnLogged(x.records, 2 * x.tails),
         NEW v, NEW n, Unpaired(v, x, n), Quick(x, n, t),
         NEW j \in (Len(v.records) + 1)..Len(x.records),
         x.records[j].kind = "TailExit"
  PROVE  x.records[j].own \in Nat /\ x.records[j].own < Threshold
<1>l. PICK l \in Nat : l = Len(x.records)
  BY AppendOne
<1>1. /\ n \in Nat /\ 2 * n \in 0..l /\ \A i \in 1..n : IsPair(x, i)
      /\ v.records = SubSeq(x.records, 1, l - 2 * n)
  BY <1>l DEF Unpaired
<1>2. Len(v.records) = l - 2 * n
  <2>1. l - 2 * n \in 0..l
    BY <1>1
  <2> QED BY <1>l, <1>1, <2>1, Prefix
<1>3. l - j \in 0..(2 * n - 1) /\ j \in 1..l
  BY <1>l, <1>1, <1>2
<1>4. PICK i \in 1..n : l - j = 2 * i - 2 \/ l - j = 2 * i - 1
  BY <1>1, <1>3, InPair
<1>i. PICK b \in Nat : b = 2 * i - 2
  BY <1>1
<1>5. l - j = b
  <2> SUFFICES ASSUME l - j = 2 * i - 1 PROVE FALSE
    BY <1>i, <1>4
  <2>1. j = l - 2 * i + 1
    BY <1>1, <1>3
  <2>2. x.records[l - 2 * i + 1].kind = "Enter"
    BY <1>l, <1>1 DEF IsPair, EntryAt
  <2> QED BY <2>1, <2>2
<1>6. b \in 0..(2 * n - 1) /\ b + 1 \in 0..(2 * n) /\ b \in 0..(2 * n) /\ b + 1 = 2 * i - 1
  BY <1>1, <1>i
<1>d. PICK d : d = x.records[j].delta
  OBVIOUS
<1>7. x.records[j].own \in Nat /\ x.records[j].own <= d
  <2>1. n <= x.tails
    BY DEF Quick
  <2>m. PICK m \in Nat : m = 2 * x.tails
    OBVIOUS
  <2>2. ~(m <= l - j)
    BY <1>1, <1>5, <1>6, <2>1, <2>m
  <2>3. OwnLogged(x.records, m) /\ j \in 1..Len(x.records)
    BY <1>l, <1>3, <2>m
  <2>4. /\ x.records[j].own \in Nat
        /\ x.records[j].own <= x.records[j].delta \/ m <= l - j
    BY <1>l, <2>3 DEF OwnLogged
  <2> QED BY <1>d, <2>2, <2>4
<1>8. \E g : Leads(g, x.records, x.lastTSC, 2 * n)
  BY PairsRun DEF Chain
<1>9. PICK g : Leads(g, x.records, x.lastTSC, 2 * n)
  BY <1>8
<1>10. d \in Nat /\ g[b + 1] = g[b] - d
  <2>1. /\ x.records[Len(x.records) - b].delta \in Nat
        /\ g[b + 1] = g[b] - x.records[Len(x.records) - b].delta
    BY <1>6, <1>9 DEF Leads
  <2>2. Len(x.records) - b = j
    BY <1>l, <1>3, <1>5
  <2> QED BY <1>d, <2>1, <2>2
<1>11. t - g[b + 1] < Threshold
  <2>1. Before(x, b + 1) = g[b + 1]
    <3>1. 2 * n \in Nat
      BY <1>1
    <3> QED BY <1>6, <1>9, <3>1, BeforeIs
  <2> QED BY <1>6, <2>1 DEF Quick
<1>12. g[b] \in 0..t
  <2>1. 2 * n \in Nat
    BY <1>1
  <2>2. g[b] \in 0..x.lastTSC
    BY <1>6, <1>9, <2>1, LeadsDown
  <2> QED BY <2>2
<1>o. PICK o \in Nat : o = x.records[j].own
  BY <1>7
<1>g. PICK y \in Nat : y = g[b]
  BY <1>12
<1>13. o <= d /\ d \in Nat /\ t - (y - d) < Threshold /\ y <= t
  BY <1>7, <1>10, <1>11, <1>12, <1>o, <1>g
<1>14. o < Threshold
  BY <1>13, StepsAssumption
<1> QED BY <1>14, <1>o

LEMMA OwnTakenBack ==
  ASSUME NEW w, Sound(w), OwnLogged(w.records, Span(w)), Chained(w),
         NEW t \in Nat, w.lastTSC \in 0..t,
         NEW v, NEW p, NEW f, TakesBack(v, p, w, f, t)
  PROVE  /\ ~v.aborted => OwnLogged(v.records, Span(v))
         /\ \A o \in ErasedOwnTimes(p.records, Len(v.records)) : o \in Nat /\ o < Threshold
<1>1. /\ IsSeq(p.records) /\ Len(p.records) # 0 /\ p.records = w.records
      /\ p.lastTSC = t /\ p.enters = w.enters /\ p.tails = w.tails
  BY DEF TakesBack
<1>l. PICK l \in Nat : l = Len(p.records)
  BY <1>1, AppendOne
<1>s. p.enters \in Nat /\ p.tails \in Nat /\ Span(p) \in Nat /\ OwnLogged(p.records, Span(p))
  BY <1>1, SpanIs DEF Span
<1>f. PICK r : r = Front(p.records)
  OBVIOUS
<1>2. /\ IsSeq(r) /\ l # 0 /\ Len(r) = l - 1
      /\ \A i \in 1..(l - 1) : r[i] = p.records[i]
  BY <1>1, <1>f, <1>l, FrontOne
<1>3. ASSUME NEW n \in Nat, n + 1 <= Span(p) \/ n = 0 PROVE OwnLogged(r, n)
  <2>1. r = SubSeq(p.records, 1, Len(p.records) - 1) /\ 1 \in 0..Len(p.records)
    BY <1>f, <1>l, <1>2 DEF Front
  <2> QED BY <1>1, <1>s, <1>3, <2>1, OwnLess
<1>4. CASE v.aborted /\ v.records = p.records
  <2>1. {i \in (l + 1)..l : p.records[i].kind = "TailExit"} = {}
    OBVIOUS
  <2>2. ErasedOwnTimes(p.records, Len(v.records)) = {}
    BY <1>l, <1>4, <2>1 DEF ErasedOwnTimes
  <2> QED BY <1>4, <2>2
<1>5. ASSUME EndsWithEntry(p, f), NEW o \in ErasedOwnTimes(p.records, Len(v.records)),
             Len(v.records) \in 0..(l - 1)
      PROVE  \E j \in (Len(v.records) + 1)..(l - 1) : r[j].kind = "TailExit" /\ o = r[j].own
  <2>1. PICK j \in (Len(v.records) + 1)..l :
               p.records[j].kind = "TailExit" /\ o = p.records[j].own
    BY <1>l, <1>5 DEF ErasedOwnTimes
  <2>2. j # l
    BY <1>l, <1>5, <2>1 DEF EndsWithEntry, Last
  <2>3. j \in (Len(v.records) + 1)..(l - 1) /\ j \in 1..(l - 1)
    BY <1>5, <2>1, <2>2
  <2> QED BY <1>2, <2>1, <2>3
<1>6. CASE EndsWithEntry(p, f) /\ EntryGone(v, p)
  <2>1. v.enters = p.enters - 1 /\ v.tails = p.tails /\ v.records = r /\ p.enters # 0
    BY <1>1, <1>6, <1>f DEF EntryGone, TakesBack
  <2>2. Span(v) \in Nat /\ Span(v) + 1 <= Span(p)
    BY <1>s, <2>1 DEF Span
  <2>3. OwnLogged(v.records, Span(v))
    BY <1>3, <2>1, <2>2
  <2>4. Len(v.records) = l - 1 /\ l - 1 \in 0..(l - 1)
    BY <1>2, <2>1
  <2>5. ErasedOwnTimes(p.records, Len(v.records)) = {}
    <3> SUFFICES ASSUME NEW o \in ErasedOwnTimes(p.records, Len(v.records)) PROVE FALSE
      OBVIOUS
    <3>1. PICK j \in (Len(v.records) + 1)..(l - 1) : TRUE
      BY <1>5, <1>6, <2>4
    <3> QED BY <2>4, <3>1
  <2> QED BY <2>3, <2>5
<1>7. CASE EndsWithEntry(p, f) /\ EntryAndPairsGone(v, p)
  <2>1. PICK x, n : /\ IsSeq(x.records) /\ x.records = r
                    /\ x.lastTSC = t - Last(p.records).delta
                    /\ x.tails = p.tails
                    /\ Unpaired(v, x, n) /\ Quick(x, n, t)
    BY <1>1, <1>7, <1>f DEF EntryAndPairsGone
  <2>2. p.enters = 1 /\ Span(v) = 0
    BY <1>7 DEF EntryAndPairsGone, NoneCounted, Span
  <2>3. x.tails \in Nat /\ OwnLogged(x.records, 2 * x.tails)
    <3>1. 2 * p.tails \in Nat /\ 2 * p.tails + 1 <= Span(p)
      BY <1>s, <2>2 DEF Span
    <3> QED BY <1>3, <1>s, <2>1, <3>1
  <2>4. /\ n \in Nat /\ 2 * n \in 0..(l - 1)
        /\ v.records = SubSeq(r, 1, (l - 1) - 2 * n)
    BY <1>2, <2>1 DEF Unpaired
  <2>5. OwnLogged(v.records, Span(v))
    <3>1. OwnLogged(r, 0) /\ 0 \in Nat
      BY <1>3
    <3>2. 2 * n \in 0..Len(r) /\ v.records = SubSeq(r, 1, Len(r) - 2 * n)
      BY <1>2, <2>4
    <3> QED BY <1>2, <2>2, <3>1, <3>2, OwnLess
  <2>6. Len(v.records) \in 0..(l - 1)
    <3>1. (l - 1) - 2 * n \in 0..Len(r)
      BY <1>2, <2>4
    <3> QED BY <1>2, <2>4, <3>1, Prefix
  <2>7. x.lastTSC \in 0..t /\ Chain(x.records, x.lastTSC)
    <3>1. Chain(p.records, t)
      <4>u. PICK u \in Nat : u = w.lastTSC
        OBVIOUS
      <4>1. Chain(p.records, u) /\ u <= t
        BY <1>1, <4>u DEF Chained
      <4> QED BY <4>1, ChainRaise
    <3>2. Last(p.records).kind \in FunctionKinds
      BY <1>7 DEF EndsWithEntry, FunctionKinds
    <3> QED BY <1>1, <1>f, <2>1, <3>1, <3>2, ChainPop
  <2>8. ASSUME NEW o \in ErasedOwnTimes(p.records, Len(v.records))
        PROVE  o \in Nat /\ o < Threshold
    <3>1. PICK j \in (Len(v.records) + 1)..(l - 1) : r[j].kind = "TailExit" /\ o = r[j].own
      BY <1>5, <1>7, <2>6
    <3> QED BY <1>2, <2>1, <2>3, <2>7, <3>1, PairsWereShort
  <2> QED BY <2>5, <2>8
<1> QED BY <1>4, <1>6, <1>7 DEF TakesBack

(* The call that ends, from the hook before it and from the last entry.    *)
LEMMA EndMeasured ==
  ASSUME RewindInv, NEW dt \in Steps \cup Pauses, NEW c \in CPUs,
         NEW kind, FunctionEnd(kind, dt, c),
         NEW own, own = OwnTime(Last(calls))
  PROVE  /\ own \in Nat
         /\ tld.enters # 0 => own <= now' - tld.lastTSC /\ own <= now' - tld.lastEntry
<1>1. calls # <<>> /\ Arrive(dt, c, FALSE)
  BY DEF FunctionEnd
<1>2. /\ now' \in Nat /\ now <= now' /\ now \in Nat
      /\ Measured(tld, calls) /\ Nested(calls, now)
  BY <1>1, Arrived DEF RewindInv
<1>k. PICK k : k = Last(calls)
  OBVIOUS
<1>3. /\ Len(calls) \in Nat \ {0} /\ \A i \in 1..Len(calls) : calls[i] \in Running
      /\ Own(Last(calls)) <= now'
  <2>1. PICK ds : ds = Returned(calls, 0)
    OBVIOUS
  <2> QED BY <1>1, <1>2, <2>1, Returning
<1>4. k = Caller(calls, 0) /\ k \in Running
  <2>1. Len(calls) - 0 = Len(calls) /\ Len(calls) \in 1..Len(calls)
    BY <1>3
  <2> QED BY <1>k, <1>3, <2>1 DEF Caller, Last
<1>5. k.since \in Nat /\ k.erased \in Nat /\ Own(k) = k.since + k.erased /\ Own(k) <= now'
  BY <1>k, <1>3, <1>4 DEF Running, Own
<1>6. own = (now' - k.since) - k.erased
  BY <1>k DEF OwnTime, Lasted
<1>7. tld.enters # 0 => /\ tld.lastTSC \in Int /\ tld.lastTSC <= Own(k)
                        /\ tld.lastEntry \in Int /\ tld.lastEntry <= Own(k)
  BY <1>2, <1>4 DEF Measured
<1> QED BY <1>2, <1>5, <1>6, <1>7

LEMMA EndOwn ==
  ASSUME RewindInv, TypeInv, OwnInv, NEW dt \in Steps \cup Pauses, NEW c \in CPUs,
         NEW kind \in {"Exit", "TailExit"}, FunctionEnd(kind, dt, c), Sound(tld')
  PROVE  OwnInv'
<1>k. PICK k : k = Last(calls)
  OBVIOUS
<1>o. PICK own : own = OwnTime(k)
  OBVIOUS
<1>1. /\ own \in Nat
      /\ tld.enters # 0 => own <= now' - tld.lastTSC /\ own <= now' - tld.lastEntry
  BY <1>k, <1>o, EndMeasured
<1>2. /\ now' \in Nat /\ Chained(tld) /\ Past(tld, now')
      /\ OwnLogged(tld.records, Span(tld)) /\ Sound(tld)
  BY HookTypes DEF FunctionEnd, OwnInv, RewindInv, Kept
<1>3. CASE /\ Logs(tld', tld, c, kind, k.f, now', own)
           /\ erasures' = erasures /\ selfTime' = selfTime
  <2>1. Span(tld') \in Nat
    BY SpanIs
  <2>2. OwnLogged(tld'.records, Span(tld'))
    BY <1>1, <1>2, <1>3, <2>1, OwnLogs
  <2> QED BY <1>3, <2>2 DEF OwnInv
<1>4. CASE /\ \E p : /\ TakesBack(tld', p, tld, k.f, now')
                     /\ ErasesTimes(selfTime', selfTime, tld', p, k)
           /\ erasures' = erasures + 1
           /\ now' - tld.lastEntry < Threshold
  <2>1. PICK p : /\ TakesBack(tld', p, tld, k.f, now')
                 /\ ErasesTimes(selfTime', selfTime, tld', p, k)
    BY <1>4
  <2>e. PICK E : E = ErasedOwnTimes(p.records, Len(tld'.records))
    OBVIOUS
  <2>2. tld.lastTSC \in 0..now'
    BY <1>2 DEF Past
  <2>3. /\ ~tld'.aborted => OwnLogged(tld'.records, Span(tld'))
        /\ \A o \in E : o \in Nat /\ o < Threshold
    BY <1>2, <2>1, <2>2, <2>e, OwnTakenBack
  <2>4. own < Threshold /\ Threshold \in Nat /\ tld.enters # 0
    <3>1. tld.enters # 0 /\ tld.lastEntry \in 0..now'
      BY <1>2, <2>1 DEF TakesBack, Past
    <3> QED BY <1>1, <1>2, <1>4, <3>1, StepsAssumption
  <2>m. PICK m \in Nat : m = Threshold - 1
    BY <1>1, <2>4
  <2>5. erasures \in Nat /\ selfTime \in 0..m
    <3>1. erasures \in Nat
      BY DEF RewindInv
    <3>2. selfTime \in Nat /\ (erasures = 0 => selfTime = 0)
          /\ (erasures > 0 => selfTime < Threshold)
      BY DEF OwnInv
    <3>3. selfTime < Threshold
      BY <1>1, <2>4, <3>1, <3>2
    <3> QED BY <2>4, <2>m, <3>1, <3>2, <3>3
  <2>t. PICK T : T = {selfTime, own} \cup E
    OBVIOUS
  <2>6. T \in SUBSET (0..m) /\ T # {} /\ selfTime' = Max(T)
    <3>1. \A o \in E : o \in 0..m
      BY <2>3, <2>4, <2>m
    <3>2. own \in 0..m
      BY <1>1, <2>4, <2>m
    <3>3. selfTime' = Max(T)
      BY <1>o, <2>1, <2>e, <2>t DEF ErasesTimes
    <3> QED BY <2>5, <2>t, <3>1, <3>2, <3>3
  <2>7. selfTime' \in 0..m
    BY <2>6, Greatest
  <2>8. selfTime' \in Nat /\ selfTime' < Threshold
    BY <2>4, <2>7, <2>m
  <2>9. ~(erasures' = 0)
    BY <1>4, <2>5
  <2> QED BY <2>3, <2>8, <2>9 DEF OwnInv
<1> QED BY <1>3, <1>4, <1>k, <1>o, EndLogs

LEMMA EntryOwn ==
  ASSUME RewindInv, OwnInv, NEW dt \in Steps \cup Pauses, NEW c \in CPUs,
         NEW f \in Functions, FunctionEntry(f, dt, c) \/ LogArgsEntry(f, dt, c), Sound(tld')
  PROVE  OwnInv'
<1>1. tld.aborted = FALSE
  BY Arrived DEF FunctionEntry, LogArgsEntry
<1>2. OwnLogged(tld.records, Span(tld)) /\ Sound(tld)
  BY <1>1 DEF OwnInv, RewindInv, Kept
<1>3. erasures' = erasures /\ selfTime' = selfTime
  BY DEF FunctionEntry, LogArgsEntry
<1>4. CASE FunctionEntry(f, dt, c)
  <2>1. Logs(tld', tld, c, "Enter", f, now', 0) /\ Span(tld') \in Nat
    BY <1>4, EntryLogs, SpanIs
  <2>2. OwnLogged(tld'.records, Span(tld'))
    BY <1>2, <2>1, OwnLogs
  <2> QED BY <1>3, <2>2 DEF OwnInv
<1>5. CASE LogArgsEntry(f, dt, c)
  <2>1. PICK y : /\ Logs(y, tld, c, "Enter", f, now', 0) /\ IsSeq(y.records)
                 /\ NoneCounted(y) /\ NoneCounted(tld')
                 /\ tld'.records = Append(y.records, [kind |-> "CallArgument"])
    BY <1>5, ArgsLogs
  <2>2. Span(y) = 0 /\ Span(tld') = 0 /\ 0 \in Nat
    BY <2>1 DEF NoneCounted, Span
  <2>3. OwnLogged(y.records, Span(y))
    BY <1>2, <2>1, <2>2, OwnLogs
  <2>r. PICK r : r = [kind |-> "CallArgument"]
    OBVIOUS
  <2>4. r.kind # "TailExit"
    BY <2>r
  <2>5. OwnLogged(Append(y.records, r), 0)
    BY <2>1, <2>2, <2>3, <2>4, OwnMore
  <2>6. OwnLogged(tld'.records, Span(tld'))
    BY <2>1, <2>2, <2>5, <2>r
  <2> QED BY <1>3, <2>6 DEF OwnInv
<1> QED BY <1>4, <1>5

LEMMA EventOwn ==
  ASSUME RewindInv, OwnInv, NEW dt \in Steps \cup Pauses, NEW c \in CPUs,
         NEW n \in EventSizes, CustomEvent(n, dt, c), Sound(tld')
  PROVE  OwnInv'
<1>1. tld.aborted = FALSE
  BY Arrived DEF CustomEvent
<1>2. OwnLogged(tld.records, Span(tld)) /\ Sound(tld)
  BY <1>1 DEF OwnInv, RewindInv, Kept
<1>3. erasures' = erasures /\ selfTime' = selfTime
  BY DEF CustomEvent
<1>4. PICK p : LogsEvent(tld', p, tld, c, now')
  BY EventLogs
<1>r. PICK r : r = [kind |-> "CustomEvent"]
  OBVIOUS
<1>5. /\ IsSeq(p.records) /\ tld'.records = Append(p.records, r)
      /\ p = tld \/ Begun(p, tld, now')
      /\ Span(tld') = Span(p)
  BY <1>4, <1>r DEF LogsEvent, Span
<1>6. r.kind # "TailExit"
  BY <1>r
<1>7. Span(p) \in Nat /\ OwnLogged(p.records, Span(p))
  BY <1>2, <1>5, SpanIs, OwnBegun
<1>8. OwnLogged(tld'.records, Span(tld'))
  BY <1>5, <1>6, <1>7, OwnMore
<1> QED BY <1>3, <1>8 DEF OwnInv

LEMMA InitOwn == Init => OwnInv
<1> SUFFICES ASSUME Init PROVE OwnInv
  OBVIOUS
<1>1. tld.records = <<>> /\ Len(<<>>) = 0
  BY EmptySeq DEF Init
<1>2. OwnLogged(tld.records, Span(tld))
  BY <1>1 DEF OwnLogged
<1>3. selfTime = 0 /\ erasures = 0
  BY DEF Init
<1> QED BY <1>2, <1>3 DEF OwnInv

LEMMA NextOwn == RewindInv /\ RewindInv' /\ TypeInv /\ OwnInv /\ [Next]_vars => OwnInv'
<1> SUFFICES ASSUME RewindInv, RewindInv', TypeInv, OwnInv, [Next]_vars PROVE OwnInv'
  OBVIOUS
<1>1. Sound(tld')
  BY DEF RewindInv, Kept
<1>2. CASE UNCHANGED vars
  BY <1>2 DEF vars, OwnInv
<1>3. CASE Next
  BY <1>1, <1>3, EntryOwn, EndOwn, EventOwn DEF Next, FunctionExit, FunctionTailExit
<1> QED BY <1>2, <1>3

(* A call that is erased took less than the threshold, callees that were   *)
(* erased before it not counted: one whose exit finds its entry last, and  *)
(* one that tail exited and goes as a pair with a later exit.              *)
THEOREM OnlyShortCallsErased == Spec => []ErasedWereShort
<1>1. OwnInv => ErasedWereShort
  BY DEF OwnInv, ErasedWereShort
<1>2. Spec => [](RewindInv /\ TypeInv)
  BY InitTypes, NextTypes, RewindInvariant, PTL DEF Spec
<1> QED BY <1>1, <1>2, InitOwn, NextOwn, PTL DEF Spec
=============================================================================
