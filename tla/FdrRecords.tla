---------------------------- MODULE FdrRecords -----------------------------
(***************************************************************************)
(* One thread's log in XRay's flight data recorder: processFunctionHook    *)
(* and the custom event handler write records into the thread's buffer,    *)
(* take short calls back out of it, and start the next buffer when one is  *)
(* full; Trace.cpp reads the records and turns deltas into times again.    *)
(* The queue that lends the buffers is left to FdrLogging: here it always  *)
(* has one.  Sizes are in units of a FunctionRecord, 8 bytes.              *)
(***************************************************************************)
EXTENDS Integers, Sequences, SequencesExt, FiniteSetsExt

CONSTANTS Functions,
          CPUs,
          Steps, Pauses,    \* by how much the TSC advances between two hooks
          Threshold,    \* thresholdTicks()
          MaxDelta,     \* numeric_limits<uint32_t>::max()
          CounterSize,  \* 2^8, the counters are uint8_t
          Capacity,     \* Buffer.Size
          EventSizes,   \* payloads of custom events
          MaxHooks,     \* bound: hooks called
          MaxOdd        \* bound: hooks on another CPU, after a pause, or of a rare kind

FunctionRecSize == 1
MetadataRecSize == 2
PreambleSize == 2 * MetadataRecSize
MaxSize == FunctionRecSize + 2 * MetadataRecSize
NoCPU == -1

(* A fresh buffer takes its preamble, two CPU records and one hook.        *)
ASSUME SizeAssumption == /\ Capacity \in Nat
                         /\ Capacity >= PreambleSize + 2 * MetadataRecSize + MaxSize
ASSUME CPUsAssumption == NoCPU \notin CPUs
ASSUME CounterAssumption == CounterSize \in Nat /\ CounterSize > 1
ASSUME StepsAssumption == Steps \cup Pauses \subseteq Nat /\ MaxDelta \in Nat /\ Threshold \in Nat
ASSUME BoundsAssumption == MaxHooks \in Nat /\ MaxOdd \in Nat
ASSUME EventsAssumption ==
  \A n \in EventSizes : n \in Nat /\ PreambleSize + 3 * MetadataRecSize + n <= Capacity

VARIABLES tld,      \* ThreadLocalData, the records up to RecordPtr, Extents
          now,      \* the time stamp counter
          calls,    \* the instrumented calls that are running, innermost last
          hooks, odd,
          plain,    \* history: no tail exit and no custom event so far
          erasures, \* history: hooks that erased something
          selfTime  \* history: longest own time of a call that was erased

vars == <<tld, now, calls, hooks, odd, plain, erasures, selfTime>>

Init == /\ tld = [records |-> <<>>, ptr |-> 0, extents |-> 0, enters |-> 0,
                  tails |-> 0, cpu |-> NoCPU, lastTSC |-> 0, lastEntry |-> 0,
                  aborted |-> FALSE, buffers |-> 0]
        /\ now = MaxDelta + 1        \* the machine has been up for a while
        /\ calls = <<>>
        /\ hooks = 0 /\ odd = 0
        /\ plain = TRUE
        /\ erasures = 0 /\ selfTime = 0

-----------------------------------------------------------------------------
(* The writer: operators on the thread local data.                         *)

Write(w, rec, size) == [w EXCEPT !.records = Append(@, rec), !.ptr = @ + size,
                                   !.extents = @ + size]

ZeroCounters(w) == [w EXCEPT !.enters = 0, !.tails = 0]

writeNewCPUIdMetadata(w, c, tsc) ==
  ZeroCounters(Write(w, [kind |-> "NewCPUId", tsc |-> tsc], MetadataRecSize))

writeTSCWrapMetadata(w, tsc) ==
  ZeroCounters(Write(w, [kind |-> "TSCWrap", tsc |-> tsc], MetadataRecSize))

(* A lent buffer: setupNewBuffer with its preamble, then the CPU.          *)
NewBuffer(w, c, tsc) ==
  writeNewCPUIdMetadata(ZeroCounters([w EXCEPT !.records = <<>>,
                                               !.ptr = PreambleSize,
                                               !.extents = PreambleSize,
                                               !.buffers = @ + 1]), c, tsc)

(* isLogInitializedAndReady while the log is initialised.                  *)
Ready(w, c, tsc) ==
  LET w1 == IF w.ptr = 0 THEN NewBuffer(w, c, tsc) ELSE w IN
  IF w1.cpu = NoCPU THEN writeNewCPUIdMetadata([w1 EXCEPT !.cpu = c], c, tsc) ELSE w1

prepareBuffer(w, c, tsc, size) ==
  IF w.ptr + size > Capacity THEN NewBuffer(w, c, tsc) ELSE w

(* Mutant: a delta is cut to its low bits, no TSCWrap record is written.   *)
stampTruncated(w, c, tsc) ==
  LET moved == c # w.cpu
      wrote == IF moved THEN writeNewCPUIdMetadata(w, c, tsc) ELSE w
  IN [w |-> [wrote EXCEPT !.lastTSC = tsc, !.cpu = c],
      delta |-> IF moved THEN 0 ELSE (tsc - w.lastTSC) % (MaxDelta + 1)]

(* writeCurrentCPUTSC, then LastTSC and CurrentCPU.                        *)
writeCurrentCPUTSC(w, c, tsc) ==
  LET moved == c # w.cpu
      wraps == ~moved /\ tsc - w.lastTSC > MaxDelta
      wrote == IF moved THEN writeNewCPUIdMetadata(w, c, tsc)
               ELSE IF wraps THEN writeTSCWrapMetadata(w, tsc) ELSE w
  IN [w |-> [wrote EXCEPT !.lastTSC = tsc, !.cpu = c],
      delta |-> IF moved \/ wraps THEN 0 ELSE tsc - w.lastTSC]

(* Mutants: the counters do not wrap around; a function exit keeps them.   *)
CountedWide(w, kind) ==
  CASE kind = "Enter"    -> [w EXCEPT !.enters = @ + 1]
    [] kind = "TailExit" -> [w EXCEPT !.enters = 0,
                               !.tails = IF w.enters > 0 THEN @ + 1 ELSE 0]
    [] OTHER             -> ZeroCounters(w)
CountedExitKeeps(w, kind) ==
  CASE kind = "Enter"    -> [w EXCEPT !.enters = (@ + 1) % CounterSize]
    [] kind = "TailExit" -> [w EXCEPT !.enters = 0,
                               !.tails = IF w.enters > 0 THEN (@ + 1) % CounterSize ELSE 0]
    [] OTHER             -> w

(* The counters after a record of this kind.                               *)
Counted(w, kind) ==
  CASE kind = "Enter"    -> [w EXCEPT !.enters = (@ + 1) % CounterSize]
    [] kind = "TailExit" -> [w EXCEPT !.enters = 0,
                               !.tails = IF w.enters > 0 THEN (@ + 1) % CounterSize ELSE 0]
    [] OTHER             -> ZeroCounters(w)

(* A record knows what the log does not hold: the time it was made at and, *)
(* for the end of a call, the time of its own the call took.               *)
writeFunctionRecord(w, kind, f, delta, tsc, own) ==
  Write(Counted(w, kind),
          [kind |-> IF kind = "EnterArgs" THEN "Enter" ELSE kind,
           f |-> f, delta |-> delta, at |-> tsc, own |-> own],
          FunctionRecSize)

-----------------------------------------------------------------------------
(* Taking a short call back.  Before(w, k) is the time before the last k   *)
(* records, computed from LastTSC and their deltas.                        *)

Before(w, k) ==
  LET time[i \in 0..k] ==
        IF i = 0 THEN w.lastTSC
        ELSE time[i - 1] - w.records[Len(w.records) - i + 1].delta
  IN time[k]

(* The i-th pair of a function entry and a tail exit, from the end.        *)
TailExitAt(w, i) == w.records[Len(w.records) - 2 * i + 2]
EntryAt(w, i) == w.records[Len(w.records) - 2 * i + 1]
IsPair(w, i) == /\ 2 * i <= Len(w.records)
                /\ TailExitAt(w, i).kind = "TailExit"
                /\ EntryAt(w, i).kind = "Enter"
                /\ EntryAt(w, i).f = TailExitAt(w, i).f

(* Mutant: of each pair the entry is left behind.                          *)
RewindTailExits(w, tsc) ==
  LET Erasable(i) == IsPair(w, i) /\ tsc - Before(w, 2 * i - 1) < Threshold
      n == Max({m \in 0..w.tails : \A i \in 1..m : Erasable(i)})
  IN [w EXCEPT !.records = SubSeq(@, 1, Len(@) - n),
               !.ptr = @ - n,
               !.extents = @ - n,
               !.lastTSC = Before(w, n),
               !.tails = 0,
               !.aborted = n < w.tails /\ ~IsPair(w, n + 1)]

(* Mutant: a pair is erased whatever the time since its predecessor.       *)
RewindAnyPair(w, tsc) ==
  LET n == Max({m \in 0..w.tails : \A i \in 1..m : IsPair(w, i)})
  IN [w EXCEPT !.records = SubSeq(@, 1, Len(@) - 2 * n),
               !.ptr = @ - 2 * n,
               !.extents = @ - 2 * n,
               !.lastTSC = Before(w, 2 * n),
               !.tails = 0,
               !.aborted = n < w.tails /\ ~IsPair(w, n + 1)]

(* The loop of rewindRecentCall: pairs are erased from the end as long as  *)
(* the time since the tail exit's predecessor is short.                    *)
RewindTailCalls(w, tsc) ==
  LET Erasable(i) == IsPair(w, i) /\ tsc - Before(w, 2 * i - 1) < Threshold
      n == Max({m \in 0..w.tails : \A i \in 1..m : Erasable(i)})
  IN [w EXCEPT !.records = SubSeq(@, 1, Len(@) - 2 * n),
               !.ptr = @ - 2 * n,
               !.extents = @ - 2 * n,
               !.lastTSC = Before(w, 2 * n),
               !.tails = 0,
               !.aborted = n < w.tails /\ ~IsPair(w, n + 1)]

(* The function entry before RecordPtr, if it is the call that now ends.   *)
EndsWithEntry(w, f) == Last(w.records).kind = "Enter" /\ Last(w.records).f = f

(* Mutant: the extents are left as they were.                              *)
rewindKeepsExtents(w, f, tsc) ==
  IF ~EndsWithEntry(w, f) THEN [w EXCEPT !.aborted = TRUE]
  ELSE LET delta == Last(w.records).delta
           w1 == [w EXCEPT !.records = Front(@), !.ptr = @ - 1,
                           !.enters = @ - 1, !.lastTSC = @ - delta]
       IN IF w1.enters # 0 THEN [w1 EXCEPT !.lastEntry = @ - delta]
          ELSE RewindTailCalls([w1 EXCEPT !.lastEntry = 0], tsc)

(* An assertion that fails ends the program; the exit is not logged.       *)
rewindRecentCall(w, f, tsc) ==
  IF ~EndsWithEntry(w, f) THEN [w EXCEPT !.aborted = TRUE]
  ELSE LET delta == Last(w.records).delta
           w1 == [w EXCEPT !.records = Front(@), !.ptr = @ - 1, !.extents = @ - 1,
                           !.enters = @ - 1, !.lastTSC = @ - delta]
       IN IF w1.enters # 0 THEN [w1 EXCEPT !.lastEntry = @ - delta]
          ELSE RewindTailCalls([w1 EXCEPT !.lastEntry = 0], tsc)

-----------------------------------------------------------------------------
(* The hooks.                                                              *)

(* Every hook reads the TSC and the CPU, then makes room for its records.  *)
Arrive(dt, c, rare) ==
  /\ ~tld.aborted
  /\ hooks < MaxHooks
  /\ hooks' = hooks + 1
  /\ now' = now + dt
  /\ IF rare \/ dt \in Pauses \/ tld.cpu \notin {NoCPU, c}
     THEN odd < MaxOdd /\ odd' = odd + 1
     ELSE UNCHANGED odd

Prepared(c, size) == prepareBuffer(Ready(tld, c, now'), c, now', size)
Stamped(c) == writeCurrentCPUTSC(Prepared(c, MaxSize), c, now')

Call(f) == Append(calls, [f |-> f, since |-> now', erased |-> 0])

(* ENTRY, LOG_ARGS_ENTRY.                                                  *)
FunctionEntry(f, dt, c) ==
  /\ Arrive(dt, c, FALSE)
  /\ LET s == Stamped(c) IN
     tld' = writeFunctionRecord([s.w EXCEPT !.lastEntry = now'], "Enter", f, s.delta, now', 0)
  /\ calls' = Call(f)
  /\ UNCHANGED <<plain, erasures, selfTime>>

LogArgsEntry(f, dt, c) ==
  /\ Arrive(dt, c, TRUE)
  /\ LET s == Stamped(c) IN
     tld' = Write(writeFunctionRecord([s.w EXCEPT !.lastEntry = now'], "EnterArgs", f,
                                        s.delta, now', 0),
                    [kind |-> "CallArgument"], MetadataRecSize)
  /\ calls' = Call(f)
  /\ UNCHANGED <<plain, erasures, selfTime>>

(* The innermost call ends; what it lasted is charged to its caller if it  *)
(* is erased.  Its own time is what it lasted, less its erased callees.    *)
Lasted(k) == now' - k.since
OwnTime(k) == Lasted(k) - k.erased
Return(took) == calls' = IF Len(calls) = 1 THEN <<>>
                         ELSE [Front(calls) EXCEPT ![Len(calls) - 1].erased = @ + took]

(* The own times of the calls whose ends a rewind took out of the log: it  *)
(* leaves the first n records.                                             *)
ErasedOwnTimes(recs, n) ==
  {recs[j].own : j \in {i \in (n + 1)..Len(recs) : recs[i].kind = "TailExit"}}

(* EXIT and TAIL, both: a call that was short is taken back, otherwise its *)
(* end is logged.                                                          *)
FunctionEnd(kind, dt, c) ==
  /\ calls # <<>>
  /\ Arrive(dt, c, FALSE)
  /\ LET s == Stamped(c)
         k == Last(calls)
     IN \/ /\ s.w.enters = 0 \/ now' - s.w.lastEntry >= Threshold
           /\ tld' = writeFunctionRecord(s.w, kind, k.f, s.delta, now', OwnTime(k))
           /\ Return(0)
           /\ UNCHANGED <<erasures, selfTime>>
        \/ /\ s.w.enters # 0 /\ now' - s.w.lastEntry < Threshold
           /\ tld' = rewindRecentCall(s.w, k.f, now')
           /\ Return(Lasted(k))
           /\ erasures' = erasures + 1
           /\ selfTime' = Max({selfTime, OwnTime(k)}
                                \cup ErasedOwnTimes(s.w.records, Len(tld'.records)))

FunctionExit(dt, c) == FunctionEnd("Exit", dt, c) /\ UNCHANGED plain
FunctionTailExit(dt, c) == FunctionEnd("TailExit", dt, c) /\ plain' = FALSE

(* fdrLoggingHandleCustomEvent: RecordPtr stays before the event's data.   *)
CustomEvent(n, dt, c) ==
  /\ hooks > 0
  /\ Arrive(dt, c, TRUE)
  /\ LET w == Prepared(c, MetadataRecSize + n) IN
     tld' = [Write(w, [kind |-> "CustomEvent"], MetadataRecSize)
               EXCEPT !.extents = @ + n]
  /\ plain' = FALSE
  /\ UNCHANGED <<calls, erasures, selfTime>>

Next == \E dt \in Steps \cup Pauses, c \in CPUs :
          \/ \E f \in Functions : FunctionEntry(f, dt, c) \/ LogArgsEntry(f, dt, c)
          \/ FunctionExit(dt, c) \/ FunctionTailExit(dt, c)
          \/ \E n \in EventSizes : CustomEvent(n, dt, c)

Spec == Init /\ [][Next]_vars

-----------------------------------------------------------------------------
(* The reader, Trace.cpp: metadata give an absolute time, and the time of  *)
(* a function's record is the last one before it plus the deltas since.    *)
FunctionKinds == {"Enter", "Exit", "TailExit"}

DecodedTSC(t, r) == CASE r.kind \in {"NewCPUId", "TSCWrap"} -> r.tsc
                      [] r.kind \in FunctionKinds -> t + r.delta
                      [] OTHER -> t

BaseTSC(recs, i) ==
  LET base[k \in 0..i] == IF k = 0 THEN 0 ELSE DecodedTSC(base[k - 1], recs[k])
  IN base[i]

TypeOK == /\ tld.ptr \in 0..Capacity /\ tld.extents \in Nat
          /\ tld.enters \in 0..(CounterSize - 1) /\ tld.tails \in 0..(CounterSize - 1)
          /\ tld.cpu \in CPUs \cup {NoCPU}
          /\ tld.lastTSC \in 0..now /\ tld.lastEntry \in 0..now
          /\ tld.aborted \in BOOLEAN /\ tld.buffers \in Nat
          /\ now \in Nat /\ hooks \in 0..MaxHooks /\ odd \in 0..MaxOdd
          /\ \A i \in DOMAIN calls : calls[i].f \in Functions /\ calls[i].since \in 0..now

(* The extents that flushing and reading rely on are what the thread has   *)
(* written and not taken back, and a record never runs past the buffer,    *)
(* whatever metadata comes with it.  (For custom events without data: the  *)
(* extents count the data, which RecordPtr is not moved past.)             *)
WithinBuffer == tld.extents = tld.ptr /\ tld.ptr <= Capacity

(* The calls that are open after a record.                                *)
Opened(open, r) == CASE r.kind \notin FunctionKinds -> open
                     [] r.kind = "Enter" -> Append(open, r.f)
                     [] OTHER -> IF open = <<>> THEN <<>>
                                 ELSE IF Last(open) = r.f THEN Front(open) ELSE <<"?">>

Replay(recs) ==
  LET open[i \in 0..Len(recs)] ==
        IF i = 0 THEN <<>> ELSE Opened(open[i - 1], recs[i])
  IN open[Len(recs)]

(* What is left in the buffer is a run of nested calls: replayed from its  *)
(* start, it leaves open calls that are still running, every erased call   *)
(* has gone with both its ends, and every end matches its entry.           *)
LogMatchesCalls ==
  ~tld.aborted => IsSuffix(Replay(tld.records), [i \in DOMAIN calls |-> calls[i].f])

(* Only calls that were short by themselves are erased, whether their own  *)
(* exit erases them or that of a call they ended with a tail exit to: less *)
(* the time of the callees that were erased before it, an erased call took *)
(* less than the threshold.  (Its whole duration may well be above it.)    *)
ErasedWereShort == erasures > 0 => selfTime < Threshold

(* A thread that never tail exits and logs no custom event always finds    *)
(* the entry it rewinds: no assertion of rewindRecentCall fails.           *)
PlainRewinds == plain => ~tld.aborted

(* The assertions of rewindRecentCall, "Expected to find function entry    *)
(* when rewinding tail call" and its like: with tail exits too, what is    *)
(* rewound is the entry of the call, then pairs of entries and tail exits. *)
RewindsFindTheirRecords == ~tld.aborted

(* "The number of ticks since a previous record recorded a delta or other  *)
(* TSC resetting event": the reader recovers every record's time.          *)
TimesDecode == \A i \in 1..Len(tld.records) :
                 tld.records[i].kind \in FunctionKinds
                   => BaseTSC(tld.records, i) = tld.records[i].at

(* It does in a thread's first buffer, as long as nothing was erased, with *)
(* migrations, wrapped deltas, arguments and custom events in between.     *)
FirstTimesDecode == tld.buffers <= 1 /\ erasures = 0 => TimesDecode
=============================================================================
