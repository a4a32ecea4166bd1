---------------------------- MODULE BufferQueue ----------------------------
(***************************************************************************)
(* __xray::BufferQueue, the ring of log buffers of XRay's flight data      *)
(* recorder.  Buffers are lent from the slot Next and taken back into the  *)
(* slot First, in the order they come back: a slot between First and Next  *)
(* keeps a stale copy of the buffer it lent, or of one that came back into *)
(* it in an earlier round.  Each thread has one buffer at a time.          *)
(***************************************************************************)
EXTENDS Integers, FiniteSets

CONSTANTS Threads, BufferCount

ASSUME CountAssumption == BufferCount \in Nat \ {0}

Slots == 0..(BufferCount - 1)
Buffers == Slots     \* the buffer allocated for slot i

VARIABLES slots,      \* Buffers[i].Buff
          used,       \* the slots whose Used is set
          next, first, live,   \* Next, First, LiveBuffers
          finalizing,
          held,       \* held[t]: the buffers thread t was lent, at most one
          getting,    \* threads in getBuffer, past its look at Finalizing
          returned    \* history: buffers that were got and released

vars == <<slots, used, next, first, live, finalizing, held, getting, returned>>

TypeOK == /\ slots \in [Slots -> Buffers]
          /\ used \subseteq Slots
          /\ next \in Slots /\ first \in Slots
          /\ live \in 0..BufferCount
          /\ finalizing \in BOOLEAN
          /\ held \in [Threads -> SUBSET Buffers]
          /\ getting \subseteq Threads
          /\ returned \subseteq Buffers

Init == /\ slots = [i \in Slots |-> i]
        /\ used = {}
        /\ next = 0 /\ first = 0 /\ live = 0
        /\ finalizing = FALSE
        /\ held = [t \in Threads |-> {}]
        /\ getting = {}
        /\ returned = {}

(* Mutant: wraps around one slot late.                                     *)
AfterLate(i) == IF i = BufferCount THEN 0 ELSE i + 1

After(i) == IF i + 1 = BufferCount THEN 0 ELSE i + 1

-----------------------------------------------------------------------------
(* Mutant: getBuffer does not look at Finalizing.                          *)
EnterGetAnyway(t) == /\ held[t] = {} /\ t \notin getting
                     /\ getting' = getting \cup {t}
                     /\ UNCHANGED <<slots, used, next, first, live, finalizing,
                                    held, returned>>

(* getBuffer looks at Finalizing before it takes the mutex.                *)
EnterGet(t) == /\ held[t] = {} /\ t \notin getting
               /\ ~finalizing
               /\ getting' = getting \cup {t}
               /\ UNCHANGED <<slots, used, next, first, live, finalizing, held,
                              returned>>

(* getBuffer, under the mutex.                                             *)
Get(t) == /\ t \in getting
          /\ getting' = getting \ {t}
          /\ live # BufferCount
          /\ held' = [held EXCEPT ![t] = {slots[next]}]
          /\ used' = used \cup {next}
          /\ live' = live + 1
          /\ next' = After(next)
          /\ UNCHANGED <<slots, first, finalizing, returned>>

(* getBuffer returns NotEnoughMemory.                                      *)
GetFails(t) == /\ t \in getting
               /\ live = BufferCount
               /\ getting' = getting \ {t}
               /\ UNCHANGED <<slots, used, next, first, live, finalizing, held,
                              returned>>

(* Mutants: the buffer is not put into its slot, or the slot is marked     *)
(* unused.                                                                 *)
ReleaseTo(t, newSlots, newUsed) ==
  /\ live # 0 /\ held[t] # {}
  /\ slots' = newSlots /\ used' = newUsed
  /\ returned' = returned \cup held[t]
  /\ held' = [held EXCEPT ![t] = {}]
  /\ live' = live - 1
  /\ first' = After(first)
  /\ UNCHANGED <<next, finalizing, getting>>
ReleaseInPlace(t) == ReleaseTo(t, slots, used \cup {first})
ReleaseUnused(t) == \E b \in held[t] : ReleaseTo(t, [slots EXCEPT ![first] = b],
                                                 used \ {first})

(* releaseBuffer of the buffer it was lent; it nulls the thread's pointer, *)
(* so that a second release finds no owned buffer and changes nothing.     *)
Release(t) == /\ live # 0
              /\ \E b \in held[t] :
                   /\ slots' = [slots EXCEPT ![first] = b]
                   /\ returned' = returned \cup {b}
              /\ held' = [held EXCEPT ![t] = {}]
              /\ used' = used \cup {first}
              /\ live' = live - 1
              /\ first' = After(first)
              /\ UNCHANGED <<next, finalizing, getting>>

Finalize == finalizing' = TRUE /\ UNCHANGED <<slots, used, next, first, live,
                                              held, getting, returned>>

Next == \/ Finalize
        \/ \E t \in Threads : EnterGet(t) \/ Get(t) \/ GetFails(t) \/ Release(t)

Spec == Init /\ [][Next]_vars

-----------------------------------------------------------------------------
Lent == UNION {held[t] : t \in Threads}

(* The slots that hold the buffers in the pool: from Next up to First.     *)
FreeSlots == {(next + k) % BufferCount : k \in 0..(BufferCount - live - 1)}
Free == {slots[i] : i \in FreeSlots}

(* apply calls its function on the buffer of every used slot.              *)
Applied == {slots[i] : i \in used}

(* Whatever the order in which buffers come back, no buffer is in two      *)
(* places: the pool's slots and the threads hold each buffer once, and     *)
(* LiveBuffers counts the latter, so that a release never fails.  (With    *)
(* no buffer lent this is what the destructor needs to free each of them   *)
(* once; with buffers lent, a stale copy can make it free one twice.)      *)
EachBufferOnce ==
  /\ \A s, t \in Threads : s # t => held[s] \cap held[t] = {}
  /\ Free \cup Lent = Buffers /\ Free \cap Lent = {}
  /\ Cardinality(Free) = BufferCount - live
  /\ live = Cardinality(Lent)

(* The log loses nothing: apply visits every buffer that was written,      *)
(* returned and not lent again.                                            *)
NothingWrittenIsLost == returned \ Lent \subseteq Applied

(* The ring is a pool; once it is finalizing only requests already past    *)
(* the check are still served.                                             *)
Pool == INSTANCE BufferPool WITH free <- Free, holds <- held, asked <- getting,
                                 closing <- finalizing
IsPool == Pool!Spec
=============================================================================
