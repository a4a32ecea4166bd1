---------------------------- MODULE BufferPool -----------------------------
(* What XRay's buffer queue promises: a pool of buffers, each of which is  *)
(* with at most one thread, and no new loans once the pool is closing.     *)
CONSTANTS Threads, Buffers
VARIABLES free,      \* the buffers in the pool
          holds,     \* holds[t]: the buffers thread t has
          asked,     \* threads whose request was accepted before the closing
          closing

pool == <<free, holds, asked, closing>>

Init == /\ free = Buffers
        /\ holds = [t \in Threads |-> {}]
        /\ asked = {}
        /\ closing = FALSE

Ask(t) == /\ ~closing /\ holds[t] = {}
          /\ asked' = asked \cup {t}
          /\ UNCHANGED <<free, holds, closing>>

Lend(t) == /\ t \in asked
           /\ asked' = asked \ {t}
           /\ \/ \E b \in free : /\ free' = free \ {b}
                                 /\ holds' = [holds EXCEPT ![t] = {b}]
              \/ free = {} /\ UNCHANGED <<free, holds>>
           /\ UNCHANGED closing

TakeBack(t) == \E b \in holds[t] : /\ free' = free \cup {b}
                                   /\ holds' = [holds EXCEPT ![t] = {}]
                                   /\ UNCHANGED <<asked, closing>>

Close == closing' = TRUE /\ UNCHANGED <<free, holds, asked>>

Next == Close \/ \E t \in Threads : Ask(t) \/ Lend(t) \/ TakeBack(t)

Spec == Init /\ [][Next]_pool
=============================================================================
