--------------------------- MODULE ReadWriteLock ---------------------------
(* What a reader-writer lock promises: a writer is alone.  A thread asks   *)
(* for a mode and enters it when nobody inside is in its way.              *)
CONSTANT Threads
VARIABLES reading, writing   \* the threads inside, per mode

Init == reading = {} /\ writing = {}

EnterRead(t)  == /\ writing = {} /\ t \notin reading
                 /\ reading' = reading \cup {t}
                 /\ UNCHANGED writing
EnterWrite(t) == /\ reading = {} /\ writing = {}
                 /\ writing' = {t}
                 /\ UNCHANGED reading
LeaveRead(t)  == t \in reading /\ reading' = reading \ {t} /\ UNCHANGED writing
LeaveWrite(t) == writing = {t} /\ writing' = {} /\ UNCHANGED reading

Next == \E t \in Threads : \/ EnterRead(t) \/ EnterWrite(t)
                           \/ LeaveRead(t) \/ LeaveWrite(t)

Spec == Init /\ [][Next]_<<reading, writing>>
=============================================================================
