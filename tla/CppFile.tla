------------------------------ MODULE CppFile ------------------------------
(***************************************************************************)
(* clangd's CppFile: the rebuild protocol of an open file.  deferRebuild   *)
(* and deferCancelRebuild are called one after the other by the server's   *)
(* thread; each returns a continuation that some other thread may run,     *)
(* once, at any later time or never.  The server makes a new CppFile when  *)
(* a file is opened again or its compile command changes, while requests   *)
(* of the old one are still under way: unit u is the u-th it makes.        *)
(*                                                                         *)
(* Requests are numbered as they are made, those of all units together,    *)
(* and RebuildCounter is known by the request that last increased it.      *)
(* A future is known by the request that made its promise; 0 made the      *)
(* first ones of every unit, which are ready.                              *)
(*                                                                         *)
(* An action is a critical section of Mutex, or a notify_all after one.    *)
(***************************************************************************)
EXTENDS Integers

CONSTANTS MaxRequests,    \* bound: requests made of all units
          MaxUnits,       \* bound: CppFiles made
          None            \* no value, no preamble, no unit

ASSUME MaxRequestsAssumption == MaxRequests \in Nat \ {0}
ASSUME MaxUnitsAssumption == MaxUnits \in Nat \ {0}
ASSUME NoneAssumption == None \notin 0..MaxRequests \cup 1..MaxUnits

Requests == 1..MaxRequests
Makers == 0..MaxRequests
Units == 1..MaxUnits

VARIABLES made,          \* how many requests have been made
          unit,          \* unit[r]: the unit that r was made of
          counter,       \* counter[u]: RebuildCounter
          inProgress,    \* inProgress[u]: RebuildInProgress
          preamble,      \* preamble[u]: who made the promise of PreambleFuture
          ast,           \* ast[u]: who made the promise of ASTFuture
          preambleBy,    \* preambleBy[m]: who set the promise m made, or None
          astBy,         \* likewise for the AST
          latest,        \* latest[u]: who built LatestAvailablePreamble
          kind,          \* kind[r]: is r a rebuild or a cancellation?
          old,           \* old[r]: the OldPreamble that rebuild r captured
          pc,            \* where the continuation of r is
          diags,         \* requests whose continuation returned diagnostics
          notifying      \* the unit for which notify_all has yet to be called

promises == <<preamble, ast, preambleBy, astBy>>
requests == <<made, unit, counter, kind, old>>
fileVars == <<requests, inProgress, promises, latest, pc, diags, notifying>>

Labels == {"unborn", "deferred", "waiting", "asleep", "preamble", "ast",
           "leave", "notify", "finished"}

FileTypeOK ==
  /\ made \in Makers
  /\ unit \in [Requests -> Units]
  /\ counter \in [Units -> Makers]
  /\ inProgress \in [Units -> BOOLEAN]
  /\ preamble \in [Units -> Makers] /\ ast \in [Units -> Makers]
  /\ preambleBy \in [Makers -> Makers \cup {None}]
  /\ astBy \in [Makers -> Makers \cup {None}]
  /\ latest \in [Units -> Requests \cup {None}]
  /\ kind \in [Requests -> {"rebuild", "cancel"}]
  /\ old \in [Requests -> Requests \cup {None}]
  /\ pc \in [Requests -> Labels]
  /\ diags \subseteq Requests
  /\ notifying \in Units \cup {None}

FileInit ==
  /\ made = 0
  /\ unit = [r \in Requests |-> 1]
  /\ counter = [u \in Units |-> 0]
  /\ inProgress = [u \in Units |-> FALSE]
  /\ preamble = [u \in Units |-> 0] /\ ast = [u \in Units |-> 0]
  /\ preambleBy = [m \in Makers |-> IF m = 0 THEN 0 ELSE None]
  /\ astBy = [m \in Makers |-> IF m = 0 THEN 0 ELSE None]
  /\ latest = [u \in Units |-> None]
  /\ kind = [r \in Requests |-> "rebuild"]
  /\ old = [r \in Requests |-> None]
  /\ pc = [r \in Requests |-> "unborn"]
  /\ diags = {}
  /\ notifying = None

(* futureIsReady(PreambleFuture), futureIsReady(ASTFuture)                 *)
PreambleReady(u) == preambleBy[preamble[u]] # None
ASTReady(u)      == astBy[ast[u]] # None

Goto(r, from, to) == pc[r] = from /\ pc' = [pc EXCEPT ![r] = to]
Current(r) == counter[unit[r]] = r
InProgress(r) == inProgress[unit[r]]

-----------------------------------------------------------------------------
(* Mutant: the futures that are ready are not replaced.                    *)
DeferKeepsReady(u, what) ==
  /\ notifying = None /\ made < MaxRequests
  /\ made' = made + 1
  /\ unit' = [unit EXCEPT ![made'] = u]
  /\ counter' = [counter EXCEPT ![u] = made']
  /\ kind' = [kind EXCEPT ![made'] = what]
  /\ old' = [old EXCEPT ![made'] = IF what = "rebuild" THEN latest[u] ELSE None]
  /\ Goto(made', "unborn", "deferred")
  /\ notifying' = u
  /\ UNCHANGED <<inProgress, promises, latest, diags>>

(* deferRebuild and deferCancelRebuild, under Mutex: a new request cancels *)
(* the others of its unit and replaces the futures that are ready.         *)
Defer(u, what) ==
  /\ notifying = None /\ made < MaxRequests
  /\ made' = made + 1
  /\ unit' = [unit EXCEPT ![made'] = u]
  /\ counter' = [counter EXCEPT ![u] = made']
  /\ kind' = [kind EXCEPT ![made'] = what]
  /\ old' = [old EXCEPT ![made'] = IF what = "rebuild" THEN latest[u] ELSE None]
  /\ preamble' = [preamble EXCEPT ![u] = IF PreambleReady(u) THEN made' ELSE @]
  /\ ast' = [ast EXCEPT ![u] = IF ASTReady(u) THEN made' ELSE @]
  /\ Goto(made', "unborn", "deferred")
  /\ notifying' = u
  /\ UNCHANGED <<inProgress, preambleBy, astBy, latest, diags>>

(* RebuildCond.notify_all wakes whoever waits at that moment.              *)
Woken(u) == [r \in Requests |-> IF unit[r] = u /\ pc[r] = "asleep"
                                THEN "waiting" ELSE pc[r]]

NotifyDeferred == /\ notifying # None
                  /\ notifying' = None
                  /\ pc' = Woken(notifying)
                  /\ UNCHANGED <<requests, inProgress, promises, latest, diags>>

-----------------------------------------------------------------------------
(* Some thread calls the continuation.  Before the wait as after it, a     *)
(* rebuild whose RebuildCounter has passed gives up.                       *)
Call(r) == /\ Goto(r, "deferred", "waiting")
           /\ UNCHANGED <<requests, inProgress, promises, latest, diags, notifying>>

(* RebuildCond.wait: not yet.                                              *)
Sleep(r) == /\ InProgress(r) /\ Current(r)
            /\ Goto(r, "waiting", "asleep")
            /\ UNCHANGED <<requests, inProgress, promises, latest, diags, notifying>>

(* The request was cancelled itself.                                       *)
GiveUp(r) == /\ ~Current(r)
             /\ Goto(r, "waiting", "finished")
             /\ UNCHANGED <<requests, inProgress, promises, latest, diags, notifying>>

(* Mutant: does not wait for the other rebuild.                            *)
EnterAnyway(r) == /\ kind[r] = "rebuild" /\ Current(r)
                  /\ inProgress' = [inProgress EXCEPT ![unit[r]] = TRUE]
                  /\ Goto(r, "waiting", "preamble")
                  /\ UNCHANGED <<requests, promises, latest, diags, notifying>>

Enter(r) == /\ kind[r] = "rebuild"
            /\ Current(r) /\ ~InProgress(r)
            /\ inProgress' = [inProgress EXCEPT ![unit[r]] = TRUE]
            /\ Goto(r, "waiting", "preamble")
            /\ UNCHANGED <<requests, promises, latest, diags, notifying>>

(* Mutant: only the preamble is set to null.                               *)
SetNullPreamble(r) == /\ kind[r] = "cancel" /\ Current(r) /\ ~InProgress(r)
                      /\ preambleBy' = [preambleBy EXCEPT ![preamble[unit[r]]] = r]
                      /\ Goto(r, "waiting", "finished")
                      /\ UNCHANGED <<requests, inProgress, preamble, ast, astBy,
                                     latest, diags, notifying>>

(* The continuation of a cancellation sets both promises to nulls.         *)
SetNulls(r) == /\ kind[r] = "cancel"
               /\ Current(r) /\ ~InProgress(r)
               /\ preambleBy' = [preambleBy EXCEPT ![preamble[unit[r]]] = r]
               /\ astBy' = [astBy EXCEPT ![ast[unit[r]]] = r]
               /\ Goto(r, "waiting", "finished")
               /\ UNCHANGED <<requests, inProgress, preamble, ast, latest, diags,
                              notifying>>

(* LatestAvailablePreamble is set in any case: the old preamble was reused,*)
(* a new one built, or that failed.                                        *)
KeepPreamble(r) ==
  \E built \in {old[r], r, None} : latest' = [latest EXCEPT ![unit[r]] = built]

(* Mutant: publishes the preamble without looking whether it was cancelled.*)
PublishStalePreamble(r) ==
  /\ KeepPreamble(r)
  /\ preambleBy' = [preambleBy EXCEPT ![preamble[unit[r]]] = r]
  /\ Goto(r, "preamble", IF Current(r) THEN "ast" ELSE "leave")
  /\ UNCHANGED <<requests, inProgress, preamble, ast, astBy, diags, notifying>>

(* FinishRebuild publishes the preamble and goes on, unless cancelled.     *)
PublishPreamble(r) ==
  /\ KeepPreamble(r)
  /\ \/ /\ Current(r)
        /\ preambleBy' = [preambleBy EXCEPT ![preamble[unit[r]]] = r]
        /\ Goto(r, "preamble", "ast")
     \/ /\ ~Current(r)
        /\ Goto(r, "preamble", "leave")
        /\ UNCHANGED preambleBy
  /\ UNCHANGED <<requests, inProgress, preamble, ast, astBy, diags, notifying>>

(* Mutant: likewise for the AST.                                           *)
PublishStaleAST(r) ==
  /\ Goto(r, "ast", "leave")
  /\ astBy' = [astBy EXCEPT ![ast[unit[r]]] = r]
  /\ diags' = diags \cup {r}
  /\ UNCHANGED <<requests, inProgress, preamble, ast, preambleBy, latest,
                 notifying>>

(* It has diagnostics to return even when it was cancelled meanwhile.      *)
PublishAST(r) ==
  /\ Goto(r, "ast", "leave")
  /\ astBy' = IF Current(r) THEN [astBy EXCEPT ![ast[unit[r]]] = r] ELSE astBy
  /\ diags' = diags \cup {r}
  /\ UNCHANGED <<requests, inProgress, preamble, ast, preambleBy, latest,
                 notifying>>

(* The destructor of RebuildGuard.                                         *)
Leave(r) == /\ Goto(r, "leave", "notify")
            /\ inProgress' = [inProgress EXCEPT ![unit[r]] = FALSE]
            /\ UNCHANGED <<requests, promises, latest, diags, notifying>>

(* Mutant: the next rebuild is not told.                                   *)
LeaveQuietly(r) == /\ Goto(r, "notify", "finished")
                   /\ UNCHANGED <<requests, inProgress, promises, latest, diags,
                                  notifying>>

NotifyLeft(r) == /\ pc[r] = "notify"
                 /\ pc' = [Woken(unit[r]) EXCEPT ![r] = "finished"]
                 /\ UNCHANGED <<requests, inProgress, promises, latest, diags,
                                notifying>>

(* The steps a thread takes once it has called the continuation of r.      *)
Continue(r) == \/ Sleep(r) \/ GiveUp(r) \/ Enter(r) \/ SetNulls(r)
               \/ PublishPreamble(r) \/ PublishAST(r) \/ Leave(r) \/ NotifyLeft(r)

FileNext == \/ \E u \in Units, what \in {"rebuild", "cancel"} : Defer(u, what)
            \/ NotifyDeferred
            \/ \E r \in Requests : Call(r) \/ Continue(r)

FileSpec == FileInit /\ [][FileNext]_fileVars

-----------------------------------------------------------------------------
Rebuilding(u) ==
  {r \in Requests : unit[r] = u /\ pc[r] \in {"preamble", "ast", "leave"}}

(* One rebuild of a unit runs at a time, and its RebuildInProgress says    *)
(* whether one does.                                                       *)
OneRebuild == \A u \in Units : /\ \A r, s \in Rebuilding(u) : r = s
                               /\ inProgress[u] <=> Rebuilding(u) # {}

(* A future that getAST or getPreamble hands out is never ready with a     *)
(* result older than the newest request of its unit.                       *)
ReadyMeansNewest ==
  \A u \in Units : /\ PreambleReady(u) => preambleBy[preamble[u]] = counter[u]
                   /\ ASTReady(u) => astBy[ast[u]] = counter[u]

(* No promise is set twice (std::promise would throw): whoever is about to *)
(* set one finds it unset.                                                 *)
SetOnce ==
  \A r \in Requests : Current(r) =>
    /\ pc[r] = "preamble" => ~PreambleReady(unit[r]) /\ ~ASTReady(unit[r])
    /\ pc[r] = "ast" => ~ASTReady(unit[r])
    /\ kind[r] = "cancel" /\ pc[r] \in {"deferred", "waiting", "asleep"}
         => ~PreambleReady(unit[r]) /\ ~ASTReady(unit[r])

(* The assertions in the destructor of RebuildGuard: a rebuild that was    *)
(* not cancelled leaves both futures ready, a cancelled one neither.       *)
GuardAsserts ==
  \A r \in Requests : pc[r] = "leave" =>
    /\ InProgress(r)
    /\ IF Current(r) THEN ASTReady(unit[r]) /\ PreambleReady(unit[r])
       ELSE ~ASTReady(unit[r]) /\ ~PreambleReady(unit[r])
=============================================================================
