---------------------------- MODULE ClangdServer ---------------------------
(***************************************************************************)
(* clangd's ClangdServer around one document: the thread that serves the   *)
(* client gives each change a document version, looks up or makes the      *)
(* CppFile, defers a rebuild and puts its continuation at the front of the *)
(* scheduler's queue; workers take requests from the front, run them and   *)
(* report diagnostics, until the scheduler is destroyed.                   *)
(* Every request of the scheduler is the request of CppFile that carries   *)
(* the same number.                                                        *)
(***************************************************************************)
EXTENDS CppFile, Sequences, FiniteSets

CONSTANT WorkerCount      \* AsyncThreadsCount

ASSUME WorkerCountAssumption == WorkerCount \in Nat \ {0}

VARIABLES version,        \* DraftMgr's version of the document
          open,           \* the document has a draft
          file,           \* Units' entry for it in OpenedFiles
          files,          \* how many CppFiles have been made for it
          todo,           \* the requests the server's thread has yet to defer
          done,           \* Done of the scheduler
          versionOf,      \* versionOf[r]: the version request r captured
          queue,          \* RequestQueue
          job,            \* job[r]: where the worker that runs r is
          signal,         \* the notification RequestCV is yet to be sent
          asleep,         \* how many workers sleep in RequestCV.wait
          left,           \* how many workers have returned
          lastReported,   \* ReportedDiagnosticVersions of the document
          reported        \* history: the request whose diagnostics came last

callVars == <<version, open, file, files, todo, done>>
workerVars == <<signal, asleep, left>>
serverVars == <<callVars, versionOf, queue, job, workerVars, lastReported,
                reported>>
vars == <<fileVars, serverVars>>

Jobs == {"none", "queued", "started", "rebuilding", "report", "ended"}
Versions == 0..MaxRequests
ToDo == [op : {"rebuild", "cancel"}, unit : Units, version : Versions]

TypeOK == /\ FileTypeOK
          /\ version \in Versions /\ lastReported \in Versions
          /\ open \in BOOLEAN /\ done \in BOOLEAN
          /\ file \in Units \cup {None} /\ files \in 0..MaxUnits
          /\ todo \in Seq(ToDo)
          /\ versionOf \in [Requests -> Versions]
          /\ queue \in Seq(Requests)
          /\ job \in [Requests -> Jobs]
          /\ signal \in {"none", "one", "all"}
          /\ asleep \in 0..WorkerCount /\ left \in 0..WorkerCount
          /\ reported \in Requests \cup {None}

Init == /\ FileInit
        /\ version = 0 /\ open = FALSE /\ done = FALSE
        /\ file = None /\ files = 0
        /\ todo = <<>>
        /\ versionOf = [r \in Requests |-> 0]
        /\ queue = <<>>
        /\ job = [r \in Requests |-> "none"]
        /\ signal = "none" /\ asleep = 0 /\ left = 0
        /\ lastReported = 0 /\ reported = None

-----------------------------------------------------------------------------
(* The server's thread.  addDocument, removeDocument and forceReparse each *)
(* start with the draft store and the collection of CppFiles ...           *)
Deferred == made > 0 /\ job[made] = "none"  \* deferred and not in the queue
Idle == todo = <<>> /\ notifying = None /\ ~Deferred /\ signal = "none" /\ ~done
CanCall(n) == Idle /\ made + n <= MaxRequests

Ask(op, u, v) == [op |-> op, unit |-> u, version |-> v]

GetOrCreateFile == \/ file # None /\ UNCHANGED <<file, files>>
                   \/ /\ file = None /\ files < MaxUnits
                      /\ files' = files + 1 /\ file' = files'

(* Mutant: the draft's version is counted twice.                           *)
AddDocumentTwice == /\ CanCall(1)
                    /\ version' = version + 2 /\ open' = TRUE
                    /\ GetOrCreateFile
                    /\ todo' = <<Ask("rebuild", file', version')>>
                    /\ UNCHANGED <<fileVars, done, versionOf, queue, job,
                                   workerVars, lastReported, reported>>

AddDocument == /\ CanCall(1)
               /\ version' = version + 1 /\ open' = TRUE
               /\ GetOrCreateFile
               /\ todo' = <<Ask("rebuild", file', version')>>
               /\ UNCHANGED <<fileVars, done, versionOf, queue, job,
                              workerVars, lastReported, reported>>

(* forceReparse, with the same compile command as before or another one.   *)
ForceReparse ==
  /\ open
  /\ \/ /\ CanCall(1)
        /\ todo' = <<Ask("rebuild", file, version)>>
        /\ UNCHANGED <<file, files>>
     \/ /\ CanCall(2) /\ files < MaxUnits
        /\ files' = files + 1 /\ file' = files'
        /\ todo' = <<Ask("cancel", file, version), Ask("rebuild", file', version)>>
  /\ UNCHANGED <<fileVars, version, open, done, versionOf, queue, job,
                 workerVars, lastReported, reported>>

RemoveDocument == /\ CanCall(1) /\ open
                  /\ version' = version + 1 /\ open' = FALSE
                  /\ file' = None
                  /\ todo' = <<Ask("cancel", file, version')>>
                  /\ UNCHANGED <<fileVars, files, done, versionOf, queue, job,
                                 workerVars, lastReported, reported>>

(* ... then defer the rebuild or the cancellation and notify ...           *)
DeferCall == /\ todo # <<>> /\ ~Deferred /\ signal = "none"
             /\ Defer(Head(todo).unit, Head(todo).op)
             /\ versionOf' = [versionOf EXCEPT ![made'] = Head(todo).version]
             /\ todo' = Tail(todo)
             /\ UNCHANGED <<version, open, file, files, done, queue, job,
                            workerVars, lastReported, reported>>

Notify == NotifyDeferred /\ UNCHANGED serverVars

(* ... and addToFront, which notifies one worker behind its lock.          *)
AddToFront == /\ Deferred /\ notifying = None
              /\ queue' = <<made>> \o queue
              /\ job' = [job EXCEPT ![made] = "queued"]
              /\ signal' = "one"
              /\ UNCHANGED <<fileVars, callVars, versionOf, asleep, left,
                             lastReported, reported>>

(* The scheduler's destructor, which then notifies and joins the workers:  *)
(* those that run a request end it, and the requests in the queue are      *)
(* dropped.                                                                *)
Destroy == /\ Idle
           /\ done' = TRUE
           /\ signal' = "all"
           /\ UNCHANGED <<fileVars, version, open, file, files, todo, versionOf,
                          queue, job, asleep, left, lastReported, reported>>

(* Outside Mutex: a notification finds sleeping workers, or is lost.       *)
NotifyWorkers == /\ \/ signal = "one" /\ asleep = 0 /\ UNCHANGED asleep
                    \/ signal = "one" /\ asleep > 0 /\ asleep' = asleep - 1
                    \/ signal = "all" /\ asleep' = 0
                 /\ signal' = "none"
                 /\ UNCHANGED <<fileVars, callVars, versionOf, queue, job, left,
                                lastReported, reported>>

-----------------------------------------------------------------------------
(* The workers are alike.  One that runs nothing and does not sleep comes  *)
(* to lock Mutex, and sleeps, takes the request at the front or returns.   *)
Running == {r \in Requests : job[r] \in {"started", "rebuilding", "report"}}
AtLock == WorkerCount - asleep - left - Cardinality(Running) > 0

Wait == /\ AtLock /\ queue = <<>> /\ ~done
        /\ asleep' = asleep + 1
        /\ UNCHANGED <<fileVars, callVars, versionOf, queue, job, signal, left,
                       lastReported, reported>>

WakeSpuriously == /\ asleep > 0
                  /\ asleep' = asleep - 1
                  /\ UNCHANGED <<fileVars, callVars, versionOf, queue, job,
                                 signal, left, lastReported, reported>>

Take == /\ AtLock /\ queue # <<>> /\ ~done
        /\ queue' = Tail(queue)
        /\ job' = [job EXCEPT ![Head(queue)] = "started"]
        /\ UNCHANGED <<fileVars, callVars, versionOf, workerVars, lastReported,
                       reported>>

Return == /\ AtLock /\ done
          /\ left' = left + 1
          /\ UNCHANGED <<fileVars, callVars, versionOf, queue, job, signal,
                         asleep, lastReported, reported>>

Job(r, from, to) == job[r] = from /\ job' = [job EXCEPT ![r] = to]

(* ReparseAndPublishDiags drops an outdated request without calling its    *)
(* continuation; a cancellation is not looked at.                          *)
StartJob(r) ==
  /\ \/ /\ kind[r] = "cancel" \/ versionOf[r] = version
        /\ Call(r)
        /\ Job(r, "started", "rebuilding")
     \/ /\ kind[r] = "rebuild" /\ versionOf[r] # version
        /\ Job(r, "started", "ended")
        /\ UNCHANGED fileVars
  /\ UNCHANGED <<callVars, versionOf, queue, workerVars, lastReported, reported>>

ContinueJob(r) == /\ job[r] = "rebuilding"
                  /\ Continue(r)
                  /\ UNCHANGED serverVars

(* The continuation is back, with diagnostics or without.                  *)
EndJob(r) == /\ pc[r] = "finished"
             /\ Job(r, "rebuilding", IF r \in diags THEN "report" ELSE "ended")
             /\ UNCHANGED <<fileVars, callVars, versionOf, queue, workerVars,
                            lastReported, reported>>

(* Mutant: without the comparison of versions.                             *)
ReportAnyway(r) == /\ Job(r, "report", "ended")
                   /\ lastReported' = versionOf[r]
                   /\ reported' = r
                   /\ UNCHANGED <<fileVars, callVars, versionOf, queue,
                                  workerVars>>

(* Under DiagnosticsMutex: report unless a newer version was reported.     *)
Report(r) ==
  /\ Job(r, "report", "ended")
  /\ \/ /\ versionOf[r] >= lastReported
        /\ lastReported' = versionOf[r]
        /\ reported' = r
     \/ versionOf[r] < lastReported /\ UNCHANGED <<lastReported, reported>>
  /\ UNCHANGED <<fileVars, callVars, versionOf, queue, workerVars>>

-----------------------------------------------------------------------------
Serve == AddDocument \/ ForceReparse \/ RemoveDocument \/ Destroy
Finish == DeferCall \/ Notify \/ AddToFront \/ NotifyWorkers
Loop == Wait \/ Take \/ Return
Work(r) == StartJob(r) \/ ContinueJob(r) \/ EndJob(r) \/ Report(r)

Next == Serve \/ Finish \/ Loop \/ WakeSpuriously \/ \E r \in Requests : Work(r)

Spec == Init /\ [][Next]_vars

(* The server's thread finishes its calls, workers get Mutex, and one that *)
(* runs a request goes on when it can.  Nobody has to change the document, *)
(* and no worker wakes without being notified.                             *)
FairSpec == /\ Spec
            /\ WF_vars(Finish) /\ WF_vars(Loop)
            /\ \A r \in Requests : WF_vars(Work(r))

-----------------------------------------------------------------------------
Quiet == /\ Idle /\ queue = <<>>
         /\ \A r \in Requests : job[r] \in {"none", "ended"}

(* Nothing is lost by dropping outdated and cancelled requests: when all   *)
(* work is done, an open document has diagnostics of its latest version,   *)
(* reopened or given another compile command meanwhile.                    *)
DiagnosticsCatchUp == Quiet /\ open => lastReported = version

(* The future that addDocument, removeDocument or forceReparse returned    *)
(* becomes ready: the workers never all sleep in RebuildCond.wait for a    *)
(* rebuild or a cancellation that is still queued, nor in RequestCV.wait   *)
(* beside a request, and no wakeup of either is lost.  Only the            *)
(* scheduler's destructor drops requests, and it returns: all workers that *)
(* it joins return, those that slept and those that were about to, and     *)
(* those that run a request or wait for another one's rebuild end it first.*)
EveryJobEnds ==
  /\ \A r \in Requests : job[r] = "queued" ~> job[r] = "ended" \/ done
  /\ done ~> left = WorkerCount

(* getAST().get() and getPreamble().get() return: the futures they wait on *)
(* become ready although most requests never set them, those of a CppFile  *)
(* that was removed or replaced too.                                       *)
FuturesBecomeReady == []<>(done \/ \A u \in Units : ASTReady(u) /\ PreambleReady(u))

(* Documented at the mutex in scheduleReparseAndDiags: diagnostics are not *)
(* reported in the wrong order.  When all work is done, those reported     *)
(* last are those of the newest rebuild.                                   *)
NewestDiagnosticsLast == Quiet /\ open => reported = made
=============================================================================
