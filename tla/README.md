# Verification of concurrent components of the LLVM tree

This tree is LLVM with clang, its tools, the run-time libraries, lld, lldb,
polly and the OpenRISC 1000 target. Almost all of it is sequential code that
transforms large data. What can go wrong in an order nobody tested is in a few
protocols between processes and between threads, and those are what this project
models: the file-system lock under the module cache, the module cache itself, the
locks and buffers of the run-time libraries, the thread pool, and clangd's
rebuild and scheduling machinery.

`PROJECT.json` lists the components, the runs, the line each definition
models, the mutant that breaks each property, the hazards and the theorems.

## 1. Inventory

| component | state | operations | what is hard | what makes it correct |
|---|---|---|---|---|
| `LockFileManager` (llvm/Support) | on disk: `F.lock`, `F.lock-XXXXXXXX`, `F`; per object: `Owner`, `ErrorCode`, the temporary file | constructor, `getState`, `waitForUnlock`, `unsafeRemoveLockFile`, destructor | several processes, one system call at a time; killed owners, reused pids, other hosts; removal by name; failing I/O | the lock file goes away with its owner; no temporary is left; the state an object reports agrees with what it holds |
| `compileAndLoadModule` and callers (clang/Frontend) | the cache entry; the loop's state | probe, lock, build, commit by rename, wait, read, retry | an owner that fails, dies or is overtaken; a second configuration with the same entry; retries | no import fails because of the cache; every import ends; an entry once complete stays complete |
| `__tsan::Mutex` (compiler-rt) | one atomic word | `Lock`, `Unlock`, `ReadLock`, `ReadUnlock` | readers announce themselves before they know whether they may enter | reader-writer exclusion; exact counting; readers get in |
| `__xray::BufferQueue` (compiler-rt) | ring of slots, `Next`, `First`, `LiveBuffers`, `Finalizing`, `MutexPtr` | `getBuffer`, `releaseBuffer`, `finalize`, `apply` | buffers come back in another order than they went; slots keep stale copies; `Finalizing` is read before the mutex is taken | each buffer in one place; nothing written is lost |
| `llvm::ThreadPool` | `Tasks`, `ActiveThreads`, `EnableFlag`, two mutexes, two condition variables | `async`, `wait`, the destructor, the workers | lost wakeups; a predicate that reads the queue without its mutex; tasks that submit tasks | `wait` returns, and only when all is done; every task runs |
| `clangd::CppFile` | `RebuildCounter`, `RebuildInProgress`, two promises with their futures, `LatestAvailablePreamble` | `deferRebuild`, `deferCancelRebuild`, their continuations, `RebuildGuard` | continuations run on any thread in any order, or never; requests arrive in the middle of a rebuild | one rebuild at a time; each promise set once, with the newest result; futures become ready |
| `ClangdServer`, `ClangdScheduler`, `DraftStore`, `CppFileCollection` | drafts with versions, `OpenedFiles`, `RequestQueue`, `Done`, `ReportedDiagnosticVersions` | `addDocument`, `removeDocument`, `forceReparse`, the scheduler's destructor; workers | workers all asleep while the request they wait for is queued; results out of order; two `CppFile`s for one document | diagnostics catch up with the document; every returned future becomes ready |
| XRay flight data recorder (compiler-rt), read by `Trace.cpp` (llvm/XRay) | `LoggingStatus`, `LogFlushStatus`; per thread: `Buffer`, `RecordPtr`, `LastTSC`, `LastFunctionEntryTSC`, `CurrentCPU`, two 8-bit counters, `BQ`; per buffer: the extents | `fdrLoggingInit`, `fdrLoggingFinalize`, `fdrLoggingFlush`, `processFunctionHook`, the custom event handler, the thread's destructor | hooks of many threads in the middle of finalize and flush; records taken back after they were written; deltas relative to records that are gone | extents say what was written and stay in the buffer; every buffer comes back; what is left in a buffer is a run of nested calls; times read back are those of the calls |
| `Parallel.cpp` | `Latch`, executor queue | `TaskGroup::spawn`, `sync` | nesting, shutdown | planned |
| tsan vector clocks | `ThreadClock`, `SyncClock` with a cached "dirty" tail | acquire, release, copy on write | caching and reuse of slots | planned |
| LTO cache and `pruneCache` | a directory shared by linkers | add, commit, prune | a file pruned while another process uses it | planned |
| `cxa_guard`, `call_once`, `shared_mutex` | a byte or a word, a mutex and condition variables | acquire, release, abort | exceptions in guarded code; two gates | planned |
| OpenMP locks | words per lock kind | acquire, test, release | ticket wrap-around, nesting | planned after the above |
| other sanitizer structures; lldb | — | — | — | not in the plan |
| compiler passes, front end, linker, tools | — | sequential | — | not in reach of TLC, see section 8 |

How they interact: clang's `compileAndLoadModule` constructs a `LockFileManager`
for each module it builds and shares nothing with other compilers but files.
`ClangdServer` owns a `CppFile` per open document, calls its `defer...` methods on
its own thread and gives the continuations they return to `ClangdScheduler`, whose
workers run them. The flight data recorder owns a `BufferQueue`, which its hooks
borrow from and which flushing walks over; nothing but the status word, the queue and
the extents of a buffer is shared between its threads. `ThreadPool` and
`__tsan::Mutex` are leaves that others use.

## 2. Modules

| module | models | built on |
|---|---|---|
| `LockFileManager` | the class, one action per system call, under its most general client | |
| `ModuleBuild` | `compileAndLoadModule` and its callers as the client | `EXTENDS LockFileManager` |
| `TsanMutex` | one action per atomic operation | refines `ReadWriteLock` |
| `ReadWriteLock` | abstract: a writer is alone | |
| `BufferQueue` | the ring; `getBuffer` in two steps | refines `BufferPool` |
| `BufferPool` | abstract: buffers lent and taken back | |
| `FdrLogging` | the hooks of all threads with the life of the log, by sizes only | `EXTENDS BufferQueue` |
| `FdrRecords` | one thread's records, and the reader | |
| `ThreadPool` | workers, client and destructor between their synchronisation points | |
| `CppFile` | critical sections of `CppFile::Mutex` | |
| `ClangdServer` | server thread, queue, workers, reports | `EXTENDS CppFile` |
| `MC...` | constants for TLC | the module of that name |
| `...Proofs` | theorems for TLAPS (`CppFile`'s are in `ClangdServerProofs`) | the module of that name |

Operators introduced by a comment "Mutant: ..." are deliberate errors: each stands
before the definition it would replace, and `PROJECT.json` says which property
then fails. They are no part of any specification.

### LockFileManager
`lockFile` is the process whose host and pid `F.lock` holds, `tmp` the processes
whose `F.lock-XXXXXXXX` exists, `file` the content of `F`. `owner` and `failed` are
the members `Owner` and `ErrorCode`. `pc[p]` names the next system call. The
constructor is the path `open, check, invalid, create, write, link` and, after
`EEXIST`, the loop `open, check, ...`; `p \in tmp` distinguishes the `readLockFile` of
the loop from the first one. `waitForUnlock` is `sleep, present | alive` and one of
three results. The destructor is `dropLock, dropTemp`. `getState` tests `Owner`
before `ErrorCode`, and `GetState` does too. `CanCrash` says who may be killed at any step;
`IOErrors` lets every I/O operation fail whose failure the code handles.

Two processes of one host never run with one pid, but `Start` may hand the pid
of a dead process to a new one, and `StillExecuting` then mistakes the new one for the
owner, as `getsid` does in the code.

### ModuleBuild
`step[p]` is the place in `loadModule`/`compileAndLoadModule`: probe the cache without
the lock, acquire, build, commit, read, leave the scope of the manager. Every
action conjoins a `LockFileManager` action with the client's step; the actions of the manager
itself stay as they are (`InManager`). `file` is the compilation that wrote the
cache entry, or `Stale`. `Fits(p)` is what the AST reader's validation decides:
entry not stale and built from the same configuration. A compilation that committed
keeps its own copy in the `PCMCache` and reads that, so `ReadAST` succeeds for it
whoever has replaced the file since, provided there still is a file.

### TsanMutex
`state` is the word. `Lock` is a compare-and-swap, then a loop of a load (`SeeUnlocked`) and a
weak compare-and-swap (`TryLock`), which may fail for no reason. `ReadLock` is a
`fetch_add` that enters or spins (`SeeNoWriter`).
The word is taken modulo `WordSize` (`Wrapped`), and `WordSizeAssumption` says that there are fewer
than half as many threads.

### BufferQueue
`slots`, `used`, `next`, `first`, `live` are the ring's members. `EnterGet` is the read of
`Finalizing` before the mutex, `Get`/`GetFails` the rest of `getBuffer`. `returned` is
history. TLC runs it inside `FdrLogging`, whose threads are its clients.

### FdrLogging
A thread's hook goes from one access of shared state to the next: `Begin` takes the
queue and loads the status, `LetGo` and `GiveBack` are the two places that release a
buffer because the log is over, `LookAgain` is the second load of the status with
`finalizing()`, `Turn` the release of a full buffer in `prepareBuffer`, `Ask`/`Lend` are
`getBuffer`, `SetUp` is the preamble, written only if the queue is not being
finalized by then (finding 2), and `Write` is the rest, which touches only the thread's own
data and its extents. `ptr[t]` is `RecordPtr` as an offset: it outlives the buffer when
a hook fails to get another one, as it does in the code. `bare` is history: buffers whose
user has written no preamble. Calls of the hooks after the destructor of the thread's
key has run are not modelled. Init, finalize and flush are one action for each atomic
operation on a status.

### FdrRecords
`tld` is the thread-local data with the records up to `RecordPtr`. Each hook is one
action, since only its own thread sees what it does: it advances the
time stamp counter, makes room, and then writes records or takes some back.
`rewindRecentCall` is the function of that name with its loop (`RewindTailCalls`); a failed assertion sets
`aborted`. `BaseTSC` is the reader's state in `Trace.cpp`. A record carries in `at` the time it
was made and in `own` the time of its own the call took that it ends, less its erased callees; the log holds
neither and only properties use them. Sizes are in units of
8 bytes.

### ThreadPool
A thread asleep on a condition variable is at an `asleep...` label; a notification
moves it to the label where it takes the mutex again, and it tests its predicate
from the start. Notifications outside the mutex are actions of their own. The
predicate of `wait` is two steps, `ActiveThreads` and then `Tasks.empty()`, because
the second is read without `QueueLock`.

### CppFile and ClangdServer
A request is a value of `RebuildCounter`; requests are numbered across all `CppFile`s, and
unit `u` is the `u`-th `CppFile` made for the document. A future is named by the request that made
its promise, and `preambleBy`/`astBy` say who set that promise. `Defer` is the critical section of
`deferRebuild` or `deferCancelRebuild`, `NotifyDeferred` the `notify_all` after it. A
continuation goes through `waiting`, `asleep`, `preamble`, `ast`, `leave`, `notify`.
`ClangdServer` conjoins those steps with the server's: draft store, collection of `CppFile`s, defer,
`addToFront`, `notify_one`; and a worker's: sleep in `RequestCV.wait`, take the front, drop the request if it is outdated, run
it, report under `DiagnosticsMutex`. A document that is opened again, and one whose
compile command changed, gets a new unit while the requests of the old one
are still running; `forceReparse` then defers a cancellation of the old one
and a rebuild of the new one (`todo`). `Destroy` is the scheduler's destructor: what is running ends, what
is queued is dropped. Workers are alike, so they are counted: those that sleep (`asleep`),
those that have returned (`left`), those that run a request (`Running`), and the rest come to lock `Mutex` (`AtLock`).
`signal` is the notification that the server's thread, behind its critical section, is yet to
send (`NotifyWorkers`); it wakes who sleeps at that moment.

## 3. Runs

Every run ends within three minutes on two cores; `FdrRecords` is the largest, with
890 thousand states, and `ClangdServer`, with its liveness, takes the longest.

| run | question | result |
|---|---|---|
| `ModuleBuild` | three compilers, two can be killed, a dead one's pid is reused; two configurations share the entry | no orphaned lock (`NoOrphanLock`); a committed entry stays complete (`CommittedStays`); no import fails (`NoSpuriousFailure`); every import ends (`EveryImportEnds`) |
| `ModuleBuildErrors` | two compilers; any I/O operation or build may fail, both can be killed | no temporary left (`NoTempLeak`); `StateIsCoherent`; a waiter never reports a failed read (`WaiterNeverBlamed`); every step is one the lock's interface allows (`Spec`) |
| `ModuleBuildExclusion` | can two compilers own the lock? | **yes**, finding 1 |
| `TsanMutex` | four threads, a word modulo 16 | `WordCounts`, `ChecksHold`, refinement of `ReadWriteLock`, `ReadersEnter` |
| `FdrLogging` | three threads, two buffers, four hooks; the log is finalized and flushed at any point, threads exit when they like | `EachBufferOnce`, `NothingWrittenIsLost`, refinement of `BufferPool` (`IsPool`) inside the recorder; extents of a buffer with a preamble are what was written and within it (`PreparedExtentsHold`; of the others see the next run); a hook after FINALIZED keeps no buffer (`LateHooksLetGo`); every buffer comes back for good (`BuffersComeBack`) |
| `FdrLoggingExtents` | are the extents of every buffer that flushing visits within it? | **no**, finding 2 |
| `FdrRecords` | six hooks of one thread: entries, exits, tail exits, arguments, events, migrations, pauses | records stay in the buffer (`WithinBuffer`); what is left is a run of nested calls that are still running or both begin and end in it (`LogMatchesCalls`); only calls short by themselves are erased, by their own exit or as pairs of entry and tail exit (`ErasedWereShort`); without tail exits and events no assertion of the rewinding fails (`PlainRewinds`); times decode in the first buffer if nothing was erased (`FirstTimesDecode`) |
| `FdrRecordsTimes` | are the times read back those of the calls? | **no**, finding 3 |
| `FdrRecordsTailCalls` | does the rewinding find the records it expects? | **no**, finding 4 |
| `ThreadPool` | two workers, three tasks, one of which is submitted by another | `WaitMeansDone`, `QueueIsQuiet`, `EachTaskOnce`, `CallsReturn`, `EveryTaskRuns` |
| `ClangdServer` | two workers, three requests for a document that is changed, closed, opened again or given another compile command; the scheduler may be destroyed | `OneRebuild`, `ReadyMeansNewest`, `SetOnce`, `GuardAsserts`, `DiagnosticsCatchUp`, `EveryJobEnds` (the destructor's join included), `FuturesBecomeReady` |
| `ClangdServerOrder` | are the diagnostics reported last the newest? | **no**, finding 5 |

`CHECK_DEADLOCK FALSE` is set where the system may stop: compilers exit, the pool is
destroyed, requests run out, threads exit. `TsanMutex` is checked for deadlock.

## 4. Bounds, and why they are enough

* **Processes: 3 (`ModuleBuild`), 2 (errors).** The hard cases of the lock need an
  owner that dies or is slow, one that removes its lock file and one that
  links meanwhile; three do all of that. Two are enough to reach every error path. The theorems
  lift the safety results to any number, and to processes on several hosts.
* **`MaxPolls` 1 or 2** for the 16 in `waitForUnlock`, which counts nothing else; a
  longer wait adds only repetitions of the same look at the same files.
* **Threads 4** for the mutex: two readers, a writer inside and a writer at the door are
  together possible. The theorems hold for every finite set of threads. **`WordSize` 16**
  instead of 2^64: four readers leave room in it, as any number of threads does in the code.
* **`FdrLogging`: threads 3, buffers 2, `MaxHooks` 4.** There are fewer buffers than threads, so
  that hooks fail to get one; the ring wraps, fills and empties. `Capacity` 13 is the
  smallest that takes a preamble, two CPU records and one hook; with `RecordSizes` 3 a
  buffer is full after its first hook, so four hooks turn buffers over and still meet
  finalize in each of their steps. `FreshExtents` 14, beyond the buffer, stands for whatever
  unset extents hold. `FdrLoggingExtents` starts with 0 instead, so that what it finds is not put in by
`FreshExtents`.
* **`FdrRecords`: `MaxHooks` 6, `MaxOdd` 1.** Two functions, calls that take 1 or 2 ticks
  against a `Threshold` of 4 and pauses of 4 and 6, below and above `MaxDelta` 5
  (2^32 - 1 in the code). `Capacity` 20 lets a buffer fill up within six hooks. `CounterSize` 4 instead of 256 makes
  the counters wrap around. `MaxOdd` bounds hooks that migrate, pause, log arguments or events: one each
  way is enough to separate the rest. `Swap` exchanges the two functions, which the
  specification treats alike. Events carry no data here: with data `RecordPtr` and the extents
  part at once (see section 7). `FdrRecordsTailCalls` needs nine hooks,
  keeps `CounterSize` at 256 and stops at three nested calls (the constraint `NestedCalls`), as
  deep as its counterexample goes.
* **`MaxSpurious` 2:** spurious wakeups for the pool; they only repeat a test.
* **Tasks 3**, so that a worker can be woken while the other submits.
* **`MaxRequests` 3, `MaxUnits` 2, `WorkerCount` 2:** a rebuild that runs, one that waits for it
  and one that cancels both; or a rebuild of an old `CppFile`, its cancellation and a
  rebuild of the new one. Requests are numbered once and never reused. The theorems lift the safety of
  rebuilds to any number of requests, units and workers.

## 5. Fairness

* `FairBuildSpec`: weak fairness of each compiler's own steps. The kernel schedules every
  process, a build ends, and nothing is assumed of kills or starts.
* `TsanMutex!FairSpec`: a reader's spin loop is scheduled and a critical section
  ends. Nothing is assumed of writers, and no writer is promised the lock.
* `ThreadPool!FairSpec`: workers, and the client inside a call; not its decision
  to call. A task ends.
* `ClangdServer!FairSpec`: the server thread finishes a call it began, its notification included; among the
  workers that are not asleep one gets `Mutex` (which of them is not said) and sleeps, takes a request
  or returns; and each running request goes on. A worker asleep in `RequestCV.wait` or `RebuildCond.wait` is promised no
  wakeup but by a notification: spurious ones may happen (`WakeSpuriously`) and need not.
  Nothing obliges the editor to send another change.
* `FairLogSpec`: each thread goes on, which means it ends the hook it is in and
  calls another one or exits. A buffer can only come back in a hook or at the exit
  of the thread that has it, so `BuffersComeBack` assumes that a thread does not
  compute for ever without a call of an instrumented function. The bound on hooks does not hide
  a thread that keeps its buffer: when hooks run out the exit is what is left.

## 6. Proofs

Eight modules named `...Proofs` hold theorems checked by TLAPS for all values of the
constants that satisfy the named assumptions in the modules they are about, each of which
TLC also evaluates.

**The lock.** `IInv` is `TypeOK`, the two safety properties and, for each process,
`Located`: what `owner`, `failed`, `polls` and `tmp` say at each label. It is needed
because `NoOrphanLock` alone does not survive `Link`: one must know that a process at
`link` has no owner, no error and a temporary file, so that it owns the lock
afterwards. From `IInv` follow `TypeCorrect`, `NoLockLeftBehind`, `NoTempLeftBehind` and
`Coherent`.

**The build.** `BuildImplementsSpec` shows that every step of the build is a step or stutter of the
lock's general client, hence `BuildLeavesNoLock` without another induction. `BInv` adds
that client and manager agree on where they are (`InStep`), that a waiter told of
success has a file to read for good (`SomethingToRead`, from `CommittedStays`' argument that nothing
removes an entry), and that without errors whoever reads without having waited
reads its own copy (`NoError`). From it follow `ImportsDoNotFail`,
`WaitersDoNotFail`, `CacheStaysFilled` and `BuildTypeCorrect`. None of them needs mutual exclusion, which the
lock does not give (finding 1).

**The mutex.** `IInv` is `TypeOK /\ WordCounts`; cardinalities are handled by lemmas
on what one step does to the sets of writers and counted readers. `Exclusion`
(no reader with a writer) is a second induction over it. From both follow `WordIsExact`,
`ChecksNeverFail`, and `Implements`, the refinement of `ReadWriteLock` with `reading` and
`writing` mapped to the threads inside.

**The ring.** `RingInv` (`BufferQueueProofs`) is `TypeOK` with: a thread has at most one
buffer (`Parted`), `first` is `next` plus the free slots modulo the size (`Joined`), the
free slots hold distinct buffers (`Distinct`), those and the lent ones are all buffers
(`Complete`), `live` counts the lent ones (`Counted`), and a free slot with a returned
buffer is marked used (`Marked`). A first lemma rewrites the indices without modulo. From it
follow `BuffersStayApart`, `LogIsComplete` and `RingIsPool`, the refinement of `BufferPool` with
the free slots' buffers as the pool.

**The recorder.** `LogUsesRing` shows that `LogSpec` implies the queue's `Spec`, so everything
proved of the ring holds in the recorder (`LogKeepsBuffers`). `LogInv` adds that only
a thread without a buffer asks for one (`Equipped`), that a thread with a buffer has a pointer
into it (`Pointed`), that whoever is about to write has room for the largest
hook (`Roomy`), and where a thread can be whose hook began after FINALIZED (`Tardy`).
`Roomy` is why `RecordPtr` stays within the buffer (`LogTypeCorrect`), and with `PreparedExtentsHold` itself
gives `ExtentsAlwaysHold`, for buffers with a preamble only (finding 2); `LateHooksAlwaysLetGo` follows from `Tardy`.

**Rewinding.** `RewindInv` (`FdrRecordsProofs`) has four parts. The buffer: counters count
records that are in it, every record takes at least a unit behind the preamble, and
`RecordPtr` is at most the size (`Kept`); it holds because whatever a hook does before its record leaves the
buffer alone or has the counters at zero (`Preparing`, `Stamping`), and because the loop over tail calls
never takes back more pairs than it has found. The calls: no callee ran longer than its caller
(`Nested`). The times: `LastTSC` and `LastFunctionEntryTSC` are not past the time from which
the innermost call's own time counts, and the deltas of the entries at the buffer's end lead back at
least to that of their callers (`Measured`); without this `OwnInv` below does not survive a rewind,
which moves both back by a delta. And, while there was no tail exit and no custom event, the counted
records are the entries of the innermost calls (`Innermost`). From it follow
`AlwaysWithinBuffer`, assuming that no event carries data, and `PlainAlwaysRewinds`.
Records have several shapes, so their sequence has no set of its own (`IsSeq`).

**The log.** Three more inductions over `RewindInv`. All use one account of what a hook
does: its record goes behind the records so far, behind one metadata record, or behind the metadata of a
buffer that has just begun (`Placed`), or the record of the call's entry is taken back, with pairs of
entries and tail exits before it (`TakesBack`).
* `LogAlwaysMatchesCalls` (`MatchInv`): the calls that a replay leaves open are the innermost running
  ones (`Ends`). An erased entry was the last call opened, and a pair opened and closed one (`MatchesUnpaired`),
  so erasing changes the replay as returning changes `calls`; an `Exit` closes the innermost call or, when its
  entry was in an earlier buffer, finds none open.
* `FirstBufferDecodes` (`FirstInv`): until something is erased the first buffer decodes, as a whole, to `LastTSC`.
  The first record's delta is 0 because the clock is past a delta's range when a thread starts, which `Init` says;
  in a second buffer `LastTSC` is older than the buffer's CPU record, and that is where the induction stops (finding 3).
* `WriterTypes` (`TypeInv`): from `LastTSC`, and while entries are counted from `LastFunctionEntryTSC` too,
  the deltas of the function records at the buffer's end never lead back past 0 (`Chain`). It is needed because
  rewinding subtracts one delta after another from both, which nothing in the code keeps from wrapping around.

**Short calls.** `OnlyShortCallsErased` (`OwnInv`, over `RewindInv` and `TypeInv`): a call that ended with a tail exit
took no more of its own than that record's delta, if the record is among those at the buffer's end that a rewind can reach
(`OwnLogged`; `Span` says how many those are). The loop over tail calls compares a time that
holds this delta with the threshold before it erases the pair (`PairsWereShort`); the call whose exit it is was compared
before, and by `Measured` its own time is no longer than the time compared (`OwnTakenBack`).

What folds over a log compute (`Replay`, `BaseTSC`, `Before`) is shown by induction
over its length, which needs no induction theorem: a set of numbers up to `m` has a greatest
element (`Greatest`, from the well-foundedness of finite sets), so one with 0 and
each successor has all of `0..m` (`UpTo`).

**The pool.** `PoolInv` (`ThreadPoolProofs`): each task is in one place and every submitted one is
somewhere (`TaskInv`), who holds which mutex (`LockInv`), `active` counts the busy
workers (`Counted`), and what is over once the destructor has begun (`CloseInv`). `WaitMeansDone` needs all of them:
between wait's two tests the queue cannot change, because a worker that takes a task
increments `ActiveThreads` under the mutex that wait holds (`QueueIsAlwaysQuiet`).

**clangd.** `ClangdServerProofs` first shows the four safety properties of rebuilds from one invariant:
requests are numbered in order and a unit's counter is its newest request (`Numbered`),
a promise belongs to one unit (`Promised`), whether a unit's futures are ready follows from
where its newest request is (`Staged`), and while a cancelled rebuild is under way the newest request
waits (`Ordered`). `ServerKeepsProtocol` then shows that the server
uses its `CppFile`s as their specification allows, whence `ServerRebuildsSafely` with
no further induction. `SInv` adds the server: versions grow with the requests
(`Versioned`), and an open document's newest request is a rebuild of its latest version, is not
dropped as outdated by its worker, and does not end without diagnostics once its AST is made
(`NewestReported`). The last needs the rebuilds' invariant: only a newer request cancels one, and there is
none. `Staffed` bounds the workers that sleep and that have returned, because only
one that is counted nowhere else (`AtLock`) begins to do either. From `SInv` follow `ServerTypes` and `LatestVersionIsReported`.

**Only model-checked:** all liveness (`EveryImportEnds`, `ReadersEnter`,
`CallsReturn`, `EveryTaskRuns`, `EveryJobEnds`, `FuturesBecomeReady`, `BuffersComeBack`), which the
installed provers cannot do. Every other property of a passing run is stated by a theorem, `WithinBuffer`
under the assumption above. TLC checks the strengthened invariants' parts only through
the properties that follow from them.

## 7. Findings

1. `LockFileManager.h:25-28`: a single process can create the lock file. `readLockFile`
   removes the lock file by name when it has found none, or a dead
   owner's; another process may have linked its own in between, and both then own
   the lock. Clang relies on the lock for performance only, and
   `ImportsDoNotFail` confirms that it is right to.
2. `xray_fdr_logging.cc:130`: `assert(BufferExtents <= B.Size)` for every buffer flushed. `setupNewBuffer`
   returns before it resets the extents when the queue is finalizing
   (`xray_fdr_logging_impl.h:224-225`), and the hook adds its records to whatever the buffer's last user left there.
   `getBuffer` had marked the slot used, so flushing visits the buffer and finds extents beyond its end; without
   assertions it writes out that much memory.
3. `XRayFDRFormat.rst:144-146`: a function record holds the ticks since the previous record
   that recorded a delta or a TSC. `LastTSC` is set to the exit's TSC
   (`xray_fdr_logging_impl.h:664`) before `rewindRecentCall` subtracts the erased entry's delta from it
   (`:397`), so the next delta is too short by the time between the entry and the exit.
   Also, the CPU record that starts a later buffer carries the current TSC (`:475`) and does not set
   `LastTSC`, so the reader counts the first delta twice. `FirstTimesDecode` says what is left.
4. `xray_fdr_logging_impl.h:81-82, 416-427`: `NumTailCalls` counts adjacent pairs of entry and
   tail exit. An entry does not reset it (`:323`), so pairs with entries between them are
   counted, and the rewinding loop meets an entry where it asserts a tail exit.
   Without tail exits and custom events the assertions hold (`PlainRewinds`).
5. `ClangdServer.cpp:567-568`: diagnostics are not reported in the wrong order. They
   are compared by document version, which `forceReparse` does not change, so
   those of the rebuild it overtook may be reported last.
   They exist because a rebuild that is overtaken while it builds its AST returns its diagnostics
   (`ClangdUnit.cpp:605-607`), where `ClangdUnit.h:194-196` promises `None`.

Smaller things seen while modelling, without a run: `xray_buffer_queue.h:141-143` says `apply` visits
buffers that were got and released, but `getBuffer` already sets `Used`
(`xray_buffer_queue.cc:58`), so it visits lent ones too, while their threads write; `fdrLoggingHandleCustomEvent` does not move
`RecordPtr` past the event's data (`xray_fdr_logging.cc:287-288`), which the next record overwrites; a failed
allocation leaves the status at INITIALIZING (`:327-333`).

## 8. Not modelled

Within the modelled parts:

* `LockFileManager`: a failing `make_absolute`, which precedes every state change; a
  failing `getHostID` in `processStillExecuting` (in the constructor it is one
  of the failures of `WriteTemp`); a temporary file that cannot be removed, which
  the code can only report.
* `ModuleBuild`: output written in place when no temporary file can be created; a
  crash of the build's thread after it has written the module file; cycles of imports and the
  global module index.
* `TsanMutex`: `InternalDeadlockDetector` (debug builds).
* `BufferQueue`: a failed constructor, and the destructor, which the recorder runs in no order of calls it allows.
* `FdrLogging`: `fdrLoggingReset`, which is declared and called nowhere; a queue that cannot be allocated;
  custom events and rewinding, which `FdrRecords` has; hooks after the destructor of the thread's key; signal handlers, which `RecursionGuard` turns away.
  `endBufferIfFull` compares with the start of the buffer and so never releases one after a record.
* `FdrRecords`: exits without an entry (functions entered before the log was on), a TSC that goes back
  between CPUs, and the data of custom events, which the next record overwrites.
* `ThreadPool`: builds without threads (`LLVM_ENABLE_THREADS=0`). `ThreadPool.h`
  calls it an error to add tasks while another thread waits; the model's tasks do, and the properties
  hold all the same.
* clangd: queries, synchronous mode (`AsyncThreadsCount` 0), spurious wakeups of `RebuildCond`, which only repeat a test (those of `RequestCV` are modelled),
  and removal of a document that is not open.

Left out altogether: IR, the optimiser, the code generators, clang's front end, the static
analyser, the formatting tools, lld and polly. They are sequential; their
correctness relates programs to programs, which no finite enumeration of small
inputs says much about. lldb's concurrency depends on what the operating system
and a remote stub answer. These are nearly all of the tree's four million lines, so the definitions
here, which stand for one or two thousand lines of the concurrent parts, cover a small fraction of
one per cent of it. That is what this project can honestly claim: of the tree's protocols the
most used ones, not the tree.

## 9. Plan

In this order: the most widely used protocols first.

1. **Done:** the modules of section 2 and the proofs of section 6.
2. `FdrRecords`: exits without entries, and what events with data leave of `WithinBuffer`.
3. `TaskGroup`: `Latch`, executor and nested groups of `Parallel.cpp`; liveness of
   `sync`.
4. `TsanClock`: `ThreadClock` and `SyncClock` refining plain vector clocks.
5. `CacheDirectory`: commits to and pruning of the LTO cache.
6. `GuardAcquire`, `CallOnce`, `SharedMutex`: the C++ run time's locks, with
   `ReadWriteLock` as the abstract specification of the last; then OpenMP's locks.
7. Proofs: the refinements of item 6, and what bounds the extents when events carry data.
