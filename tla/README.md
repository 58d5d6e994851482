# TLA+ models of go-astikit

go-astikit is a library of small Go tools. Most of its files are stateless
helpers; what is hard in it is a set of concurrency tools (`sync.go`, `io.go`,
`worker.go`, `defer.go`, `event.go`, ...) and what is built on them (`http.go`,
`exec.go`, the `ipc` packages). This directory models those tools in TLA+,
model-checks them with TLC on small instances, and proves their main invariants
with TLAPS for every value of the constants.

## Inventory

| Component (source) | State | Operations | What is hard | What makes it correct |
|---|---|---|---|---|
| `Chan` (`sync.go` 19-200) | buffer of funcs, context, `running`, a cond | `Start`, `Stop`, `Add`, `Reset` | three locks, a cond, restarts, re-entrant adds | no lost wake-up; one func at a time, in order, once; draining with `ProcessAll`; a stopped Start returns |
| `FIFOMutex` (558-604) | `busy`, queue of conds, inner mutex | `Lock`, `Unlock` | handing the lock over while the waiter falls asleep | exclusion, first come first served, every Lock returns |
| `GoroutineLimiter` (262-347) | count, context, a cond | `Do`, `Close`, the end of a func | newcomers that take the room of a woken Do; Close during waits | the limit holds, no room is lost, nothing starts after Close |
| `BufferedBatcher` (606-721) | set of items, context, a cond | `Start`, `Add`, `Stop` | items added during the callback; overlapping Starts | every item in exactly one next batch; one live callback |
| `Piper` (`io.go` 127-255) | list of chunks, `closed`, a cond | `Read`, `Write`, `Close` | timeouts, Close and writes around a waiting read | order, no lost wake-up, Close ends a read |
| `HTTPSender` (`http.go` 71-198) | retries left, the last answer | `Send` | retries against the end of the context | every body not handed over is closed |
| `HTTPDownloader` (`http.go` 356-620) | shared error, wait group, chunks kept, next chunk | `DownloadInWriter`, `DownloadInDirectory`, `DownloadInFile`, `Close` | bodies that come in any order, failures, Close | no error means everything in order; nothing goes on after the return |
| `BufferPool` (`sync.go` 227-260) | a `sync.Pool` | `New`, `Close` of an item | ownership of a buffer | a buffer that reached a callback is closed once, by its owner |
| `Eventer` (349-419) | handlers, a Chan | `On`, `Dispatch`, `Start`, `Stop`, `Reset` | Dispatch holds a mutex while Add may block | the handlers of an event run in order, nothing of another event between them |
| `Worker`, `Task` (`worker.go`; `ServeHTTP`, `http.go` 30-65) | wait groups, onces, a context | `Stop`, `Wait`, `NewTask`, `NewSubTask`, `Do`, `Done`, `HandleSignals` | subtasks created around a Wait, Done called early or twice | a worker's Wait returns after its tasks and what they started |
| `ExecHandler` (`exec.go`) | context, `err`, `stopped` | `ExecCmd`, `Stop`, `Status` | order of cancel, stopped and err, no lock | a status is one the command had |
| `Closer` (`defer.go`) | list of funcs, two mutexes, `closed` | `Close`, `Add`, `Append`, `NewChild`, `Do`, `OnClosed` | adds during Close, lock order of Append and of children | every added func is called once, nobody is stuck |
| `EventManager` (`event.go`) | handlers by event | `On`, `Off`, `Emit` | handlers removed during an Emit | handlers are called in order, none that was off |
| `Cache` (`cache.go`) | items, size | `Get`, `Set`, `Delete` | accounting of the size | the maximum holds, the least recently used go first |
| `Limiter` (`limiter.go`) | buckets, counts, tickers | `Add`, `Inc`, `Close` | late ticks | a bound on what passes within any period |
| `Stater` (`stat.go`) | stats, last values, a context | `Start`, `Stop`, `AddStats`, `DelStats`, values | restarts, ticks in the middle of a measure | what is measured is reported once |
| IPC (`ipc/systemv`, `ipc/posix`) | segments, semaphores, keys, names | writer `Write`, reader `ReadBytes`, `Close` | segments replaced when they grow, keys used again, crashes, failures under a lock | a reader gets whole bytes, at least as new as its options, unless their key or name was used again |
| PCM converters and silence detector (`pcm.go`) | buffers, counts | `Add`, `Reset` | boundaries between frames, steps and Adds, a func that fails | agreement with a definition without state |
| `BitsWriter` (`binary.go`) | a byte in the making | `Write`, `WriteN`, `WriteBytesN`, the batch | integers across bytes, a writer that fails | the bits out are the bits in |
| `BytesIterator`, `BiMap`, `Stopwatch`, `Errors`, `AtomicDuration` | little | one critical section or one caller each | boundaries | - |
| `logger.go`, `template.go`, `archive.go`, `ssh.go`, `os*.go`, `translator.go`, small helpers | - | I/O, formatting | - | - |

How they interact: `HTTPDownloader` calls `GoroutineLimiter.Do`, `HTTPSender.Send`
and the `BufferPool`; `Eventer` owns a `Chan`; `ExecCmd` and the HTTP server
helper create `Task`s of a `Worker`; the rest is used on its own by clients of
the library. Everything is called concurrently by clients, so each model lets
any call come at any time, from funcs and callbacks as well: a call made inside
a func is one of the interleavings.

## Plan

In this order, each stage with its runs, mutants and theorems:

1. (done) The blocking tools: `FIFOMutex`, `Chan`, `GoroutineLimiter`,
   `BufferedBatcher`, `Piper`; abstract specifications `FIFOLock` and
   `SerialQueue`; type and safety theorems, and both refinements.
2. (done) `HTTPDownloader`, composed of `GoroutineLimiter` and `HTTPSender`.
3. (done) `Worker` with its tree of `Task`s, `ExecHandler` on top of it, and both
   composed with signals and servers in `WorkerTasks`. `Closer` with children.
4. (done) The IPC writers and readers, with crashes and failing system calls.
5. (done) One module per small tool: `EventManager`, `Cache`, `Limiter`, `Stater`,
   `BitsWriter`, `PCM`, `SilenceDetector`, checked together by one run.
6. (done) `Eventer` as a client of `SerialQueue`, which `Chan` implements.
7. (done) Proofs about the composed modules: `BufferedBatcher`, `Worker` with
   `ExecHandler` and `WorkerTasks`, `HTTPDownloader`, `Posix`, `Closer`, `SystemV`.
8. (done) Proofs about the small tools: `EventManager`, `Eventer`, `Limiter`, `Cache`,
   `Stater`, `SilenceDetector`, `BitsWriter`; and the action property
   `DrainsBeforeReturning` of `Chan`. None of these modules declares a RECURSIVE operator.

## The modules

| Module | Models | Checked by | Proved in |
|---|---|---|---|
| `FIFOMutex`, abstract `FIFOLock` | `sync.go` 558-604 | `fifo_mutex` | `SmallTools_proofs` |
| `Chan`, abstract `SerialQueue` | `sync.go` 19-200 | `chan`, `chan_filo_loses` | `Chan_proofs` |
| `GoroutineLimiter` | `sync.go` 262-347 | `goroutine_limiter`, `limiter_close_hangs` | `GoroutineLimiter_proofs` |
| `BufferedBatcher` | `sync.go` 606-721 | `buffered_batcher` | `BufferedBatcher_proofs` |
| `Piper` | `io.go` 127-255 | `piper`, `piper_timeout_hangs` | `Piper_proofs` |
| `HTTPSender` | `http.go` 71-198 | `http_downloader` | `HTTPDownloader_proofs` |
| `HTTPDownloader` (instantiates `GoroutineLimiter` and `HTTPSender`) | `http.go` 356-620 | `http_downloader` | `HTTPDownloader_proofs` |
| `Worker`, extended by `ExecHandler`, extended by `WorkerTasks` | `worker.go`, `exec.go`, `http.go` 30-65 | `worker` | `Worker_proofs` |
| `Closer` | `defer.go` | `release` | `Tools_proofs` |
| `SystemV` | `ipc/systemv/systemv.go` 40-447 | `release` | `Tools_proofs` |
| `Posix` | `ipc/posix/posix.go` 29-296 | `release` | `Tools_proofs` |
| `Eventer` (extends `SerialQueue`) | `sync.go` 349-414 | `small_tools` | `SmallTools_proofs` |
| `EventManager` | `event.go` | `small_tools` | `SmallTools_proofs` |
| `Limiter` | `limiter.go` | `small_tools` | `SmallTools_proofs` |
| `Cache` | `cache.go` | `small_tools` | `SmallTools_proofs` |
| `Stater` | `stat.go` | `small_tools` | `SmallTools_proofs` |
| `BitsWriter` | `binary.go` 13-302 | `small_tools` | `SmallTools_proofs` |
| `Sorting` (used by `EventManager` and `Cache`) | `sort.go` 15-23 | `small_tools` | `SmallTools_proofs` |
| `PCM` | `pcm.go` 66-265 | `small_tools` | - |
| `SilenceDetector` | `pcm.go` 267-426 | `small_tools` | `SmallTools_proofs` |

`MC*.tla` extend a module with model values; each `.cfg` is one run. A definition
marked `mutant:` is a faulty form of the one that follows it, with which the
properties are tested: each property is violated by one of them. `Tools_proofs` gathers
the proofs about the tools that the run `release` checks one at a time; it says nothing
of several of them together. `SmallTools_proofs` does the same for `FIFOMutex` and the
tools of the run `small_tools`.

### Conventions

A goroutine is a value of a `pc` function that names the place it has reached in
the code; an action is one critical section, or one access to shared state
outside any. A critical section that contains no blocking call is one step, since
nobody sees it half done; a lock that is held across a wait is a state of its
own (`m` and `condLocked` of `FIFOMutex`, the `check` state of `Chan`, the
`empty` state of `Piper`, `leaked` of `GoroutineLimiter`).
`sync.Cond.Wait` is two steps: it registers the goroutine and unlocks in one go
(`parked`), and returns once it is signalled (`woken`) and has the lock again.
`Signal` wakes one goroutine that is parked, any one, and does nothing when there
is none; that is where wake-ups get lost. A context is the identity of the call
that created it, in a set `cancelled` once it is done; the watching goroutine of
`Start` or `Read` is a small state machine of its own.

**FIFOMutex.** `pc`: `idle`, `locking` (in Lock, before `m`), `enqueued` (cond
created, locked and queued, before Wait), `parked`, `woken`, `cs`, `unlocking`,
`signalling` (holds `m`, wants the head's cond), `popping`. The cond in
`waiting` stands for its goroutine. The mapping to `FIFOLock`: the holder is the
goroutine from its grant (the signal) to its Unlock; the queue is `waiting`
without the head that was signalled and not yet removed.

**Chan.** The options are a variable `o` that is chosen at the start and never
changes, so that one run covers several kinds of chans. A func is a value; `executed` is a
history. `check` is the stretch of Start with the cond's lock held. The length
read and the func read are locals (`seen`, `fn`) because the buffer can change after.
`Panic` is what the runtime does on an index out of range, and on a wait group that is
done twice (a func of a blocking Add that FILO order executes again): the program ends,
and `Alive` disables everything. The mapping to `SerialQueue`: the funcs not yet taken
are the buffer without the func being executed, and that applies to chans in FIFO
order that nobody resets (`Ordered`); the mapped state of others stays initial.

**GoroutineLimiter.** `pc` follows a call of Do and then the goroutine it starts.
`Refuse` is the early return that keeps the lock: from then on `leaked` disables
every step that needs it.

**BufferedBatcher.** `owed` is a history: the items added since a batch took them.
`Stop` forgets the context, which lets a second Start run beside the first.

**Piper.** One reader, as the type asks for in its doc. `timer[r]` is the context
of the r-th Read with the goroutine that watches it; a timer of an earlier Read
may still signal a later one, as in the code. A chunk is a value and a read takes
it whole: the destination is assumed to be as long as the chunk.

**HTTPSender and HTTPDownloader.** The client is external: it answers, well or
badly, or fails in a temporary or a permanent way. A src is a call of `Do` in the
limiter's variables and a call of `Send` in the sender's, and the actions of the
downloader conjoin theirs with what the func does. The loop of `download` is in Do
exactly while the limiter has a call of its in progress. The callback of a writer
is one step because it holds the mutex `m` of the download throughout; how many of
the chunks that are due it copies before a copy fails is left open. `do` takes its buffer
as soon as it has an answer, and only a callback or the end of the download closes one:
a buffer whose response or copy failed is `lost` to the pool. `err` is a
Boolean: it is never reset, and a race on it can only change which error is kept.
Two srcs of a directory that have the same base name overwrite each other in the
code; the model gives each a file of its own.

**Worker, ExecHandler, WorkerTasks.** A task is a value, `wg` the counter of each
group. `pc` of a task is its goroutine in `Do`, or `new` while somebody holds it by
hand. `waits[g]` is the `sync.Once` and the `WaitGroup.Wait` of a group: `parked`
until the count is zero, then `released`, then `over`; a count that was used again
between the last two is the panic "WaitGroup is reused", and ends the program. `late`
is the set of tasks that were created after the release of their group, and
`unbound` the set of those that the caller marked done by hand before their own
group was waited for: what a Wait may not promise. A command is a task with a
process, a server a task with the goroutine of `ListenAndServe`, which is seen to
stay blocked on `done` for ever when the worker is stopped first. `asof` notes what
was over when a call of Status began, as Status reads three fields one by one.

**Closer.** A goroutine is a stack of frames, because Close calls funcs that may be
the Close of a child, and the fn of Do may call Add: the innermost frame runs. A func
is added by one call each; NewChild is the Add of a Close. An Add or an Append that
overlaps the calls of a Close may be lost or called again, as the code resets the list
without `mf`; such closers are `raced` and outside of `CallsEach`.

**SystemV, Posix.** A segment, a semaphore or an object is an entry of a table that
never shrinks, in the order of creation, which stands for `UnixNano`; a key or a name
finds the entries that are still live. A handle is `open`, `closed`, or `dangling`
when `shmctl` failed after `shmdt`. The copy of a write is two steps, so that a read
may see it torn. Close, which takes no lock in the code, comes between two calls.
A crash drops the writer's memory, not what the kernel keeps. `segv` is who copied from
or to an address that is not mapped, after which nothing happens; `exposed` is a history
of who may: a writer that kept a dangling handle through a failed creation, a reader that
comes back to the options of such a handle (`ComesBack`), and whoever
was closed before it had a semaphore. Readers use any options that were ever sent, in any
order. A segment has a size, and notes under which semaphore it was written. In POSIX nothing
orders a copy with a write of the same object: a copy is one step, and what a caller
reads while the writer writes is up to how it passes the options on.

**Eventer** works on the abstract `SerialQueue` instead of a second copy of `Chan`:
`Take` and `Finish` are the execution of a func, `Put` an Add. **Limiter** has a clock
of integers: an Inc
happens at an instant, a tick of the ticker may wait for its goroutine, and the
goroutine may stop with a tick in its hand before it gets the lock of the count. **Cache** gives
each item the time of its last use; a sum of sizes is the number of units of the items it
is over.
**Stater** keeps values as amounts and the ticks as any two,
with or without time between them. **BitsWriter**, **PCM** and **SilenceDetector** go
over what one call is given, step by step as the loops of the code, and their
properties compare with definitions over the whole input that know of no state. The
loops of the first and the last are recursive functions of the number of turns, those of
`PCM` folds. The `|` of the cache of `BitsWriter` is a sum, since the bits it joins never
meet, and a shift is a product or a quotient by a power of 2 in a byte.

## What the runs show

| Run | Bounds | Properties |
|---|---|---|
| `fifo_mutex` | 3 goroutines, for ever | `NoLostHandoff`; `ImplementsFIFOLock` (exclusion, first come first served); `EveryLockReturns`; no deadlock |
| `chan` | 2 funcs, 2 Starts, 3 kinds of options | `NoLostWakeup`; `ImplementsSerialQueue`; `DrainsBeforeReturning`; `CancelledStartReturns`; `AddedFuncRuns` |
| `goroutine_limiter` | 4 calls, limit 2 | `AtMostLimit`; `NoRoomLost`; `DoRuns` |
| `buffered_batcher` | 2 items added twice each, 2 Starts | `NothingLost` (an item is in exactly one next batch, one callback lives); `NoStrandedBatch`; `StoppedInCallbackReturns` |
| `piper` | 2 chunks, 3 reads with timeouts | `InOrder`; `NoLostWakeup`; `CloseEndsRead` |
| `http_downloader` | a writer of 2 srcs and a directory of 1, limit 2, 1 retry | `Complete` (no error means all, in order); `NothingBehind` (after the return nothing runs, no body is open, every buffer that reached a callback is closed); `DownloadReturns` |
| `worker` | 2 tasks of a caller, or 1 beside the signals, a server, or a command beside the signals | `StatusIsTrue`; `NothingOutlives`; `WaitEnds`; `TermStops` |
| `release`, tool `closer` | 2 goroutines with 3 and 2 calls, a closer and a child, 2 funcs | `CallsEach`; `DoProtects`; `NobodyStuck` |
| `release`, tool `systemv` | 3 writes of 3 sizes, 2 keys, 1 reader, 1 fault | `ReadsAreWhole`; `NeverDangling`; `ReadReturns` |
| `release`, tool `posix` | 3 writes of 3 sizes, 2 writers one after the other, 1 reader | `PosixFresh` |
| `small_tools`, one tool at a time | 3 handlers and 2 Emits each of 2 emitters; 2 Dispatches of 2 dispatchers, 2 Ons per event, all options; a bucket of cap 1 over 3 periods; 6 calls of a cache; 3 ticks and 2 Starts of a stater; 3 writes of 9 kinds of inputs; 37 conversions of 6 samples; 13 samples in chunks of up to 9 | `EmitCallsInOrder`; `DispatchesInBlocks`, `DispatchReturns`; `WindowBounded`; `CacheIsLRU`; `RatesTelescope`; `BitsInOrder`; `FramesKept`; `RunsFramed` |

`release` and `small_tools` check independent tools: a variable `tool` chosen at the
start says whose actions happen, and the others are at rest. Each property is about one
tool, and its states are those of a run of that tool alone.

Type invariants are part of these invariants (`NothingLost`, `Complete`, `CallsEach`,
...) rather than properties of their own. `MutualExclusion` of `FIFOMutex`,
`NeverPanics` of `Chan` (without Reset, and without FILO order or blocking Adds),
`NoStartAfterClose` of `GoroutineLimiter` and `CopyHasChunk` of `Piper` are proved for every value of the constants and not run.

Why the bounds are enough for what the properties tell apart: three goroutines
are an owner, a head of the queue and one behind it, the least with which
overtaking and a wrong end of the queue show. Two Starts and two funcs are the
least for a restart, for an order and for an Add during an execution. A limit of
two with four calls has two running, one that was woken and one newcomer, which
is the race for a room. Adding each item twice puts one in the batch being
processed and in the next. Three reads let a timer of an earlier read signal a
later one. Two srcs in a writer can come in either order and be due at once, and
the third src competes for the limiter from another download. Two tasks of a caller
can be parent and child, or siblings of which one is created late; a group below a
subtask adds no step that they do not have. Two goroutines on a closer with a child
can cross in Close of the parent, Close of the child, Add, Append and Do; three and
two calls are an Add, a Close and one more beside two. Three writes of three sizes
replace a segment twice, and with two keys the third has to take a key again; a
second reader would only wait for the semaphore as the first does. It takes a fourth
write for the writer to copy to where its segment was (see below): TLC then reaches that
state, in more time than a run of the project should take, and the theorem about
`NeverDangling` holds for any number of writes. A bucket is emptied
late and then soon again within three periods. Three handlers leave an order after one
is switched off. Three writes of bits put every number of bits from 1 to 7 in the cache
before a byte, a slice or an integer. Rates of 2, 3 and 5 have whole and broken
ratios up and down, over one to six frames, and each of the first three calls of the
sink may fail. Thirteen samples, in every partition into chunks of up to nine, make
six steps: two silences of two with something between them, and a chunk that
finishes four steps at once.

Some runs say `CHECK_DEADLOCK FALSE`: there the system may really stop, because the
bounded calls are over or, in the violation runs, because it hangs.
`fifo_mutex` has no bound and its deadlock check is on.

### Fairness

A goroutine that can run runs (weak fairness of the steps of each call). A func,
a callback and an HTTP exchange end. Timers that are armed expire. Where several
goroutines compete for one `sync.Mutex`, the step that takes it gets strong fairness
(`FIFOMutex`, `GoroutineLimiter`), as the starvation mode of `sync.Mutex` hands the
lock over to a waiter after a millisecond. Clients never have to call anything,
except that holders of a `FIFOMutex` unlock it. `HTTPDownloader` needs less: every
call of it ends after finitely many steps, so it is enough that some goroutine that
can run does.

`worker`: goroutines run, the funcs of the caller return, a task that was created is
given to Do or marked, and a process that accepted to stop ends; nothing makes a process
end by itself. The end of the context gets strong fairness against signals, since a
`select` picks at random among what is ready. `ReadReturns`: steps of a call are taken,
with strong fairness as the kernel queues those that wait for a semaphore.
`DispatchReturns`: the dispatchers and the goroutine of Start run, and `mh` is a
`sync.Mutex`. `Closer` has no liveness property: its calls are finite, so what could go
wrong is that all of them wait, and `NobodyStuck` says, as an invariant, that some
goroutine inside a call waits for no mutex. `Waits` negates the guards of the steps of a
call one by one: a call that does not wait has a step to take.

### Disagreements between code and text

Three runs end in a violation, on purpose; each checks what a comment, a doc or a
test says:

- `chan_filo_loses`: with FILO order and `ProcessAll`, a func added during an execution
  is removed in place of the executed one, which is then executed again
  (`sync.go` 134-136 against 54).
- `limiter_close_hangs`: a Do refused after its wait keeps the lock (`sync.go` 323-325),
  and the others that wait never return.
- `piper_timeout_hangs`: a timeout between `io.go` 195 and 200 signals nobody, and the Read goes
  on waiting.

Others were met while modelling and have no run of their own:

- `sync.go` 664 against `sync_test.go` 298-299: as in `Piper`, a cancellation between the
  test of the context and the lock of the cond signals nobody, and the Start of a batcher
  never returns. `StoppedInCallbackReturns` covers the stops that do work.
- `sync.go` 191 against 21-22: a blocking Add waits for its func also when the chan
  is not started, or was cancelled and dropped it.
- `sync.go` 154 and 176 against 55: a func can be added after the cancellation, when
  that comes between the test and the append.
- `sync.go` 53 says that funcs not processed when the context is cancelled are dropped;
  they stay in the buffer and the next Start executes them.
- `sync.go` 126 and 136: a Reset between two steps of Start makes it index or slice an
  empty buffer (`Panic` of `Chan`).
- `sync.go` 145: a Stop that comes before Start has created its context is lost.
- `sync.go` 719: after Stop and a second Start, the single signal of an Add may go to
  the first, which returns, while the second waits beside the item.
- `http.go` 474: the error of Do is ignored, so that a download whose limiter is closed
  waits for ever for a func that was refused. `DownloadReturns` therefore says "unless
  the downloader is closed".
- `http.go` 585: after a failed copy later chunks are still written, behind the hole; the
  download then returns the error.
- `http.go` 428-440: the buffer is taken before the response is looked at and the body is
  copied, and when either fails it is never closed: the pool allocates another. Only the
  callbacks close buffers. `NothingBehind` bounds the loss to downloads that return an error.
- `http.go` 128 and 163: the context of a request's timeout is cancelled before the caller
  reads the body, and a retry sends the body reader that the first attempt has consumed.
- `http.go` 43: the goroutine of `ListenAndServe` stays blocked on `done` for ever when the
  worker was stopped first.
- `exec.go` 80-95: the end of the worker kills the process without setting `stopped`, so that
  its status is "crashed"; 74-77: after a failed start the status is "running" until the
  worker stops.
- `worker.go` 145: a task created after its group was waited for is not waited for, or makes
  the WaitGroup panic.
- `defer.go` 48: an Add that overlaps the calls of a Close is lost; 83-84: two Appends in
  opposite directions deadlock.
- `systemv.go` 322-337: a failed write returns with the semaphore locked. 174: the Close of a
  reader removes the segment and the semaphore of the writer. 416: a reader keeps its semaphore
  when the writer is replaced by one with another, and may then read bytes that are being
  written.
- `systemv.go` 399-412 and 438-439: when the key of old options was used again the reader
  opens the new segment: before its first write it reads bytes that no write wrote, and if
  that segment is smaller than the size in the options it copies from behind its end.
- `systemv.go` 173-182 and 282-298: a reader with old options removes the writer's new segment
  when the key was used again; the next, larger write cannot remove it a second time, keeps
  the handle, and if no segment can be created keeps the old size as well. A later write that
  fits copies to an address that is not mapped. The same happens after a `Close` of a writer
  or a reader that has a segment and no semaphore yet. And a reader whose handle dangles,
  and whose next open failed, still has the key and `shmAt` of the segment it detached:
  options of that segment make it copy from there (399). `NeverDangling` excepts these
  three cases by name (`exposed`); the first was found when its proof failed.
- `posix.go` 277: a writer that restarts with the same prefix may use a name again, and a
  reader that still has the old object mapped reads old bytes; 294: a closed reader, or one
  that comes back to the options of the object it closed for one it could not open, copies
  from address 0. This takes no restart. `PosixFresh` excepts the three by name.
- `cache.go` 93 and 73: after a Delete the size still counts what is gone, and a Set may index
  an empty slice; a Set does not replace an item with the same key.
- `event.go` 64: a handler switched off meanwhile is called by an Emit in progress, and one that
  asks for its deletion may be called by two Emits.
- `sync.go` 385: with blocking Adds, a handler that calls On waits for ever for the Dispatch that
  waits for it.
- `limiter.go` 86-98: up to four times the cap may pass within a period: what is left, and what
  a tick in hand, one in the channel and that of the period free; the bucket that Add
  returns after its Close is never emptied.
- `stat.go` 131: a Stop before Start has created its context is lost; 228: an average whose count
  has not changed drops the amount.
- `pcm.go` 165-185: once the func failed on the way up every frame fails until Reset; 404-409:
  the count of a leading silence that was too short goes on.

## What is proved

Each `*_proofs` module proves `Spec => []Inv` from an inductive invariant: the initial
states satisfy it, every step keeps it, and it implies the property.

- **FIFOMutex** (assumption: the owner of a free mutex is no goroutine). `IInv` says
  that there is one owner exactly when `busy`, that `m` is held only while the head is
  signalled and removed, that the queue holds without repetition those that wait, and
  that a waiter in `enqueued` has its own cond locked. `NoLostHandoff` is not inductive
  on its own: that the signal finds the head parked needs the lock of the cond to be
  free, hence the head not in `enqueued`. Theorems `Typing`, `Exclusion`, `Handoffs`, and
  `Refinement`: every step is one of `FIFOLock` or leaves holder and queue alone.
- **Chan** (for every set of options). `IInv`: one Start at a time is past the
  CompareAndSwap, the context is its own, its watcher has not signalled before the
  context is done, and whoever put a func into a buffer that Start saw empty has yet to
  signal. From it `NoWakeupIsLost`. `QInv` adds that what Start saw in the buffer is still
  there unless the client resets it. `OInv` adds that in an ordered chan the func
  in hand is the head and that no func of the buffer was executed but one that is being
  removed (`Fresh`): `NoPanic`, and `Refinement` of `SerialQueue`. `DInv` adds what becomes of a func:
  one that was put and signalled is in the buffer or executed (`Kept`), only an executed one
  is removed (`RemovesExecuted`), and a Start that read an empty buffer with the lock of
  the cond held has executed all of them (`SawAllExecuted`): `DrainsFirst`.
- **GoroutineLimiter** (the number of calls is finite): `busy` is the number of funcs
  that run (`CountsRunning`, with the facts on cardinalities of the library). `Bound`,
  `RoomIsUsed` and the action property `ClosedStartsNothing`.
- **Piper**: the reader in hand of the cond's lock saw an empty buffer, and whoever
  changed that has yet to signal. `Order`, `NoWakeupIsLost` and `ChunkIsThere`.

- **BufferedBatcher** (assumption: the bounds are numbers). What has to be added to
  `NothingLost` is who serves: a Start at work was stopped or has the context of the
  batcher (`Serving`), so that two at work are one that was stopped and one that was not,
  and its watcher lives (`Watched`), without which the end of a context would leave it
  asleep. `NothingIsLost` and `NothingIsStranded`.
- **Worker, ExecHandler, WorkerTasks** (the tasks are finitely many, and a task is at most
  one of command, server and signals). The counts are cardinalities: `wg[g]` is the number
  of tasks of g that nobody marked, plus one for a worker that was not stopped (`Counts`).
  From it, whoever still owes a `Done` to a released group was created after the release
  (`Released`). Tasks are not created in a circle (`Founded`), which makes `Covered`
  the function its recursive definition describes and gives the induction over the depth of
  a task: of the covered tasks that are not done the one next to the root would have a
  group that is over. `CmdInv` and `StatusInv` say how the three fields of a status relate and what
  a Status in progress knows of the past. `NothingIsLeft` and `StatusIsRight`.
- **HTTPDownloader** (finitely many downloads, each of a number of srcs). The wait group is
  the number of srcs the loop has not come to or whose func has not reported
  (`CountInv`), a func sends once and closes its body (`SendInv`), the chunks kept are those
  from the required one on that came, each with its buffer, which nobody else holds (`BufInv`),
  and as long as nothing failed the writer has exactly the chunks before the required one
  (`OrderInv`), and not the required one: it stops at the first that has not come, which is
  the least of a set of numbers. So when all have come `required` is past the last src, which is
  `NoBodyMissing`. `NothingGoesOn` follows from the count.
  `UsesLimiter`: every behaviour is one of `GoroutineLimiter`, so that its
  theorems, for one the limit, hold under the downloads.
- **Posix** (sizes are positive). `PosixIInv` splits the objects at a number b into those of
  earlier writers and those of this one, whose names grow and of which a name that is linked
  means one; its options name them in order; and a reader that only met this writer has one
  of them mapped, the one its options name when it copies, unless it was closed or came back
  to a name it had closed (`shut`, `back`). `ReadsAreFresh`.
- **Closer** (any set of goroutines, closers and children; `Appends` any relation). A stack
  of frames is described frame by frame: who is in Do or in the calls of Close holds `mc`,
  and no other frame of anybody does (`StackOf`), which is `DoIsProtected`; the error of a
  Close is in one of its frames until it returns (`ErrorsOf`); and what was added and not
  yet called is the copy that Close or Append has in hand, or else the list (`CountOf`), for
  closers that no Add raced. `EachIsCalled`. Lemmas say what a step does to a stack
  (`Moved`) so that each action is argued on the frames it changes.
  `NobodyIsStuck` needs two more invariants: who holds a mutex is in a call that keeps it
  (`HeldInv`), and the closers have a depth, where what is added to one is deeper
  (`DepthInv`: a child is created by the call that adds it, so there is always room for
  one more; in a stack only the Close of something deeper is above a Close, and only an Add
  above a Do). Were all calls waiting, each `mf` would be held by an Append waiting for
  another, in a circle; so only `mc` is waited for, and who holds the deepest of those
  waits for a deeper one. The theorem assumes `AppendsOneWay`: no circle of Appends, since
  two in opposite directions do deadlock, and none to a child, which would make it
  call the Close of its own parent if that was among the funcs. `MCRelease` assumes the same
  of its instance, and TLC checks it.
- **SystemV** (the writer is no reader; sizes are positive). `SystemVIInv`: of the segments with
  one key only the last can be found (`SegInv`), which makes a stale key lead to a later
  segment and never to an older one; a segment in the middle of a write is kept by the
  semaphore it is written under; what options name is there, large enough, and whatever was
  written to a later segment was written later (`SentInv`); and the handles of the writer and
  of each reader (`WriterAt`, `ReaderAt`) say that a handle that dangles has lost its
  semaphore, is not the one of the options at hand, or is exposed.
  `ReadsStayWhole` and `MemoryIsMapped`. The steps are proved by rely and guarantee: `Grows` is what a step of one process does to what the others say.

- **EventManager** (any sets of emitters and names). What an Emit will have called is what it
  called and what is left of its snapshot, without the handler at hand when that was
  switched off (`Due`). It is in the order of the ids, hence without repetition, and
  contains no handler that was off when the Emit began (`InOrder`). That a snapshot is in
  order is a lemma on `Ascending`: every element of a finite set of numbers has a rank, no
  two the same. `EventsInOrder`.
- **Eventer** (any dispatchers and events). Whoever is in the loop of Dispatch
  holds `mh`, and nobody else adds (`OneAdder`). The jobs executed, the one being executed
  and those queued are one sequence, `Order`: no job is in it twice, and each but the first of a
  Dispatch comes right after the one before (`InBlocks`), and what a call in progress has
  added is the end of it (`Added`). A step of the chan moves a job along and leaves `Order` alone.
  `EventerInOrder`.
- **Limiter** (the cap is a number, the period positive). A window of one period that starts
  at t has admitted at most 4 * Cap minus what it may still let through (`Windows`): the rest
  of the count, and a cap each for the tick in hand, for the one that waits in the channel and
  for the one that is to come in the window (`Allowed`).
  A window meets at most one tick (`TicksApart`): the two
  that were late when the window began and its own each empty the bucket once. `LimiterBounds`.
- **Cache** (any size for each key, any capacity). The items are in the order of their last use
  and later than what was evicted (`InUse`). The size is a cardinality, so that lemmas
  say what it is of a concatenation, of one item and of what eviction leaves; the code's
  loop stops at the first prefix that makes enough room. `CacheEvictsOldest`.
- **Stater** (any stats, Starts and ticks). One Start at most is past the CompareAndSwap
  (`OneStarter`), what is counted and read is at most what was measured (`Measured`), and what
  was reported adds up to the measure that the stat remembers, which is no later than the one
  about to be computed (`Accounted`). `StaterTelescopes`.
- **SilenceDetector** (any lengths of silence and partition of the samples). `SilenceInv`: the
  steps kept are the last ones, in order (`Numbered`), what was returned is framed and
  in order, sharing at most a silence with what is kept (`Returned`), and, as long as no Add
  finished more than one step, what is kept begins with the shortest silence that counts and
  has no other after it (`Exact`). Within a call the loop is proved turn by turn: `Phase`
  relates its three counts to what the scan has seen. `SilencesFrame`.
- **BitsWriter** (the inputs are what `Write` accepts, integers are numbers). `Sent`: the bits of
  the bytes out followed by the first bits of the cache are the bits asked for, or a
  beginning of them after an error. Below it is the arithmetic: powers of 2, quotients and
  rests, `BitsSplit` (the bits of a number are those of a quotient and of a rest), `BitsLow`
  and `BitsJoin` (a sum of parts whose bits do not meet has the bits of both). The loop of
  `writeBitsN` keeps that the bits given and those to come are those of the number
  (`Turned`); the loops over strings, slices and bytes go through one lemma. `BitsStayInOrder`.

The library's induction theorems are out of reach, so the last two proofs do their own
induction: the turns of a loop up to which a fact holds are a set of numbers, and the least
number outside of it has a turn before it. The same argument shows that the recursive
functions exist (`LoopExists`, and `Iteration` of `BitsWriter`).

The inductive invariants were checked by TLC on small instances before they were proved.

What stays with TLC:

- liveness under fairness, which is out of reach of the provers: `EveryLockReturns`,
  `CancelledStartReturns`, `AddedFuncRuns`, `DoRuns`, `StoppedInCallbackReturns`,
  `CloseEndsRead`, `DownloadReturns`, `WaitEnds`, `TermStops`, `ReadReturns`,
  `DispatchReturns`;
- `FramesKept` of `PCM`: it needs folds of the community modules, which are recursive
  beyond what the library has facts about, and quotients by rates that are unknown.

## What is not modelled, and why

- Wording, logging, statistics (`Stats` of Chan) and the contents of funcs, chunks and bodies.
- Time, but for `Limiter` and `Stater`: a timeout may expire at any moment.
- Torn reads of single words and slice headers: a data race is an interleaving of reads and
  writes. Every mixture of two errors in `err` of `http.go` is an error; the list of a `Closer`
  that Close resets without `mf` is read and written whole.
- `Append` in both directions or to a child (`AppendsOneWay`), a `Close` of an IPC writer or reader during its Write or
  ReadBytes, writes of size 0 (`&b[0]` of an empty slice panics) and numbers of more than 64
  bits in `WriteN` (a panic): the callers these ask for do not do it.
- A read of a `Piper` into a destination shorter than the chunk, which loses the rest.
- `Eventer.Reset` and chans in FILO order under an `Eventer`; `Chan` has both.
- `PCMLevel`, `PCMNormalize`, the bit depth, hamming and parity codes: formulas and tables.
  A step of the silence detector is silent or not.
- `AtomicDuration`, `BiMap`, `Errors`, `BytesIterator`, `Stopwatch`: one critical section, or one
  sequential caller, per method, with nothing that relates two of them.
- `DebugMutex`, `logger.go`, `template.go`, `archive.go`, `ssh.go`, `os*.go`, `translator.go`: I/O,
  formatting and parsing without concurrent state.
