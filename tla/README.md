# Verification of the io_uring read path and its benchmark

The repository measures regular-file reads from Go through ordinary blocking
`ReadAt` and through an experimental `io_uring` ring. Its core logic is one file,
`internal/uring/uring_linux_amd64.go`: a ring shared by any number of goroutines,
one submitter goroutine, one completer goroutine and the kernel. Around it,
`cmd/iobaseline` runs a workload in a child process and reconciles the ring's
counters, and small commands and scripts validate, compare and summarise results.

This directory models the ring, the harness, the process that observes it, the gates
that judge its results and the campaign that collects them as TLA+ modules, checks them
with TLC on small instances, and proves the properties that matter most, for all
instances, with TLAPS.

## Inventory

| component | state | operations | interacts through |
|---|---|---|---|
| **ReadAt** (`uring` 481-537) | the operation: ID, state, pinned buffer, `done` channel | skip, pin, admit under `mu` or refuse, send, wait | `Ring.mu`, `submitCh`, `op.done` |
| **submitter** (539-696) | `pending`, the batch, the SQ tail | receive, gather what is available at once, check and count the batch, expose it, enter until the kernel has consumed it, wake the completer | `submitCh`, `mu`, SQ, `io_uring_enter`, `workCh` |
| **completer** (698-808) | CQ head, the operation being finished | reap the CQEs it saw, finish each, give the slots back, check for the end, idle or wait in the kernel | CQ, `mu`, `op.done`, `workCh`, `stopCh` |
| **retirement window** (778-789) | last completed IDs: a map, a slice, a cursor | retire an ID, evict the oldest | inside `finish` |
| **Close** (935-960) | `closed`, `stopCh`, the mappings | refuse while operations live, stop, join, unmap | `closeMu`, `mu`, `stopCh`, `doneCh`, `wg` |
| **counters** (82-116, 820-917) | `Stats` | atomic additions by everyone; `Stats()` | reconciled by tests and harness |
| **setup** (291-479) | parameters, mappings, io-wq limits | map, query, set, verify, undo | three system calls |
| **harness** (`iobaseline` 302-629) | workers, limiter, phases | warm up, reset, measure, stop, close, reconcile | phase channel, `WaitGroup`, limiter, ring |
| **observer** (`iobaseline` 255-300, 801-818) | child process, sampled maxima, the two samplers | start, sample, collect | `os/exec`, `/proc`, a pipe |
| **thread-ID samples** (`uring` 158-213) | two bounded sets with a truncation bit | record before each enter | the Go scheduler |
| **reconciliation, summaries** | none | pure functions of results | JSON |
| **residency** (`residency_linux_amd64.go`) | the page cache of the data file | advise, prewarm, inspect | `fadvise`, `mincore` |
| **gates** (`phase6check`) | none | accept a result as a run of a mode | JSON, exit status |
| **campaign** (`phase8-cross-host-reproduction.sh`) | the data file, the results | generate, run, gate, summarise, compare | processes, files |
| probe, text of tables and curves, disk counters | none | system calls and formatting | - |

What is hard in this code is that an operation has an owner at every moment, and
that the owner changes hands between goroutines that do not wait for each other
and a kernel that writes to the buffer meanwhile:

* ownership: the caller, then the operation table, then (after the terminal CQE)
  the completer, then the caller again. A pin released too early lets the kernel
  write to memory the collector has reused; one never released is a leak;
* `outstanding`: it decides whether the completer waits in the kernel, idles or
  exits, and whether Close may proceed. The repository's history has a bug in it;
* two wake-ups that can be lost: the token that wakes an idle completer, and the
  stop;
* partial submission: the kernel may consume a prefix of a batch;
* errors after exposure: the operations are the kernel's, whatever `enter` said;
* Close racing reads that are admitted, sent, published or just finished;
* counters added a few steps after the event they count;
* two processes that end, sample each other and exchange a result at once;
* a page cache that every run inherits from the last, and that the host changes.

`PROJECT.json` lists these as hazards, each at its line with the properties that
would catch it.

## Modules

| module | what it is |
|---|---|
| `Ring` | the ring: calls, submitter, completer, Close, the kernel; all properties |
| `Retirement` | the window of completed IDs, used by `Ring` |
| `ReadService` | what a ring promises its callers, without queues, loops or locks |
| `RingService` | the refinement mapping from `Ring` to `ReadService` |
| `MCRing` | model values, bounds and symmetry for TLC |
| `RingProofs` | proofs: types, who owns a buffer, an operation and a result, what `outstanding` counts, when the ring is closed |
| `RingOutcomes` | proofs: what Close leaves and is refused over, the counters, the window, and that `Ring` implements `ReadService` |
| `RingIndex` | the memory of the SQ and CQ: heads and tails that wrap, slots, the index array |
| `SharedQueues` | what that memory is to the rest of the code: two bounded queues |
| `RingIndexProofs` | proofs: words that wrap, and that `RingIndex` implements `SharedQueues` |
| `RingSetup` | `NewWithOptions` up to the two loops, and the end of `Close` |
| `RingSetupProofs` | proofs: nothing leaks, rings run as asked, records are honest |
| `Harness` | `runChild`, its workers and the outstanding limiter |
| `HarnessProofs` | proofs: types, the limiter, main's barrier, the verdict, the work done |
| `Campaign` | a measured run from its flags, through `RingSetup`, to the verdict of the gates |
| `MCCampaign` | the script's commands and those near them, for TLC |
| `CampaignProofs` | proofs: the gates are sound, fair and tell modes apart |
| `Observer` | `runObserved`, its child, the two samplers, the pipe and the end of the child |
| `Reproduction` | the script for the cross-host campaign, its page cache, summary and comparison |
| `MCReproduction` | the runs and values for TLC; that each planned order has each run once |
| `ReproductionProofs` | proofs: summaries, cold starts, verdicts, and that results are not replaced |
| `Measurements` | `latencySummary` and the columns `cmd/summarize` shows of it |
| `MCMeasurements` | the bags of samples for TLC |
| `Arithmetic` | `batchBucket`, the rank of a percentile, the offset of a random read |
| `Instruments` | the thread-ID sets, with goroutines that change threads |
| `MeasurementProofs` | proofs about `Arithmetic`, `Instruments` and `Observer` |

### Ring

The variables are those of the Go structures, and the two loops' locals. An
operation is named by the `ReadAt` call that owns it. `sq` and `cq` are the shared
rings from head to tail, an SQE being the operation it was filled from and a CQE
the ID and result it carries. `served` records what the kernel read for an
operation; nothing in the code reads it.

Which operations completed last is nowhere in the code's state, so what the retirement
window is for cannot be said of that state alone. `history` is a history variable: the step
of `finish` that takes an operation from the table appends its ID, and no step reads it.
`WindowIsRecent` then says that `Ring.completed` holds exactly the last IDs of the history,
as many as the CQ has entries, and `DuplicatesAreTold` that a CQE whose ID is not in the
table is counted as a duplicate exactly if it is one of those.

A step is the code between two points where another actor could tell the
difference: a `Ring.mu` section, a channel operation, a release store into the
rings, a system call. So, for one read:

    ReadPin -> ReadAdmit (mu) -> ReadSend (channel)
      -> SubReceive or SubGather -> SubPublish (mu) -> SubStoreTail (release store)
      -> SubEnter (system call) -> SubAccount -> SubNotify (token)
      -> KernelComplete -> CompReap -> CompFinish (mu) -> CompDeliver
      -> ReadReturn, CompStoreHead

`ReadSkip` and `ReadRefused` are the early returns. A panic is the loop's control
state `"panic"`; a `SubPublish` that finds the SQ full goes to `"space"`, where
`waitForSQSpace` is, which the model shows is never reached.

The kernel is external and modelled from how the code uses it: it consumes SQEs
only in a submitting `io_uring_enter` (no SQPOLL is asked for), completes reads in
any order, and holds a completion back while the CQ is full. (The code does not
check for IORING_FEAT_NODROP; the model assumes it, as every kernel since 5.5 has
it.) `Faults` switches on partial submission, a failing submitting enter, EINTR
and errors of the waiting enter, and CQEs that answer nothing.

Abstracted: offsets, lengths and contents (a result is `full`, `short` or
`errno`), messages, latency stamps, thread pinning and thread IDs, bucket and
maximum counters. `stats` keeps the counters that tests and harness reconcile; the calls of
`io_uring_enter`, whose two kinds `phase6check` adds up, are not among them. A panic stops its
loop: `close(doneCh)` and `wg.Done`, which Go still runs before the process ends, and by which
a `Close` that waits to join could go on to unmap in that moment, are left out.

### ReadService and RingService

`ReadService` says what callers rely on: a read is refused with its buffer never
lent, or accepted; an accepted one is lent once, answered once, and only then does
the buffer return and the call with that answer; the service shuts only when no
accepted read is unsettled. `RingService!Phase` maps a read of `Ring` to that, and
`Service` is checked as a property. An operation that `submitBatch` has checked
and counted is not yet lent: the tail store lends the whole batch at once.

### RingIndex and SharedQueues

`Ring` keeps the SQ and the CQ as sequences. `RingIndex` is what is really there:
32-bit heads and tails that wrap, slots at the word masked with the size less 1, and
the index array between the SQ and its slots. `submitBatch` fills slot by slot and
then stores the tail, `reap` copies slot by slot up to the tail it saw and then stores
the head, while the kernel reads and writes on its side. `Word` is 2^32 made small; all
that matters is that the sizes divide it. `AreQueues` is the refinement: from head to
tail (from `reap`'s own head while it copies) the slots are the two queues of
`SharedQueues`, so nothing is overwritten before it is read, read twice or reordered.
`RoomIsRight` says that the submitter always finds the SQ empty, because `enterSubmit`
returns without error only when the kernel has consumed all: `waitForSQSpace` never
waits. A submitter that stops on an error of `enter` is in `Ring` only.

### RingSetup

`Ring` starts where `NewWithOptions` has succeeded; `RingSetup` is how it gets there
and what `Close` undoes at the end. Each system call is a step that may fail. A
mapping is named by the part of the ring it was made for; with
`IORING_FEAT_SINGLE_MMAP` two pointers share one, which is what `unmap` must notice.
`limits` is what the kernel has in force and `config` is `Ring.iowq`. The kernel may
put a lower limit in force than was asked for, also for a kind that was not asked
for. It is taken to have one pair of limits for the ring; the history documents
(phase 6c) find that there is one per issuing task, which the verification at setup
cannot see either.

### Harness

One `runChild` with its worker goroutines: the three phases (warm-up, measurement,
stop), the reset between, `Close`, and the result. The phase channel is shared and
unbuffered: `Send(w)` hands the next command to whichever worker `w` receives it, so
one worker may execute two commands of a phase and another none. The limiter is
modelled atomic operation by atomic operation: semaphore, `current`, the load and
the compare-and-swap of `peak`, and the two halves of `release`. Time is the flag
`late` of a command, which may rise at any moment, separately for each worker even
where they share a deadline (so the model allows more than the clock does).

The ring is what `ReadService` promises its callers, as far as the harness can tell:
it answers the reads in progress and refuses to close over them; when its completer
has died (`RingFails`) it refuses new reads, may keep old ones for ever and does not
close. That the counters reconcile after a successful `Close` is
`CountersReconcileAfterClose` of `Ring`, so `Collect` need only look at errors.
`bad` records that a measured read was not full; nothing in the code reads it.

`Close` fails here only as `RingFails` makes it fail. In the code closing the ring's
descriptor may fail too; `RingFails` allows more than the code in return, since a ring may
fail at any time with no read in progress.

The errors of the warm-up are cleared by the reset. This is what the code does and
nothing in the repository says otherwise, so `OkIsEarned` speaks of the measured
reads.

### Campaign

What a result is worth: `cmd/phase6check` decides from the JSON of a run whether it
counts as a run of a mode (`blocking`, `normal`, `default`, an explicit limit) of the
campaigns of phase 6, 7 and 8. `Campaign` follows a run through `validate`, the opening
and the advice on the page cache, `NewWithOptions` (the actions of `RingSetup`,
instantiated over shared variables), `Measure`, `Close` and the status (`Finish`), and
states the gates as predicates on what the run left (`Phase6Accepts`, `Phase7Accepts`,
`Phase8Accepts`). `GateIsSound` compares what a gate believed, which is a record, with
what was so: the limits in the kernel, the forcing of workers, the fate of the cache
and of the ring.

`validate` puts no upper bound on `-concurrency` and `-max-outstanding`, and `runChild` hands
`NewWithOptions` `uint32(maxOutstanding)`: with a multiple of 2^32 the ring is refused with
an options error. `EntriesOf` is that conversion (modulo `Word`), and `RefusedOnlyIfLost` says
that it is the only way in which validated flags do not fit.

Abstracted: the fields that must equal a constant of the campaign and that nothing
else depends on are one flag, `rest`: `phase7` if they are as phase 7 asks, `phase8` if only
as phase 8 does (which takes any size of the file, Go version and GOMAXPROCS), `other` or
`invalid`. The two gates' tables of modes are one, `WorkerMax`, although phase 7 has two
modes more; mincore's count of pages is `all`,
`some` or `unavailable`; the workers and their reads, which are `Harness`, are one step
that leaves errors or none; the comparison of counters, which is `Ring`, is one flag.
The observer's sampling is in `Observer`; here `ChildDies` is all of it. As in
`RingSetup`, the kernel has one pair of limits for a ring.

### Observer

Each process has its state: of the child its main goroutine (`cpc`), its sampler and the
result it writes in two parts to a pipe that holds one; of the parent the goroutine that
copies the pipe, the one in `Wait`, the ticker's channel and the loop. `exec.Cmd.Wait`
reaps the child and then waits for the copying (`Reap`, `SendDone`); between the two the
process ID may be given to a stranger (`ReusePid`), whom the next tick samples. All that
is sampled, in `/proc` and in the runtime's metrics, is one number, `threads`. The child
may die at any step, or hang on a read that a failed ring has kept (`Harness` shows when).
`most` records the maximum the samples are compared with; nothing in the code reads it.
`emit` ignores the error of `Encode` (`main.go:756`): a child whose write fails and who
still exits well is left out, for the pipe's reader outlives the child, and a write to a
pipe with a reader does not fail.

### Reproduction

One start of the script: `Generate` or `CheckInput`, `Preflight`, then for each run of
`Plan` the page-cache precondition, the inspection, the measurement (which writes the
result and exits well, whatever its status) and the gate, and after the last run, or by
hand on what a stopped campaign has left, `Summarise` and `Compare`. `CacheDrifts` is the
host; `Abort` a signal; `StartOver` another start, which finds the data file as it was
left. Which commands a gate accepts is `Campaign`; here a process has the flags of its
mode, and what varies is its cache, its status, and one value for its measurements.
`start` records how many pages really were resident when the measurement began; nothing in
the code reads it.

Abstracted: the builds, tests, the probe and the disk counters are outcomes of
`Preflight`; the names of files are keys of `results`; the tables and curves of
`phase8compare`, which decide nothing, are left out.

### Measurements, Arithmetic, Instruments

`Measurements` puts samples in bags, since sorting forgets their order; a percentile is
the value at a rank of the sorted samples. `Lookup` is how `cmd/summarize` finds a number
in JSON: what is missing is 0. `Arithmetic` holds the calculations whose results index a
slice or a file, with theorems for every input instead of a run. (`Rank` is the real
product; in the code it is a `float64`, which for 0.5, 0.95 and 0.99 never rounds above
it.) `Instruments` has the two loops of the ring as far as thread IDs go: a goroutine that
is not locked may move to another thread between `gettid` and `io_uring_enter`.

## Runs

| run | bounds | what it shows |
|---|---|---|
| `ring_safety` | 3 reads, 2 Close; SQ 2, CQ 2, channel 2; IDs modulo 4; partial, EINTR | `outstanding` exact, the window holds the last two IDs, every operation in one place, no panic, Close is refused only over reads and leaves nothing, counters reconcile after it; `Ring` implements `ReadService` |
| `ring_faults` | 3 reads, 1 Close; SQ 1, CQ 2, channel 1; IDs modulo 3; full and short reads; failing enters, EINTR, spurious CQEs | buffers pinned through panics and the fatal exit, pins never leak, results reach their own call, no Close after the fatal exit, duplicates told from unknown IDs |
| `ring_live` | 2 reads, 2 Close; SQ 2, CQ 4, channel 1; IDs modulo 3; partial, EINTR | admitted reads return; a permitted Close finishes |
| `ring_early_reconcile` | 2 reads, 1 Close | a violation, see below |
| `ring_index` | 3 operations; SQ 2, CQ 2; words modulo 8 | slots and wrapping words are two bounded FIFO queues; the SQ has room when looked at; every operation finishes |
| `ring_setup` | limits 0 to 2, every option, every failure | no leak, no double unmapping; a ring that runs has what was asked for, and its record says so |
| `harness` | 2 workers, limits 1 and 2; up to 3 operations, or 2 reads before the deadline | main is alone when it touches workers' fields and closes; counts exact; ok earned; no read beyond the limit, no peak missed; every run ends unless a failed ring kept a read |
| `campaign` | limits 1 and 2; `Word` 2, up to 4 reads in progress; the script's commands and those near them | a result let through was of the mode it was taken for; modes cannot be confused; a good run is let through |
| `observer` | 3 threads, 3 samples on either side | the report is the child's whole result or a failure, with a final peak; every run is reported unless its child hangs |
| `reproduction` | 4 of the 10 runs of each order, 2 campaigns, 2 values, an empty or a full cache | nothing is written after a failure or twice; summaries are complete; cold starts were cold; directions are those of most repetitions |
| `reproduction_unverified` | a slow and a resident run in each order | a violation, see below |
| `measurements_table` | times 1 and 2 | a violation, see below |

Why these bounds: two reads fill a batch that can be split by a partial
submission, the third arrives meanwhile (in the channel, or gathered, or while
the completer finishes the first two). With CQ 2 the window of two evicts once, and a third
completion waits for the queue; the cursor going round is left to the theorem. `history`
adds no states to a run: the other variables tell its values apart already. With SQ 1 and
channel 1 every queue is full in reachable states, and `ReadSend`, `SubGather` and
`KernelComplete` are each blocked by a full queue. Two Close calls contend for `closeMu`, one finding the other's result.
`IdMod` 3 gives two reads an ID and refuses the next for overflow; with 4 all three have
one, as 2^64 would give them. Calls are interchangeable, so the safety runs use symmetry;
the liveness run does not. `ring_faults` sets CHECK_DEADLOCK FALSE because after an error
of the waiting enter the callers really wait for ever.

For the index arithmetic, three operations overfill either queue of two, and words
modulo 8 wrap after four rounds of the slots; the run goes round without a bound.

For the setup, limits up to 2 are enough: what was in force, what is asked for and
what the kernel makes of it can all be equal or different, and 0 is "leave alone".
For the harness, up to three operations over two workers leave shares that differ by one
and shares of 0; every limit from 1 to the number of workers is an initial state, as are
both backends and both modes. Two workers are enough for each step of the limiter's
atomics to meet each other's, and the theorems hold for any number. `CheckEvery` (64 in
the code) and `MaxReads` bound how often a worker with a deadline goes round. `harness`
sets CHECK_DEADLOCK FALSE because a run whose ring fails may really hang.

For the gates, the flags are those of every command of the script for phase 8, and
all that differ from one of them in the ring's flags, in the worker limits, in the
cache's flags, or in the others: 932 initial states. Two explicit modes, U1 and U2,
with limits up to 2, can be confused with each other and with the default; the
kernel starts with any limits in that range.

For the observer, three threads let a count rise, fall and rise again, and three samples
let either side miss a maximum and then meet it. For the campaign, the four runs are the
three modes that the comparison looks at and a slow one, which the orders put before,
between and after them; each of the compared ones may measure either of two values in each
repetition, so that every pattern of two modes over three repetitions occurs. Two
campaigns let the second find what a failed generation left. That all of the thirty
planned runs are there, once each, is the assumption `OrdersAreComplete` of
`MCReproduction`, which TLC evaluates.

**Fairness** (`Fairness` of `Ring`): the Go scheduler runs every goroutine that can run, so
the submitter, the completer and every call that has begun are weakly fair; the
kernel completes each read it has consumed. Nobody is obliged to start a read or a
Close. Weak fairness is enough because nothing the properties wait for is disabled
by others over and over: the channel is FIFO and has one receiver. In `Harness` main,
the workers and the passing of time are weakly fair, a worker in a read only while
the ring has not failed. A worker waiting for a permit needs no stronger fairness:
the others run out of operations or time, and then the permit stays free. In
`RingIndex` operations go round for ever, so the kernel is strongly fair to each one
it holds: it keeps completions that find the CQ full in their order, and each gets
its turn. In `Observer` the goroutines of both processes are weakly fair; `select` is
strongly fair to a channel that is ready again and again, because Go chooses among the
ready ones at random. Nothing obliges threads to change, a child to die or to hang, or
the kernel to use a process ID again.

**Divergences found.** (1) The test helper `requireReconciled`
(`uring_linux_amd64_test.go:70`) compares `SubmitEntriesConsumed` with
`OperationsPublished` once the reads have returned, in several tests before
`Close`. `accountSubmitResult` adds to the first after `io_uring_enter` returned,
when the completer may already have woken the callers, so the comparison can fail
in a correct run. `ring_early_reconcile` finds it;
`CountersReconcileAfterClose` shows that after `Close` the counters do agree, and
that is when the harness takes them (its comment at `main.go:417` says why, for
another counter).

(2) When the mapping or `mincore` fails, `inspectResidency` gives the label
`residency-unverified` and leaves `resident_ppm` at 0. For a slow run `validatePhase8`
asks for no more than the object, and `phase8-summarize.py` compares the bare number with
50,000, so a run of which nothing is known counts as one that began mostly nonresident,
although `docs/reproduction.md:111` says that the summary uses the harness's label.
`reproduction_unverified` finds it; without such a failure `ColdStartIsHonest` holds, in
`reproduction`.

(3) `cmd/summarize` looks `p50_ns`, `p95_ns`, `p99_ns` and `max_ns` up in the latency
object, but `runChild` has put them one level deeper, under `service` and `end_to_end`;
the four columns are 0 for every run. `measurements_table` finds it.

**The failed completer.** If the waiting enter fails with anything but EINTR the
completer exits; later calls are refused, but calls in progress wait for ever and
Close is refused for ever. The repository documents that it has no asynchronous
failure recovery, so this is listed as a hazard. `FatalKeepsRingOpen` shows that
the ring then never unmaps memory the kernel may write.

## Theorems

TLC shows a property on one small instance; the theorems below show it for all values of
the constants, under the assumptions that the modules name. Every invariant and every action
property of the passing runs is stated by one. The proof modules
extend the module they are about; each states its inductive invariant, checked with TLC
before it was proved, then one lemma for each action that disturbs a part of it, then the
theorems.

### The ring (`RingProofs`, `RingOutcomes`)

Any set of calls and closers, any positive sizes, any ID modulus above 1, any subset of the
faults (`SizesAssumption`, `IdAssumption`, `ResultsAssumption`, `FaultsAssumption`;
`NoneAssumption` says that `None` is none of the other values).

All but `TypeCorrect` have the hypothesis `NoOverflow`: no call has returned "operation ID
overflow". After that IDs are reused, and whether two live operations share one depends on
how long operations live. The program would need 2^64 calls. `TypeCorrect` has no such
hypothesis.

The invariants, each used by those after it:

* `TypeInv`: `TypeOK` is not inductive. The completer's index stays within the CQ only
  because `reap` never passes the tail it saw, and the SQ within its size only because a
  batch never exceeds the room. `LoopsOK` says this of the two loops' locals.
* `Owned`: a CQE takes whatever operation its ID names out of the table, so what happens to
  one operation depends on every CQE in the queue. IDs are given out in order and never
  shared, and the table files operations by them (`IdsOK`); CQEs carry only IDs of answered
  operations (`CqesOK`, which spurious CQEs keep); on its way an operation is in one queue,
  once, held by its waiting caller (`QueuesOK`, `RingOK`); the one being delivered is
  terminal (`CurOK`).
* `SubmitterOK`, `LifeOK`: what `submitLoop` holds between its steps, and for each
  state of an operation where its caller is, whether its buffer is pinned and by whom it
  will be unpinned. The table holds the queued and the published operations and no others.
* `AnswersOK`: what a CQE, the completer or a call carries is what the kernel read for that
  operation.
* `CloseOK`: a closed ring has no operation left, one Close at a time decides and joins,
  and the completer leaves only a closed ring or, failed, one with an operation nobody will
  complete.

| theorem | property | besides `NoOverflow` |
|---|---|---|
| `TypeCorrect` | `TypeOK` | (not needed) |
| `BuffersStayPinned` | `KernelBuffersStayPinned` | |
| `EveryPinHasAnOwner` | `PinsHaveOwner` | |
| `CallsReturnTheirResult` | `ReturnsItsOwnResult` | |
| `CountIsExact` | `OutstandingIsExact` | |
| `FatalMeansOpen` | `FatalKeepsRingOpen` | |
| `CountersReconcile` | `CountersReconcileAfterClose` | |
| `WindowStaysRecent` | `WindowIsRecent` | (within the property) |
| `DuplicatesAlwaysTold` | `DuplicatesAreTold` | (within the property) |
| `CloseIsNeverEarly` | `CloseRefusedOnlyOverReads` | |
| `RingImplementsService` | `Service` | |
| `CloseIsComplete` | `CloseLeavesNothing` | no spurious CQE |
| `NothingLostOrDoubled` | `EveryOperationInOnePlace` | no spurious CQE, no failing submitting enter |

The last two need their hypotheses: a repeated CQE may be left in the CQ of a ring that has
closed, and one the completer does see makes it panic, as a failing enter does the submitter,
while `EveryOperationInOnePlace` says that neither panics. `ring_safety`, where TLC checks the
two, has neither fault.

`CountersReconcile` follows the flow of the operations from counter to counter (`AccountsOK`):
created into admitting, cleaned or admitted; admitted into queued or published; published into
consumed, outstanding, completed. Where an operation is between two counters for a few steps
(the completer between `finish` and the store of the head, the submitter between `enter` and
its accounting) the equations have a term for it.

`WindowStaysRecent` is about an algorithm before it is about the ring: a map, a slice and a
cursor that together keep the last members of a sequence. `WindowSlice` says where in the
slice they are: from the cursor to the end the older ones, before it the newer ones, each at
its distance. So the cursor is at the oldest, `RetireKeepsSet` evicts what the window should
forget, and `RetireKeepsSlice` holds when the cursor wraps. This needs the members to be
distinct: `HistoryOK` has each ID that left the table in the history once, because a
retiring ID is in the table and those are not (`GoneStep`). `DuplicatesAlwaysTold` adds that an ID at or below `nextID`
is some operation's (`Assigned`), so that a CQE the table does not know is of one that is
gone, and that a completer that has counted one takes no further step (`ToldOK`).

`CloseIsNeverEarly` follows from `LifeOK` and `OutstandingIsExact`: what the table holds or
`outstanding` counts is of a call that still waits. With `RingImplementsService`, by which a
ring never shuts over an accepted read, this is what `Harness` assumes of `ring.Close`.

`RingImplementsService` maps
each step of `Ring` to a step of `ReadService` or to none (`StepRefines`); the step that
lends is the tail store, which lends a whole batch, and everything the calls need to hold
then is in `LifeOK`.

### The index arithmetic (`RingIndexProofs`)

Any word and any ring sizes below it that divide it, any finite set of operations
(`SizesAssumption`). `TypeCorrect`, `RoomIsAlwaysRight` (`RoomIsRight`), and `IndexesAreQueues`
(`AreQueues`: the refinement of `SharedQueues`). The first lemmas are about remainders: the
distance from one word to another after wrapping, what one step does to it, that the slot of a
word does not depend on whether it wrapped (this is where the size must divide the word), and
that the slots of less than a ring's size of consecutive words differ. `CompleterOK` says that
`reap`'s head and the tail it saw lie, in this order, between the kernel's two words;
`SubmitterOK` that the SQ is empty except during an enter and that the filled part of a batch
stays. A queue is then the window of the slots from one word to another, and each step
appends to it, takes from its front, or writes outside it.

### Setup and gates (`RingSetupProofs`, `CampaignProofs`)

`NothingIsLeaked`, `RingsRunAsAsked`, `RejectionsAreDeserved`, `RecordsAreHonest`
(`RingSetup`, any `MaxLimit`). The invariant says for each step of `mapRings` which pointers
are set and that the mappings are exactly theirs (`MemoryOK`), for each step of
`configureIOWQWorkers` what it knows of the limits in force (`LimitsOK`), and what it has
recorded (`RecordOK`); one lemma shows that `unmap` frees every mapping once from any of these
stages.

`TypeCorrect`, `RefusedOnlyForOverflow`, `GatesAreSound`, `ModesAreTold`, `GatesAreFair` (`Campaign`,
any number of explicit modes with different limits, any set of flags, by `CampaignAssumption`).
A gate sees only a record. That what it says is so in the kernel is an invariant of the ring's
setup, and `CampaignProofs` cites `RingSetupProofs` for it by instantiation: a step of
`NewWithOptions` within a run is a step of `RingSetup` (`SameSteps`), so `SetupInv` and
`RecordOK` hold here. `RunInv` adds that the ring's options are made of validated flags
(`OptionsOK`; a ring that refused its options was given no entries, so by `LostIsLarge` the
limit of reads in progress was at least `Word`), that limits are positive, and that an ok result is one of a ring that was closed
with the limits it wanted (`EndOK`).

### The harness and its observer (`HarnessProofs`, `MeasurementProofs`)

`Harness`, any finite set of workers and any counts:

* `LimitAlwaysHolds`, `NoPeakIsMissed`: `LimiterInv` ties the semaphore and `current` to the
  sets of workers that hold a permit and that are counted. The limit follows because the counted
  are among the holders, which needs the order of `release`. That no peak is missed needs
  `LastFoundAll`: in every set of counted workers one came last, and its own increment
  counted them all; once it is past the loop the peak is at least that.
* `MainIsAlwaysAlone`: the `WaitGroup` is a barrier because it counts, at any moment, the
  workers at work and the commands still to be sent (`PhaseInv`), whichever worker takes them.
* `OkIsAlwaysEarned`: from the read that was not full to the verdict some worker's error
  remembers it (`VerdictInv`): main clears errors only before the measurement.
* `WorkIsAlwaysExact` (`WorkIsExact`): what a worker has counted and what its command still
  promises never exceed the shares sent so far, and are exactly those while no worker has an
  error (`ExactInv`), however many commands one worker took. A sum over the workers is the
  cardinality of a set of numbered units (`Units`), which grows by a block when a share is
  sent or an operation is counted; `SharesAddUp` is the division with its remainder.
* `TypeCorrect` (`TypeOK`): the ranges of the counters (`RangesOK`), with the types that the
  other invariants carry.

`Observer`, any numbers of threads and samples: `TypeCorrect`, `ReportsAreTheChilds`,
`PeaksAreFinal` (an action property) and `PeaksNeverExceed`. `LifeOK` follows the exit status
and the output on their way to the parent: when `done` is sent the output has been copied
whole. `SamplesOK` says when a sample can still be taken and that it is one of the
measurement's.

`Instruments`, any set of threads and any cap above 0: `CapIsAlwaysObservable`,
`LockedSubmitterIsAlwaysRecorded`. A locked submitter that is about to enter the kernel has just
recorded its thread, which is the only one in its set (`LockOK`). `Arithmetic`:
`BucketIsFirstThatFits`, `RankIsNearest`, `OffsetLeavesRoom`: the bucket, the rank and the
offset are in range for every input, and are the right ones.

### The campaign (`ReproductionProofs`)

Any items, orders that are permutations of them (`PlanIsWhole`), page cache and values.

* `TypeCorrect`, `SummariesAreComplete`, `NothingIsReplaced` (the action property
  `NeverReplaced`): the runs before the present one were accepted and none after it exists
  (`PlaceOK`); the files say what happened, on the whole data file (`FilesOK`).
* `ColdStartsAreHonest`, if `MincoreFails = FALSE`: what a file says was resident is then what
  was. The hypothesis is needed: `reproduction_unverified` is the counterexample without it.
* `VerdictsAreOfMost`: the median of three is the middle one, so a strict order of two medians is
  one of at least two of the three repetitions. `MedianOf` is written as the middle of three
  values for this; a sort by recursion would be out of the prover's reach.

### Only model-checked

* Liveness: `AdmittedReadsReturn`, `CloseFinishes`, `AllFinish`, `RunEnds`, `Reported`.
  Fairness and `ENABLED` are out of the prover's reach.
* `OrdersAreComplete` of `MCReproduction`, a fact about the script's three orders, which TLC
  evaluates.
* `Measurements`: its one property is a divergence.
* The inductive invariants were checked on the instances of the runs before they were proved;
  TLC does not check them in a run of their own.

`Instruments` and `Arithmetic` are proved and have no run. The type invariants of `Harness`,
`Observer`, `Campaign` and `Reproduction` are theorems (`TypeCorrect`), which no run repeats.

## Plan

1. *done*: `Ring`, `Retirement`, `ReadService`, `RingService`; `TypeCorrect`,
   `BuffersStayPinned`.
2. *done*: `RingSetup` and its theorems.
3. *done*: `Harness`; the limiter's two theorems.
4. *done*: `RingIndex`, `SharedQueues`.
5. *done*: `Campaign`, the gates on measured runs.
6. *done*: `Observer` and its theorems; `Reproduction`; `Measurements`, `Arithmetic`,
   `Instruments`.
7. *done*: the theorems about every invariant and action property that a run checks; the
   two refinements.
8. *done*: the window beyond the first eviction, against the history of completions.
9. Left: the observer's and the campaign's refinement of a more abstract account of a
   measurement; the composition of `Harness` with `ReadService` in one module, where each
   worker makes many reads (the theorems about `Close` give its two sides separately).

## Not modelled

* The probe: one setup call, one probe call, a print. That it may fail is part of
  `Preflight`.
* `histogramDelta`, a difference bucket by bucket of two snapshots of the runtime.
* Sequential reads at the position of a descriptor that workers share: another worker may
  read between a return to the start and the read that follows. No document says what
  the position should be then. The generator behind `nextOffset` is any number.
* The maxima of batches and of the operation table, and the sums of the buckets: each is
  updated under `Ring.mu` or by one goroutine.
* `phase7-summarize.py`, which reads files of the same form as the phase 8 summary;
  `phase4-diskstats.sh`; the pairs and curves of `phase8compare`, which print the medians
  of two campaigns side by side; the wording of errors and the layout of tables.
