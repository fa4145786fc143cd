# A TLA+ model of cloud_profiler

cloud_profiler is a C++ library that applications call to log timestamped
tuples with little overhead. A *channel* is opened with a handler type
(identity, buffered, compressed, down-sampling, median, periodic counter, ...)
and a log format; `logTS` runs the channel's handler; background threads
compress, write and sample; exit and signal handlers close what is left open.
Around the library there are a configuration server and client, the Fox
latency channels with their own server, TSC and GPIO round-trip measurements,
Java bindings and offline tools.

This directory models the library and the programs around it. Paths below are
relative to `src/src/cp/`.

## Inventory

| Part | State | Operations | Talks to | What is hard | What makes it correct |
|---|---|---|---|---|---|
| buffered channels: `handlers/buffer_id_handler.cpp`, `handlers/io_thread/block_data.cpp` | per channel: handler, current block, block counter, pool of `NUM_BUFFER_BLOCK` blocks, single-producer/single-consumer return ring; global channel counters and "thread created" flags | open, `logTS` (plain and TSC), hand a full block over, poll for an empty one, close | compression queue, IO queue, counters | raw pointers passed between four kinds of threads without reference counts; handler switched under running calls | every block in exactly one place; nothing logged is lost or reordered |
| compression threads: `handlers/compression_thread/comp_thread.cpp` | block in work, copy, `stop_io_thread` | pop, compress, return the block, push the copy, drain, stop | both queues, every channel's return ring | several producers on a single-producer ring; reordering; a push whose result is ignored | blocks come back, copies arrive, the IO thread learns of the end |
| IO thread: `handlers/io_thread/io_thread.cpp` | block in work, per channel `next_block` and `pending`, log files | loop, pop, write raw, write in order or park, unpark, flush, shut down | queues, rings, files, flags | loop condition over four shared variables; restart for a second generation of channels; file closed by the last block although blocks are reordered | files in order and complete when closed; runs until nothing can come |
| exit and signals: `handlers/io_thread/cleanup.cpp` | `quick_term`, `ch_info` under `mtx_bk`, pointer to the IO thread | close all channels, join or leave the end to the IO thread | all of the above | runs in an arbitrary thread at an arbitrary time | the process ends, with every log complete |
| fast periodic counter: `handlers/fast_periodic_counter_handler.cpp` | per channel: atomic counter, total, period, skipped intervals; per period: thread, channels, job queue; reference count of open channels | open, count, move to another period, close; sample, run jobs, end | job queues, `thr_map` under `mtx_thr_map`, log files | jobs handed from thread to thread while their callers wait; threads that end while jobs arrive | no event lost, exactly one thread samples a channel, every call returns |
| channel registry and API: `channels.cpp`, `closure.cpp`, `handlers.cpp` | `ch_info` under `mtx_bk`, channel numbers, exit handlers registered | open, log, close, parameterise, `isOpen`, the sweep at exit | every handler | a channel is registered before it is open; failed opens stay registered; the sweep runs in any thread | channels keep their numbers and handles; the sweep closes what callers hold |
| sampling handlers: `handlers/{id,downsample,XoY,firstlast,median,null,defect}_handler.cpp` | small per-channel counters and buffers | handle a tuple, set a parameter, close | log file | parameters set one by one or all at once, in mid-stream; end of stream; zero parameters | which tuples of a stream are logged |
| periodic counter: `handlers/periodic_counter_handler.cpp` | counter, period, next flush | handle a tuple, change the period, close | log file, clock | tuples many periods late; period 0 | counts and periods add up |
| status log: `log.cpp` | log file, mutex | `logStatus`, `logFail`, open | everything | unlocks and re-locks while it opens its file | one writer at a time; the file is open before a message is written |
| configuration server: `config_server/` | tables of configuration entries, address of the start node | select a table, match a request, reply | `openChannel` over the network | names that are not unique; requests before the answer exists | the first matching entry wins; every open returns |
| Fox channels and server: `handlers/fox_*_handler.cpp`, `config_server/fox/` | address of the start node, identities of end nodes, echoes | register, look up with retries, send, echo, log | network | order of registration and look-up; no receive timeout | every end node reaches the start node, and both logs tell of the same tuples |
| TSC round trips: `tsc/tsc_master.cpp`, `tsc/tsc_slave*.cpp` | registered slaves, pairs to measure, results | register, command, measure, report, start again | network | everybody waits for everybody's messages; one measurement port per host | one pair at a time, every pair reported with its shortest round trip |
| GPIO round trips: `handlers/gpiortt_handler.cpp` | levels of four wires, the sense of each | barrier, signal, answer | the other board | levels are all one side knows of the other | one answer per signal |
| tuple emitter: `cpp_emit/emit.cpp`, `cloud_profiler.i` | tuples of each thread, schedule, queues, buckets, shared timer | load, emit, receive, fetch, time out | sockets | threads that start when their client connects; buckets full or out of time; a timer that is freed | tuples arrive once, in order, at the rate; the timer outlives its thread |
| time arithmetic: `time.cpp`, `util.c` | none | add, subtract, divide, compare, print | handlers | carries, borrows, limits of units | agrees with integer nanoseconds |
| programs: `ntplogd/`, `../postprocessing/btoa_converter.cpp`, `java_agent/`, `armfreq/` | schedule and rows; files; a stop flag on the heap; a spinning barrier | measure, convert, sample, wait | operating system | late measurements; logs that were cut off; a flag freed by one thread and written by another; counters read one by one | what is asked for is printed, no use after free, nobody passes the barrier early, they end |

## Modules

| Module | Content |
|---|---|
| `BufferPipeline` | buffered channels, compression threads, IO thread, exit and signal handlers: one state machine, one action per access to shared state |
| `DurableLog` | the abstract specification: what a buffered channel promises about its log file |
| `MCBufferPipeline` | `BufferPipeline` for TLC, and the refinement mapping to `DurableLog` (`KeepsPromise`) |
| `BufferPipelineProofs` | theorems about `BufferPipeline`: types and pointers; where each block is; what the files hold |
| `BufferPromiseProofs` | extends it: `BufferPipeline` implements `DurableLog`; nothing is lost at exit |
| `FastPeriodicCounter` | counting channels, their API calls, job queues and sampling threads, and `closeAllChannels` |
| `FastPeriodicCounterProofs` | theorems about `FastPeriodicCounter`: types and batches; then counts, sampling and files |
| `ApiProofs` | theorems about `ChannelRegistry`, `StatusLog` and `ConfigService` |
| `EmitProofs` | theorems about `TupleStream` and `ZmqChannel` |
| `ChannelRegistry` | `openChannel`, `isOpen`, `closeChannel`, `mtx_bk` and the sweep at exit, for channels without an IO thread |
| `StatusLog` | the status log and the threads that open and write it |
| `ConfigService` | configuration server, `openChannel` over it, fox start and end nodes |
| `SamplingHandlers`, `PeriodicCounter`, `TimeArith` | the handlers that write from within the call, the periodic counter, and the arithmetic they use |
| `TscSession`, `TscPair`, `GpioRtt` | the three ways of measuring round-trip times |
| `TupleStream`, `ZmqChannel` | the emitter: generator, receiving threads and queues; channels, buckets and the timer |
| `NtpLogger`, `LogConverter`, `JavaAgent`, `SpinBarrier`, `ArmFreq` | the programs around the library; `ArmFreq` extends `SpinBarrier` |
| `ProgramProofs` | theorems about `SpinBarrier`, `JavaAgent`, `NtpLogger`, `GpioRtt`, `TscSession` and `TscPair` |
| `TimeProofs` | theorems about `TimeArith`, `PeriodicCounter`, `SamplingHandlers` and `LogConverter` |
| `SequenceFacts` | lemmas the proofs share: induction over numbers, recursive definitions, `FlattenSeq` |
| `MCApi`, `MCEmit`, `MCRtt`, `MCSampling` | the above for TLC. Each runs one of several parts that share no state: a variable of the MC module says which, and the other parts keep their initial state, so that one run asks the questions of all of them at the cost of their sum. `MCSampling` has `BufferPipeline` among its parts, for channels without compression |

Operators whose comment starts with "Variant" are wrong versions of the
definition that follows them (a guard dropped, a reset forgotten). Nothing
uses them; putting one in place of its neighbour must break the property that
PROJECT.json names with it.

### BufferPipeline

State. `pc[c]` is where the thread that owns channel `c` is in `openChannel`
("new" to "init") or in the handler ("write", "full": about to enqueue,
"fetch": polling for an empty block); `closing[c]` how far a `closeChannel`
call on it has come, and `closer[c]` whose call that is. `block_id`, `data`
and `close_file` are the fields of `block_data`. `slots`, `ridx` and `widx`
are the return ring, with the one free slot that boost's `spsc_queue` keeps.
`cpc`, `cphase` and `ipc`, `iphase` are the places of the compression and IO
threads; a thread is named after the channel whose opening created it, so a
second generation of threads is a different set. `file[c]` is the log file as
a sequence of chunks. `log`, `logged` and `holder` are history: what was
logged, grouped by the block it went to.

Actions follow the code in the order it accesses shared state:

* opening: `OpenChannel` (`num_buf_ch++`), `OpenIOThread` and `OpenIOStore`
  (the exchange of `io_thread_created`, the start of the thread, and the store
  of its pointer), `OpenCountComp`, `OpenCompThreads`, `OpenDone` (pool of
  blocks, entry in `ch_info`, log file);
* logging: `LogTS`, `WriteFirst` (the first tuple of a TSC channel goes
  straight to the file), `WriteOnBlock`, `EnqueueFull`, `DequeueEmpty`;
* closing: `CloseExchange` (by the owner, or by `ExitClose`), `CloseMark`,
  `CloseEnqueue`, `CloseDecComp`, `CloseDec`. As in the code, only a channel
  whose handler was `BufferIdentityHandler` is flushed and counted off;
* compression: `CompPop`, `CompressBlock`, `SendBackLoad` and `SendBackStore`
  (the two halves of a push to the ring), `CompPush`, `CompLeaveLoop`,
  `CompDrained`, `CompStop`;
* IO: `IOTest` (or its two operands, `IOTestLeft` and `IOTestRight`),
  `IOPop`, `IOEmpty`, `WriteUncompressed`, `SendBackUncompressed`,
  `ParkCompressed`, `WriteCompressed`, `UnparkCompressed`, `UnparkDone`,
  `IOTerminate`, `IOClearIO`, `IOClearComp`;
* the end: `NormalExit`, `Signal`, `ExitClose`, `ExitClosed`, `ExitCheck`,
  `ExitLoad`, `ExitJoin`.

`Races` selects which schedules exist beside the well-behaved ones, so that a
run can say exactly what it assumes of the application and the scheduler:
"overlap" (channels opened while others close, or afterwards), "async_exit"
(exit or a signal while other threads are inside the library), "loop_test"
(`comp_thread_created` changes between its two loads in the IO thread's loop
condition) and "return_push" (two threads push to one return ring at once). The
last one is not the application's to avoid: `sendBackBlockUntilSuccess` takes no
lock, and with several compression threads such pushes happen. The run
`return_push` shows what they do, and `BlockHeldOnce` and the uncompressed
channels are checked with them. A run or a theorem without "return_push" says
what holds as long as no two pushes overlap (`LogInOrder`, `ClosedIsComplete`,
`NoLossAtExit` with compression, `KeepsPromise`, `NormalExitEnds` and
`PollingEnds`). Otherwise a `Races` of `{}` is an application that opens its
channels, uses them, closes them and joins its threads before it exits. A
process that has crashed in the exit handler (`cleanup.cpp:44-45`) counts as
ended in `NormalExitEnds`.

Abstractions: a tuple is its number; timestamps, formats and the codec are
left out (compression always succeeds and keeps the payload); the log file of
a channel in `Unopenable` never opens; `stop_comp_thread` and the `io_test`
switch are not set by library code and are left out, as is the record of block
writing times.

### FastPeriodicCounter

State. The fields of `FPC_closure`; `tpc[p]` is where the sampling thread of
period `p` is in `thr_f` ("none": there is no descriptor in `thr_map`),
`closures[p]`, `j_queue[p]` and `nr_jobs[p]` its channels, its jobs and what is
left of the batch `process_job_queue` is working on, `moving[p]` the job it is
passing to another thread. `pc[k]`, `on[k]`, `jobCompleted[k]` are the API
call of thread `k`: a channel's own thread, or `EXIT`, which runs
`closeAllChannels`. `out[c]` is what the log file shows: the sum of its counts,
the intervals it accounts for, and the total at its end. The header line and
the layout are left out. Time is abstract: an interval may end whenever the
thread looks at the clock (`FlushDue`).

Actions: `OpenChannel`, `InsertChannel`, `SetArg` (a move to another period),
`LogTS`, `CloseChannel`, `CloseCount`, `CloseDelete`, `WaitCompletion`,
`CloseFile`, `Exit`, `ExitClose`, `Exited` for the callers; `Sample`,
`CountJobs`, `RunInsert`, `RunMove`, `PassOn`, `RunMoveFails`, `RunDelete`,
`TestTermination`, `Terminate`, `Snooze`, `FlushDue` for the threads.
`RunMove` and `PassOn` are two steps because the new period is visible before
the thread for it exists. An argument that is out of range closes the channel
(`CloseChannel`). `Races` may hold "log" (other threads log on a channel during
calls of its own thread) and "exit" (`closeAllChannels` runs during calls).

### ChannelRegistry and StatusLog

`rpc[t]` is where thread `t` is in `openChannel`, `isOpen`, `closeChannel` or in
the sweep; a closure is the number of the `openChannel` call that made it.
`openChannelBegin` draws the number, the steps of `RegStep` take `mtx_bk`, enter
the closure in `ch_info` (and register the exit handlers if it is the first),
release the lock, open the log file or fail. `cleanUpAtNormalExit` (once:
`exitCalled`) and `cleanUpAtAbnormalExit` (a signal, in any thread that does not
handle the same one already: `caught`; it may interrupt the holder of the lock,
or another sweep) start a sweep that locks `mtx_bk` and closes channel by
channel. Sweeps of several threads follow one another; `vouched` is what the
ended ones had to close. A sweep that meets a channel whose name is not set yet
ends in `process = "crashed"`, as the null pointer does.

In `StatusLog` each access to `mtx_outfile` or to the file is a step of
`logStatus`, `logFail` or `openStatusLogFile`, with the unlocking and
re-locking around `openStatusLogFile`; opening the file may fail.

### ConfigService

One server, started with or without a table name, and nodes that open one
channel each. `openChannelNet` sends the request, `Serve` matches it against the
table (`line` is the first entry whose pattern matches) and answers, fox
requests included: a start node stores its address in `foxStartInfo`, an end
node gets it if it is there. `Retry` and `Connect` are the loop of
`initFoxEndHandler`; `FoxEndSend`, `FoxEcho`, `FoxStartLog`, `FoxEndLog` the way
of a tuple. Identities are drawn from a set of two, so that collisions happen.
The receiver and the application's thread of a start node write to one stream
without a lock (`fox_start_handler.cpp:71` and `82`); each line is one append.

### SamplingHandlers, PeriodicCounter, TimeArith

`SamplingHandlers` has one channel of any of the handlers, calls of `logTS`,
`parameterizeChannel` for one argument, for all of them, or for a number with a
postfix, and `closeChannel`; `logf` is what the file holds, `calls` and the
other history variables what was asked for. Formats are abstracted to the
fields a record has. Garbage in an uninitialised slot is a choice of two values.
The arguments of the X-out-of-Y handler are unsigned words of `WORD` values, and
its mask is taken bit by bit (`bitAnd`); `checkConsistency` looks at Y as the
nearest `double` (`toDouble`), a number of `DBL_MANT_DIG` bits.
`PeriodicCounter` advances a clock by gaps below, at and above the period and
records each line of the file by what it says. The skipped intervals are kept in
a `uint32_t` of `UINT32` values, as are their sums; `outran` remembers that a
tuple has come too late for that. `TimeArith` translates the
operations on time-stamps and numbers as operators and drives them with a clock
that is advanced again and again and with numbers at the limits of each format.

### TscSession, TscPair, GpioRtt

`TscSession` follows master and slaves message by message: registration,
command ports, the request to both slaves of a pair, the pings, both answers,
the report, the end of the session and the registration for the next one.
ZeroMQ keeps messages for an endpoint until somebody binds it, and drops what a
closed socket has not handed over. `TscPair` has the three modes of the
stand-alone slaves, with one or two threads in the first. `GpioRtt` has the
four wires and what each board remembers of them; one action per pin that is
set or looked at. The wires start at any levels, since `initGPIO` clears a
board's own outputs only and nothing resets them at exit.

### TupleStream and ZmqChannel

`TupleStream` has the loader (`Load`), one sending thread per client
(`EmitThread`: greeting, barrier, tuples per budget, pills), the receiving
threads (`ClientThread`), their bounded queues and `mt_recvStr`. `source` says
what feeds the queues: bytes, strings, or the process itself. A polling loop
ends at any reading of the clock that is late enough. `ZmqChannel` has channels
of each kind (blocking, bucket with a timeout, bucket at intervals), the timer's
thread and the variables it shares with the channels, one action per access.
A channel is closed at any time, and the first close that gets there deletes the
timer of all: a fetch that goes on reads any time from it, a second close
crashes, as do a close without a timer and the close of a bucket channel, which
has no `ch_fpc`. `fetchZMQStr` and `fetchZMQStrNB` return the address of what a
message held that is destroyed on return: the string made of it is the message
or anything (`garbled`), while the buckets tell which message filled which
place. Calls of ZeroMQ succeed.

### NtpLogger, LogConverter, JavaAgent, SpinBarrier, ArmFreq

`NtpLogger` counts time in ticks and lets a measurement take any time;
`ntp_iteration` wraps at `NtpUINT`. `LogConverter` reads logs that are whole,
cut off, damaged or unreadable, item by item, in its two passes. `JavaAgent` has
one action per access to the flag or to the pointer to it, by the sampling
thread and by each shutdown hook. `SpinBarrier` has one action per access to a
counter; `ArmFreq` uses it as `clock_test.cpp` does.

## Runs

A property may be a conjunction of named parts, each stated and explained where
it is defined.

| Run | Instance | Shows |
|---|---|---|

| `comp` | one compressed channel, two compression threads, a pool of three blocks, three tuples | `TypeOK`; `LogInOrder`, `ClosedIsComplete`, `NoLossAtExit` with reordering, as long as no two pushes to the return ring overlap: three blocks can overtake each other, and the block that closes the file can arrive first |
| `races` | a compressed and a TSC channel opened and closed at any time, loop condition read in two steps | the pipeline implements `DurableLog` (`KeepsPromise`) even where data is lost at exit |
| `exit` | two compressed channels, one of whose files does not open, fair scheduling | `NormalExitEnds`; a polling caller gets a block (`PollingEnds`) |
| `fpc` | two counting channels, one of whose files may fail to open, two periods, an event per channel, one move, an interval per period, fair scheduling | `TypeOK`, `NothingLeftBehind`, `CountConserved`, `FileAccounts`, `SampledByOne`, `CallsReturn`, `ThreadsEnd` |
| `api` | three nodes in three deployments (two start nodes; one start and two end nodes; an end node alone), three tables; two threads that open two channels, ask, close and exit, and a signal in either; two threads that log two messages | `ConfiguredRight` (first entry, one start node, the right address), `LogsAgree` (own echo, both logs), `ChannelsKept` (own number, handle listed, exit handlers registered once, channels that a sweep found closed, by however many sweeps), `LogGuarded`; `NodesServed` and `CallsReturn`: every call returns |
| `sampling` | two uncompressed buffered channels, pools of two one-tuple blocks, two tuples each, pushes to the return ring at any time; every handler with its parameters changed twice in five calls; fourteen ticks of the periodic counter; numbers at the limits | `OneHolder` and `NoLossAtExit` for buffered channels, signals included; `LoggedAsPromised`, `TimeLineComplete`, `AgreesWithIntegers` |
| `emit` | two threads, bytes, strings or self-feeding, queues of one; two ZeroMQ channels of each kind, three tuples, buckets of two | `StreamIntact`, `OnSchedule`, `BucketsPartition`, `ThreadDoneFirst` with closes at any time, `FetchersServed` |
| `rtt` | three slaves on two hosts in sessions of two, two sessions; three messages in each mode of a pair; three GPIO tuples, from any levels of the wires; seven ticks of ntplogd; two logs out of ten; two samples and a hook; three threads, two rounds of the barrier | `PairsKeptApart`, `ShortestKept`, `SessionsHeld`, `BoardsInStep`, `RowsAsAsked`, `NotEarly`, `ConvertedFaithfully`, `FlagOutlivesUse`, `ArrivedFirst`, `ProgramsEnd` |
| `loss_mixed` | a compressed and an uncompressed channel | **violated** `NoLossAtExit`: closing the last compressed channel stops the IO thread under the open uncompressed one |
| `return_push` | the channel of `comp`, two compression threads that push at any time | **violated** `OneHolder`: both pushes take the same slot of the single-producer return ring, and a block is in no place any more |
| `fpc_exit` | one counting channel, exit during a move | **violated** `CallsReturn`: the exit's job goes to a thread that does not exist yet |
| `median` | windows of three time-stamps | **violated** `MedianOfWindow`: the call that fills a window takes no stamp and slot 0 is never written |

Deadlock is checked in `comp`, `exit`, `fpc`, `fpc_exit` and `return_push`. In
the other runs the system may stop: programs end, an application that has used
up its bounded calls is done, and the hangs and crashes described below are
among the behaviours of `races`, `api` and `emit`. Where a part must go on, a
temporal property says so.

Each violated run checks a sentence of the repository (quoted in PROJECT.json)
against the code.

### Other disagreements

These can be reproduced by changing constants or reading the action named; no
run is kept for them.

`BufferPipeline`:

* two compressed channels, the second opened after the first was closed
  (`Races = {"overlap"}`): `NoLossAtExit` is violated, because `stop_io_thread`
  is not reset for the second generation of threads;
* one channel in `Tsc` under `FairSpec`: `NormalExitEnds` is violated, because
  its close counts nothing off and the join never returns;
* one channel: the invariant `NoCrash` is violated, because the pointer to the
  IO thread is tested and then loaded again;
* `Races = {"async_exit"}`: `WritesOwnBlock` is violated, because the block is
  handed over under a running `logTS`;

* `IO_QUEUE_SIZE = 1` with a compressed channel loses a block whose push failed;
* `Races = {"loop_test"}` with a compressed and an uncompressed channel ends the
  IO thread while the first compressed channel opens;
* `Races = {"overlap"}` with uncompressed channels loses one opened between the
  IO thread's last look at `num_buf_ch` and `io_thread_created = false`;
* a signal that comes after the IO thread has read `quick_term` leaves the
  process running with every channel closed.

`FastPeriodicCounter`: the thread for the default period ends whenever it has
no channel, although comments at lines 267 and 365-368 keep it until no channel
is open; with `Races = {"log"}` an event logged between the last exchange of a
counter and the switch to `NullHandler` is in no count.

`ChannelRegistry` and `StatusLog`: a signal that interrupts the holder of
`mtx_bk`, in a sweep too, deadlocks with itself (`CallsReturn` excludes it); a
sweep that meets a channel without a name ends in "crashed"; a channel opened
after the sweep stays open, as does the file of a channel whose parameterisation
failed; a `logStatus` that finds the file closed writes without the mutex and
then unlocks one it does not hold (`LogGuarded` speaks of the time before).

`ConfigService`: after its retries an end node connects to an address it never
got; tuples echoed before the start node's file is open, or after it is closed,
are in no log of the start node; two end nodes that draw the same identity leave
one waiting for ever; a second start node ends the server; a start node whose
log fails to open stays registered.

`SamplingHandlers`, `PeriodicCounter`, `TimeArith`: a sampling factor below 1 is
accepted, where `downsample_handler.cpp:56-57` means to refuse it (the test never
holds); setting all parameters of XoY checks the new Y against the old X; X = 0 and
Y = 0 are accepted, where `XoY_handler.h:27-31` says that the channel is closed, and
so is every Y whose nearest `double` is a power of two: 2^53 + 1, or 2^64 - 1, which
is what -1 is (`EveryNth` and `XoYExact` speak of the other factors); a tuple that
comes 2^32 periods late or more leaves a time line with wrong periods
(`periodic_counter_handler.cpp:164` and `196-197`; `outran`), which at the period of
1 ns takes 4.3 s; a
parameter list of the wrong length returns -1 and leaves the channel open;
`setArg` works on a closed channel; IDENTITY with a compressing format has no
handler function; a period of 0 is accepted and divides the next late tuple by
zero; `divideTS` wraps around in the last second it accepts.

`TscSession`, `TscPair`, `GpioRtt`: slaves beyond `nr_slaves` get no answer; the
option `-m` is overridden once few sessions are left; `iteration` wraps below
zero when the master runs without end; a bulk size of 0 loops for ever and 0
iterations divide by zero; a server thread on the GPIO board that cannot set its
affinity leaves the client spinning; pins that an earlier run has left high let a
board through the barrier before the other is there: `BarrierMeets` is violated
(`BoardsInStep`, about the signals after the barrier, holds all the same).

`TupleStream`, `ZmqChannel`: string tuples have no pills; at up to a thousand
tuples a second a budget holds all tuples of a second, and more are sent than
asked for; closing a channel without a timer, or one of the kind "bucket", reads
through a null pointer; closing one with a timer frees it under all the others,
which read it and delete it again (`CloseWithoutTimer`, `CloseRest`,
`DeleteTwice`, `elapsed`); a string fetched one by one may not be the message's
(`garbled`); the first bucket fetched before the first tick times out at once.

Programs: a log the converter cannot open is read for ever (`"spins"`), and the
formats of TSC logs are left alone; a block that does not decompress writes what
is left in the buffer; with two shutdown hooks the Java agent's flag is used
after it was freed; an interval of 0 makes ntplogd measure without a pause, and a
failing chronyc ends it; a failing log of one thread of armfreq ends the process.

### Bounds

A pool of two or three blocks with one tuple per block and as many tuples makes
the ring wrap, the caller wait for an empty block, and blocks overtake each
other; two threads of a kind are the fewest that can race; two channels the
fewest that share threads and counters. The queues of `comp`, `races` and `exit`
are large enough not to fill (a full IO queue is the separate loss above); those
of the buffered channels in `sampling` fill. In `fpc`, two channels on the
default thread, one of which moves away, make batches of several jobs, a thread
that starts and one that ends while jobs arrive.

In `api`, three nodes are one start node with two end nodes that may take each
other's echo, or two start nodes; two tuples in a row are enough to take one
echo for another; two threads and two channels let a sweep meet a channel in
each of its states, and exit and one signal (`MaxSignals`) two sweeps meet each
other. In `sampling`, five calls go past a window or a period of each handler
(3, 2 of 4, windows of 3) before and after a change of its parameters, with
tuples of both signs; factors of 0 and -1 and, with a `double` of three bits, a
9 that is rounded to 8 are among the settings; a `uint32_t` of four values
wraps; seconds of four nanoseconds make every carry and borrow happen. In
`emit`, queues of one tuple fill, the one budget of the schedule is missed and
caught up with (several budgets are left to the theorem `SentOnSchedule`), and
three tuples make a full and a short bucket. In `rtt`, three slaves on two hosts
for sessions of two let slaves share a port and a third come late; two sessions
make slaves register again; a bulk of two does not divide three messages; a
counter of four (or three) values wraps; two rounds of the barrier let a thread
be a round ahead. The names of all bounds start with `Max` or `Nr`, and each
declaration says what it bounds.

### Fairness

`FairSpec` assumes weak fairness of every thread that exists: of the remaining
steps of a call once it was made, of each background thread and of the exit
handler. The code polls and blocks only on conditions of its own, so this is no
more than a scheduler that does not starve a thread. Requests (open, log, close,
move, exit, signal) are never forced. An interval need not end.

The MC modules make the same assumption of each process and thread of their
parts. Besides, in `emit` and for `NtpLogger` the clock advances; in
`ChannelRegistry` a thread's steps are strongly fair, because a mutex that is
free again and again is got at some time, which weak fairness would not say.
ZeroMQ delivers what is sent to a bound socket, as the code relies on.

## Proofs

tlapm proves the theorems below for all constants that satisfy the assumptions
of the modules (sets that are apart, sizes and bounds that are natural numbers):
any number of channels, threads, nodes, blocks, tuples and messages, any size of
a queue. Each rests on an inductive invariant: `Init => Inv`, `Inv` kept by
every action, and `Inv => property`. A step lemma has one case per action and,
under it, one step per part the action disturbs; the parts it leaves alone are
covered by one frame lemma.

Some properties are about values that a recursive function or a fold gives (the
tuples in a log of chunks, the counts in a file, the digits of a number, the bits
of a mask). They are proved as well, from two lemmas of `SequenceFacts`.
`SetInduction` is induction over the natural numbers for a set instead of a
predicate; it is proved by counting: a successor-closed set with a gap would give
an injection from a finite set into a smaller one. `RecursionExists` says that a
definition `f[n] == G(n, f[h(n)])` with `h(n) < n` has a solution, which gives the
recursive functions of the models their defining equations.

Hypotheses on the schedule are written into the statement. `Races` holds the
schedules that a theorem allows; where one is excluded, the section on other
disagreements gives the execution that breaks the property with it.

### Buffered channels

* `BufferPipelineProofs!TypeCorrect`: `Spec => []TypeOK`, for every `Races`. The
  invariant is inductive because it also says which pointers are set where (a
  channel past `openChannel` has a block of its own; a thread at a step that
  follows a block pointer has one; ring slots hold blocks of their channel).
* `BufferPipelineProofs!BlockHeldOnce`: `Spec => []OneHolder`, if no channel is
  compressed and "async_exit" is not in `Races`: then only IO threads push to a
  return ring, and one of them works at a time, so that no push has to be
  assumed apart from another. With compression the run `return_push` has the
  counterexample. That a block is in one place only is not inductive by itself:
  each kind of place would have to be compared with each other. The history
  variable `holder` names the place a block was put last, and `HolderInv` says
  of each kind of place that the blocks in it are those that `holder` says, each
  once. A step that moves a block concerns two places. It needs `CallsApart` (a
  close finds the owner outside the handler), that threads do not run before
  they are created, and that the second half of a push to a ring still has the
  slot that the first half found (`StoreRight`).
* `BufferPipelineProofs!FilesInOrder` and `ClosedComplete`: `Spec =>
  []LogInOrder` and `Spec => []ClosedIsComplete`, if "async_exit" is not in
  `Races` and pushes do not overlap (`PushesApart`: no channel is compressed, or
  "return_push" is not in `Races`), which the code does not ensure. `OrderInv`
  follows a chunk of the log: the block that the closure fills has the last
  chunk; once handed over, the block, then its copy, carries its chunk under its
  number; `next_block` counts the chunks in a compressed file; blocks of
  uncompressed channels are queued by number without a gap up to the last one
  handed over. The block that is marked to close a file is the last one, and one
  IO thread at a time works (`OneIO`), also across generations.
* `BufferPipelineProofs!FilesGrow`: an action property, under the same
  hypotheses. A file grows by one chunk at its end while it is open, and neither
  it nor the log of its channel changes once it is closed. These are the steps
  `DurableLog` allows, in chunks.
* `BufferPromiseProofs!PromiseKept`: `Spec => KeepsPromise`, the refinement of
  `DurableLog`, under the same hypotheses. The mapping flattens the chunks of a
  log and of its file into tuples; `PromiseInv` adds to `OrderInv` that the
  chunks of a log are a cut of 1, 2, ..., `logged` (`LogRuns`), and lemmas about
  `FlattenSeq` say what a tuple added to the last chunk, and a chunk added to
  the file, do to the flattened sequences. Every action then is `Log`,
  `LogThrough` or `Flush` of one channel, or a stutter.
* `BufferPromiseProofs!NothingLost` and `NothingLostCompressed`: `Spec =>
  []NoLossAtExit` if `Races` and `Tsc` are empty, there are finitely many
  channels, and none, or each, of them is compressed; in the second case as long
  as the IO queue has room whenever a compression thread pushes
  (`[]RoomForCopies`), because `enqueueFullBlockFromCompThread` drops the copy
  otherwise. Each hypothesis is needed: the section on other disagreements and
  the run `loss_mixed` have the losses without them. `CalmInv` is about
  counting: `num_buf_ch` and `num_comp_ch` are the numbers of channels between
  their increment and their decrement, so that 0 means that every channel has
  handed over its last block; `stop_io_thread` is the number of compression
  threads that have ended. An IO thread leaves its loop only when every channel
  is shut and every compression thread has ended, with nothing in their hands or
  in their queue, and it ends with its own queue empty and nothing parked.

### Fast periodic counters

* `FastPeriodicCounterProofs!TypeCorrect` and `NoWorkLost`: `Spec => []TypeOK`
  and `Spec => []NothingLeftBehind`, for every `Races`. That a thread ends only
  without work follows from the second look under the lock; that a batch never
  outruns its queue needs `Carrying`: a thread that passes a moved channel on
  has the rest of its batch still queued.
* `FastPeriodicCounterProofs!CountsConserved` and `OneSampler`:
  `[]CountConserved` and `[]SampledByOne`, if "exit" is not in `Races` (other
  threads may log during calls). The invariant `CountInv` ties each queued job
  to the one call that waits for it (`JobRight`), each call to at most one job,
  and the place of a call to where its channel is sampled.
* `FastPeriodicCounterProofs!FilesAccount`: `[]FileAccounts`, if `Races` is
  empty: with "log" an event after the last exchange is in no file.

### Registry, status log, configuration service (`ApiProofs`)

* `KeptAndClosed`: `RegSpec => []ChannelsKept`, for any number of sweeps.
  `RegInv` says which closure each thread inside `openChannel` has in hand,
  which no invariant of `ch_info` does, and that the sweep that holds `mtx_bk`
  has closed what lies before its index.
* `StatusGuarded`: `LogSpec => []LogGuarded`, with `Guarded`: threads inside the
  critical section hold the mutex, unless a `logStatus` has found the file
  closed.
* `ConfiguredAsListed`: `ConfSpec => []ConfiguredRight`. `ConfInv` has the
  messages on their way: at most one between a node and the server
  (`OneMessage`), a reply that is that of the node's entry (`ReplyRight`), and a
  node whose address the server has that receives, or has the reply that makes
  it receive (`StartRight`). The last is what excludes a second receiver, since
  a start node asks twice. `LineFirst` says that `line` is the least matching
  entry, because entries of a table are numbered.
* `RoundTripsAgree`: `ConfSpec => []LogsAgree`. `FoxInv` follows a tuple: one
  that was sent is on its way, with the receiver, in the log or lost, in one
  place and once (`OnePlace`); a tuple on its way, or its echo, is the one its
  node waits for (`Awaited`).

### Emitter (`EmitProofs`)

* `TimerOutlivesThread`: `ZmqSpec => []ThreadDoneFirst`, for channels opened and
  closed at any time. `TimerInv` relates `terminated`, which is all a close
  looks at, to the place of the timer's thread, from before it has run at all.
* `BucketsCut`: `ZmqSpec => []BucketsPartition`. `BucketInv` says that the
  buckets returned, the one being filled and what is on its way are a cut of the
  stream 1, 2, ... into runs (`Cut`); lemmas say what each step does to a cut.
  It holds also for fetches whose timer was deleted.
* `StreamKept` and `ThreadsStartTogether`: `StreamSpec => []StreamIntact` and
  `[]StartTogether`. That what was received is what was emitted needs more than
  queues: until its client has read it, the first message of a socket is in
  front of the tuples. `StartRight` relates the place of each thread, the
  barriers it has passed and the state of its client, so that no tuple enters a
  socket without a client; `LoadRight` counts what `loadOneTuple` has loaded.
* `SentOnSchedule`: `StreamSpec => []OnSchedule`, if more than a thousand tuples
  a second are asked for and seconds and milliseconds are whole multiples of the
  smaller units, as in `globals.h` (`Rates`). The sends of a thread are not
  counted anywhere; `RateInv` reads their number from the end of the current
  budget, which `mt_emitScheduler` moves by one budget at a time and never
  recomputes from the clock. A budget is begun only before `TS_END`, so that
  there are at most as many as fit, and each has a thousandth of a second's
  tuples, rounded down. At up to a thousand tuples a second `OnSchedule` does
  not hold, see the other disagreements.

### Programs (`ProgramProofs`)

* `BarrierHolds`: `BarrierSpec => []ArrivedFirst`. A waiting thread has looked at
  the counters before `thr` when they were as high as its own level, which
  counters that only grow keep true.
* `AgentFlagSafe`: `AgentSpec => []FlagOutlivesUse`, from the assumption `OneHook`.
  Until the hook has written, the flag is false and the thread cannot free it.
* `NtpRows` and `NtpSchedule`: `NtpSpec => []RowsAsAsked` and `[]NotEarly`, for
  every width of the counter. `RowsOwed` says that rows printed and the counter
  add up to what was asked for, which is where the wrap-around has to be excluded
  (`SmallMod`); `Schedule` where the completion time stands.
* `GpioInStep`: `GpioSpec => []BoardsInStep`, from any levels of the wires. The
  invariant gives,
  for each pair of places of the two boards that can occur together, the levels
  of the wires, from which each board can tell where the other is.
* `TscPairsApart`: `TscSpec => []PairsKeptApart`, for finitely many slaves. No
  slave knows what the others do; `TscInv` follows each message between the master
  and a slave (at most one is on its way, and both agree on what comes next), from
  which only the two slaves of the current pair are past their command. That every
  slave of a session has a command port of its own is a pigeonhole argument over
  the ports the master hands out.
* `TscShortest`: `TscSpec => []ShortestReported`, the part of `ShortestKept` about
  the slaves of a session: what is sent to the master is the least of the samples
  taken for this request.
* `PairShortest`: `PairSpec => []ShortestPrinted`, the part of `ShortestKept` about
  a pair, in its three modes. `PairInv` counts messages sent, on their way and
  received (`Conserved`), also with a last bulk that is shorter, and carries the
  time-stamps of a message with it (`Carried`).

### Time, handlers that write at once, converter (`TimeProofs`)

* `TimeAgrees`: `TimeSpec => []AgreesWithIntegers`, for every number of
  nanoseconds in a second: addition, subtraction, comparison and halves of
  time-stamps, parts of a duration, and a comma after every third digit of a
  number.
* `PeriodicTimeLine`: `PeriodicSpec => []TimeLineComplete`, for every width of
  the counter of skipped intervals: that counts add up to the tuples handled
  without a condition, that periods add up to the time until one was outrun.
  `PeriodInv` says that the current period has begun: without it, that the
  tuples counted are of that period is not inductive, since a tuple only tests
  that the period is not over. `Ledger` adds up what the lines of the file say:
  counts to the tuples handled, periods to the time since the start.
* `SampledAsPromised`: `SamplingSpec => []LoggedAsPromised`. For the X-out-of-Y
  handler, `MaskExact` says that masking a word with Y - 1 gives the remainder
  by Y, also of a negative tuple, if Y is a power of two; `XoYGood`, that every
  sequence of settings leaves an X of at most Y and a Y whose nearest `double`
  is a power of two, which Y itself is if it has at most `DBL_MANT_DIG` bits.
  The proof assumes of `Y_FACTOR` what its comment asks for (`XoY_handler.h`,
  "must be power of 2"). For downsampling, the counter is the number of calls
  since the last sample, and not past the factor once a call was made with it
  (`DownInv`): this is what is false between a smaller factor and the next call,
  and why `EveryNth` speaks of samples after the last setting, and of factors
  from 1 up. A setting of both factors that is refused half-way has set Y all
  the same, and counts as a setting (`refuseRest`).
* `ConverterFaithful`: `ConvSpec => []ConvertedFaithfully`. `ConvInv` says of
  each log, for each pass and place of the converter, which files exist and how
  much of the log they hold.

### Only model-checked

* Liveness, and everything under fairness: out of the prover's reach.
* The part `EveryPairReported` of `ShortestKept`: the order of the results comes
  from `SetToSortSeq` with a strict comparison, which says nothing of equal ones.
* `SessionsHeld`, of which one part is safety (a master that goes on for ever is
  never done): it is checked with the liveness it belongs to.
* `NoLossAtExit` where compressed and uncompressed channels are mixed, where it
  fails (`loss_mixed`).
* `MedianOfWindow`, `CallsReturn` of `fpc_exit`, `OneHolder` of `return_push`:
  violated, see Runs.

## Not modelled

In modelled parts: a failing codec; the 200 entries of `next_block` and
`pending`; the life time of jobs and blocks in memory; formatting;
`closeStatusLogFile`, `toggleConsoleLog` and `setLogFileName`, which the library
does not call; the deprecated and single-threaded receivers of the emitter.

Parts marked `not_modelled` in PROJECT.json: the fox and configuration test
clients and the drivers under `cp_test` only call what is modelled; the tables
of `default_conf.h` are data; `time_io.cpp` and `formatTS` format; the Java
bindings are glue; the oversubscription check reads `/proc` and prints; the TSC
frequency query, the PMU module, the loopback test and the scripts read hardware
or finished logs and keep no state; vendored code is not this program's.

## Plan

Done: `BufferPipeline` with its abstract specification and `FastPeriodicCounter`,
the two places where threads share most; then the registry, the status log, the
configuration service with the fox channels, the sampling handlers, the
measurement protocols, the emitter and the programs.

Proved: every invariant that a passing run checks, for all constants or under the
hypotheses given, except the parts named under "Only model-checked"; and that
`BufferPipeline` implements `DurableLog`.

Left: liveness, which stays with the runs; an abstract specification for the fast
periodic counter, in the manner of `DurableLog`; a `LogConverter` that also has the
formats of TSC logs, once the program reads them.
