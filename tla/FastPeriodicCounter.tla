------------------------ MODULE FastPeriodicCounter ------------------------
(***************************************************************************)
(* handlers/fast_periodic_counter_handler.cpp: channels that count events, *)
(* and the sampling threads that write the counts to the log files.        *)
(*                                                                         *)
(* There is at most one sampling thread per period.  The API calls hand it *)
(* jobs (insert, move, delete a channel) and wait until they are done; a   *)
(* move passes its job on to the thread of the new period.  A thread ends  *)
(* when it has neither channels nor jobs left.                             *)
(***************************************************************************)
EXTENDS Integers, Sequences, FiniteSets

CONSTANTS
  Chans,              \* the channels, each with the thread that uses it
  EXIT,               \* the thread that runs closeAllChannels at exit
  Unopenable,         \* channels whose log file may fail to open
  Periods,
  FPC_DEFAULT_PERIOD,
  NR_MOD,             \* nr_open_channels is counted modulo this (2^32)
  MaxEvents,          \* bound on the events per channel
  MaxMoves,           \* bound on the parameterizeChannel calls
  MaxTicks,           \* bound on the sampling intervals per period
  Races               \* schedules allowed on top of the well-behaved ones

(***************************************************************************)
(* Races may hold                                                          *)
(*   "log"   other threads log on a channel during calls of its own thread;*)
(*   "exit"  closeAllChannels runs during calls of the channels' threads.  *)
(***************************************************************************)
ASSUME SetsAssumption ==
  /\ Unopenable \subseteq Chans
  /\ Chans # {}
  /\ EXIT \notin Chans
  /\ Races \subseteq {"log", "exit"}
  /\ FPC_DEFAULT_PERIOD \in Periods

ASSUME BoundsAssumption ==
  /\ NR_MOD \in Nat \ {0}
  /\ MaxEvents \in Nat
  /\ MaxMoves \in Nat
  /\ MaxTicks \in Nat

VARIABLES
  \* FPC_closure; out is what the log file shows
  ctr, total_ctr, period, skipped, isRefCounted, handler_f, logf, out,
  nr_open_channels,
  \* thr_map and the thr_descriptors: place in thr_f, channels, jobs, how many
  \* jobs are left of the batch, the job being moved
  tpc, closures, j_queue, nr_jobs, moving,
  \* the API calls: place, channel, whether the caller's job is completed,
  \* where it goes after waiting for it, and the channels that
  \* closeAllChannels has not come to
  pc, on, jobCompleted, then, todo,
  \* history and bounds: events counted, intervals sampled, calls, intervals
  events, intervals, moves, ticks

chanVars == <<ctr, total_ctr, period, skipped, isRefCounted, handler_f, logf,
              out>>
thrVars  == <<tpc, closures, j_queue, nr_jobs, moving>>
callVars == <<pc, on, jobCompleted, then, todo>>
histVars == <<events, intervals, moves, ticks>>

vars == <<chanVars, nr_open_channels, thrVars, callVars, histVars>>

Callers == Chans \cup {EXIT}

Job == [type : {"INSERT", "MOVE", "DELETE"}, ch : Chans, target : Periods,
        by : Callers]

NoJob == [type |-> "none"]

\* What the counts in a log file add up to, how many intervals it accounts
\* for, and the total it ends with (-1 as long as there is none).
File == [sum : Nat, intervals : Nat, total : Int]

Init ==
  /\ ctr = [c \in Chans |-> 0]
  /\ total_ctr = [c \in Chans |-> 0]
  /\ period = [c \in Chans |-> FPC_DEFAULT_PERIOD]
  /\ skipped = [c \in Chans |-> 0]
  /\ isRefCounted = [c \in Chans |-> FALSE]
  /\ handler_f = [c \in Chans |-> "none"]
  /\ logf = [c \in Chans |-> "none"]
  /\ out = [c \in Chans |-> [sum |-> 0, intervals |-> 0, total |-> -1]]
  /\ nr_open_channels = 0
  /\ tpc = [p \in Periods |-> "none"]
  /\ closures = [p \in Periods |-> {}]
  /\ j_queue = [p \in Periods |-> <<>>]
  /\ nr_jobs = [p \in Periods |-> 0]
  /\ moving = [p \in Periods |-> NoJob]
  /\ pc = [k \in Callers |-> IF k = EXIT THEN "run" ELSE "new"]
  /\ on = [k \in Callers |-> IF k = EXIT THEN CHOOSE c \in Chans : TRUE ELSE k]
  /\ jobCompleted = [k \in Callers |-> FALSE]
  /\ then = [k \in Callers |-> "idle"]
  /\ todo = {}
  /\ events = [c \in Chans |-> 0]
  /\ intervals = [c \in Chans |-> 0]
  /\ moves = 0
  /\ ticks = [p \in Periods |-> 0]

-----------------------------------------------------------------------------
(* Writing to the log file, which drops what it gets while it is not open. *)

\* Variant: the intervals without an event are not written.
writeCount_unskipped(c, n, ticked) ==
  [sum |-> out[c].sum + n, intervals |-> out[c].intervals + ticked,
   total |-> out[c].total]

\* A count, after the intervals without an event that precede it and with the
\* interval it ends (ticked = 1) or without it
writeCount(c, n, ticked) ==
  [sum |-> out[c].sum + n,
   intervals |-> out[c].intervals + skipped[c] + ticked,
   total |-> out[c].total]

\* A count on its own (printCtrStart)
firstCount(c) ==
  [sum |-> out[c].sum + ctr[c], intervals |-> out[c].intervals,
   total |-> out[c].total]

\* The end of the file: the last count, then the total with it
lastWrite(c) ==
  [sum |-> out[c].sum + ctr[c], intervals |-> out[c].intervals + skipped[c],
   total |-> total_ctr[c] + ctr[c]]

writeTo(c, f) == out' = [out EXCEPT ![c] = IF logf[c] = "open" THEN f ELSE @]

\* Variant: the count is not added to the total.
flushCounter_untotalled(c) ==
  /\ ctr' = [ctr EXCEPT ![c] = 0]
  /\ UNCHANGED total_ctr

\* ctr.exchange(0), added to total_ctr
flushCounter(c) ==
  /\ ctr' = [ctr EXCEPT ![c] = 0]
  /\ total_ctr' = [total_ctr EXCEPT ![c] = @ + ctr[c]]

-----------------------------------------------------------------------------
(* thr_map, guarded by mtx_thr_map.                                        *)

\* Start the thread of the period if there is none.
enqueueJobWithThrDescriptor(p, j) ==
  /\ j_queue' = [j_queue EXCEPT ![p] = Append(@, j)]
  /\ tpc' = [tpc EXCEPT ![p] = IF @ = "none" THEN "sample" ELSE @]

\* Without a thread the job goes nowhere.
dequeueJobFromThrDescriptor(p, j) ==
  /\ j_queue' = IF tpc[p] = "none" THEN j_queue
                ELSE [j_queue EXCEPT ![p] = Append(@, j)]
  /\ UNCHANGED tpc

-----------------------------------------------------------------------------
(* The API calls.                                                          *)

Running == pc[EXIT] # "exited"

\* The program's threads make calls: without the race they are joined before
\* main returns.
AppRunning == pc[EXIT] = "run" \/ ("exit" \in Races /\ Running)

\* openChannel enters the channel in ch_info, under mtx_bk, which
\* closeAllChannels keeps; then FPC_closure::openChannel up to the job
OpenChannel(c) ==
  /\ pc[EXIT] = "run"
  /\ pc[c] = "new"
  /\ handler_f' = [handler_f EXCEPT ![c] = "FPC"]
  /\ \/ /\ c \in Unopenable
        /\ pc' = [pc EXCEPT ![c] = "defect"]
        /\ UNCHANGED <<logf, isRefCounted, nr_open_channels>>
     \/ /\ pc' = [pc EXCEPT ![c] = "insert"]
        /\ logf' = [logf EXCEPT ![c] = "open"]
        /\ nr_open_channels' = (nr_open_channels + 1) % NR_MOD
        /\ isRefCounted' = [isRefCounted EXCEPT ![c] = TRUE]
  /\ UNCHANGED <<ctr, total_ctr, period, skipped, out, thrVars, on,
                 jobCompleted, then, todo, histVars>>

\* A job is made and handed over; its caller waits for it.
Submit(k, next) ==
  /\ pc' = [pc EXCEPT ![k] = "wait"]
  /\ then' = [then EXCEPT ![k] = next]
  /\ jobCompleted' = [jobCompleted EXCEPT ![k] = FALSE]
  /\ UNCHANGED <<on, todo>>

NewJob(k, type, target) ==
  [type |-> type, ch |-> on[k], target |-> target, by |-> k]

InsertChannel(c) ==
  /\ Running
  /\ pc[c] = "insert"
  /\ enqueueJobWithThrDescriptor(period[c], NewJob(c, "INSERT", period[c]))
  /\ Submit(c, "idle")
  /\ UNCHANGED <<chanVars, nr_open_channels, closures, nr_jobs, moving,
                 histVars>>

\* setArgFastPeriodicCounterHandler with a value that is not negative
SetArg(c, p) ==
  /\ AppRunning
  /\ pc[c] = "idle"
  /\ moves < MaxMoves
  /\ moves' = moves + 1
  /\ enqueueJobWithThrDescriptor(period[c], NewJob(c, "MOVE", p))
  /\ Submit(c, "idle")
  /\ UNCHANGED <<chanVars, nr_open_channels, closures, nr_jobs, moving,
                 events, intervals, ticks>>

\* logTS -> FastPeriodicCounterHandler
LogTS(c) ==
  /\ AppRunning
  /\ pc[c] = "idle" \/ ("log" \in Races /\ pc[c] \notin {"new", "defect"})
  /\ handler_f[c] = "FPC"
  /\ events[c] < MaxEvents
  /\ ctr' = [ctr EXCEPT ![c] = @ + 1]
  /\ events' = [events EXCEPT ![c] = @ + 1]
  /\ UNCHANGED <<total_ctr, period, skipped, isRefCounted, handler_f, logf,
                 out, nr_open_channels, thrVars, callVars, intervals, moves,
                 ticks>>

\* closeChannel, a poison pill, or an argument that is out of range; a second
\* close only nags
CloseChannel(c) ==
  /\ AppRunning
  /\ pc[c] = "idle"
  /\ pc' = [pc EXCEPT ![c] = "close"]
  /\ UNCHANGED <<chanVars, nr_open_channels, thrVars, on, jobCompleted, then,
                 todo, histVars>>

\* FPC_closure::closeChannel: if (isRefCounted) nr_open_channels--
CloseCount(k) ==
  /\ Running
  /\ pc[k] = "close"
  /\ IF isRefCounted[on[k]]
       THEN /\ nr_open_channels' = (nr_open_channels - 1) % NR_MOD
            /\ pc' = [pc EXCEPT ![k] = "unref"]
       ELSE /\ pc' = [pc EXCEPT ![k] = "closefile"]
            /\ UNCHANGED nr_open_channels
  /\ UNCHANGED <<chanVars, thrVars, on, jobCompleted, then, todo, histVars>>

\* ... isRefCounted = false, and the DELETE_CHANNEL job
CloseDelete(k) ==
  /\ Running
  /\ pc[k] = "unref"
  /\ isRefCounted' = [isRefCounted EXCEPT ![on[k]] = FALSE]
  /\ dequeueJobFromThrDescriptor(period[on[k]],
                                 NewJob(k, "DELETE", period[on[k]]))
  /\ Submit(k, "closefile")
  /\ UNCHANGED <<ctr, total_ctr, period, skipped, handler_f, logf, out,
                 nr_open_channels, closures, nr_jobs, moving, histVars>>

\* waitCompletion
WaitCompletion(k) ==
  /\ Running
  /\ pc[k] = "wait"
  /\ jobCompleted[k]
  /\ pc' = [pc EXCEPT ![k] = then[k]]
  /\ UNCHANGED <<chanVars, nr_open_channels, thrVars, on, jobCompleted, then,
                 todo, histVars>>

\* closure::closeChannel
CloseFile(k) ==
  /\ Running
  /\ pc[k] = "closefile"
  /\ handler_f' = [handler_f EXCEPT ![on[k]] = "null"]
  /\ logf' = [logf EXCEPT ![on[k]] = IF @ = "open" THEN "closed" ELSE @]
  /\ pc' = [pc EXCEPT ![k] = IF k = EXIT THEN "scan" ELSE "idle"]
  /\ UNCHANGED <<ctr, total_ctr, period, skipped, isRefCounted, out,
                 nr_open_channels, thrVars, on, jobCompleted, then, todo,
                 histVars>>

\* main returns: closeAllChannels starts
Exit ==
  /\ pc[EXIT] = "run"
  /\ \E c \in Chans : pc[c] # "new"
  /\ "exit" \in Races \/ \A c \in Chans : pc[c] \in {"new", "idle", "defect"}
  /\ pc' = [pc EXCEPT ![EXIT] = "scan"]
  /\ todo' = {c \in Chans : pc[c] # "new"}
  /\ UNCHANGED <<chanVars, nr_open_channels, thrVars, on, jobCompleted, then,
                 histVars>>

\* ... closes the next channel of ch_info
ExitClose(c) ==
  /\ pc[EXIT] = "scan"
  /\ c \in todo
  /\ todo' = todo \ {c}
  /\ on' = [on EXCEPT ![EXIT] = c]
  /\ pc' = [pc EXCEPT ![EXIT] = "close"]
  /\ UNCHANGED <<chanVars, nr_open_channels, thrVars, jobCompleted, then,
                 histVars>>

\* ... and is done
Exited ==
  /\ pc[EXIT] = "scan"
  /\ todo = {}
  /\ pc' = [pc EXCEPT ![EXIT] = "exited"]
  /\ UNCHANGED <<chanVars, nr_open_channels, thrVars, on, jobCompleted, then,
                 todo, histVars>>

-----------------------------------------------------------------------------
(* thr_f, the sampling thread of period p.                                 *)

\* Exchange every channel's counter; write the counts that are not zero.
Sample(p) ==
  /\ Running
  /\ tpc[p] = "sample"
  /\ tpc' = [tpc EXCEPT ![p] = "jobs"]
  /\ ctr' = [c \in Chans |-> IF c \in closures[p] THEN 0 ELSE ctr[c]]
  /\ total_ctr' = [c \in Chans |->
       IF c \in closures[p] THEN total_ctr[c] + ctr[c] ELSE total_ctr[c]]
  /\ skipped' = [c \in Chans |->
       IF c \notin closures[p] THEN skipped[c]
       ELSE IF ctr[c] = 0 THEN skipped[c] + 1 ELSE 0]
  /\ out' = [c \in Chans |->
       IF c \in closures[p] /\ ctr[c] # 0 /\ logf[c] = "open"
         THEN writeCount(c, ctr[c], 1) ELSE out[c]]
  /\ intervals' = [c \in Chans |->
       IF c \in closures[p] THEN intervals[c] + 1 ELSE intervals[c]]
  /\ UNCHANGED <<period, isRefCounted, handler_f, logf, nr_open_channels,
                 closures, j_queue, nr_jobs, moving, callVars, events, moves,
                 ticks>>

\* process_job_queue: as many jobs as there are now
CountJobs(p) ==
  /\ Running
  /\ tpc[p] = "jobs"
  /\ nr_jobs' = [nr_jobs EXCEPT ![p] = Len(j_queue[p])]
  /\ tpc' = [tpc EXCEPT ![p] = IF j_queue[p] = <<>> THEN "test" ELSE "job"]
  /\ UNCHANGED <<chanVars, nr_open_channels, closures, j_queue, moving,
                 callVars, histVars>>

\* remove_job
RemoveJob(p) ==
  /\ Running
  /\ tpc[p] = "job"
  /\ j_queue' = [j_queue EXCEPT ![p] = Tail(@)]
  /\ nr_jobs' = [nr_jobs EXCEPT ![p] = @ - 1]

NextJob(p) == IF nr_jobs[p] = 1 THEN "test" ELSE "job"

signalCompletion(j) ==
  /\ jobCompleted' = [jobCompleted EXCEPT ![j.by] = TRUE]
  /\ UNCHANGED <<pc, on, then, todo>>

\* Variant: the channel stays.
dequeue_channel_kept(p, c) == UNCHANGED closures

dequeue_channel(p, c) == closures' = [closures EXCEPT ![p] = @ \ {c}]

\* Variant: the caller is not woken.
RunInsert_silent(p) ==
  LET j == Head(j_queue[p])
      c == j.ch IN
  /\ RemoveJob(p)
  /\ j.type = "INSERT"
  /\ flushCounter(c)
  /\ writeTo(c, firstCount(c))
  /\ closures' = [closures EXCEPT ![p] = @ \cup {c}]
  /\ tpc' = [tpc EXCEPT ![p] = NextJob(p)]
  /\ UNCHANGED <<period, skipped, isRefCounted, handler_f, logf,
                 nr_open_channels, moving, callVars, histVars>>

\* INSERT_CHANNEL: write the events so far and start to sample
RunInsert(p) ==
  LET j == Head(j_queue[p])
      c == j.ch IN
  /\ RemoveJob(p)
  /\ j.type = "INSERT"
  /\ flushCounter(c)
  /\ writeTo(c, firstCount(c))
  /\ closures' = [closures EXCEPT ![p] = @ \cup {c}]
  /\ signalCompletion(j)
  /\ tpc' = [tpc EXCEPT ![p] = NextJob(p)]
  /\ UNCHANGED <<period, skipped, isRefCounted, handler_f, logf,
                 nr_open_channels, moving, histVars>>

\* Variant: the job is cleared before its target is read.
targetPeriod_cleared(j) == -1

targetPeriod(j) == j.target

\* MOVE_CHANNEL: take the channel out and give it its new period ...
RunMove(p) ==
  LET j == Head(j_queue[p])
      c == j.ch IN
  /\ RemoveJob(p)
  /\ j.type = "MOVE"
  /\ c \in closures[p]
  /\ dequeue_channel(p, c)
  /\ flushCounter(c)
  /\ writeTo(c, writeCount(c, ctr[c], 0))
  /\ skipped' = [skipped EXCEPT ![c] = 0]
  /\ period' = [period EXCEPT ![c] = targetPeriod(j)]
  /\ moving' = [moving EXCEPT ![p] = [j EXCEPT !.type = "INSERT"]]
  /\ tpc' = [tpc EXCEPT ![p] = "pass"]
  /\ UNCHANGED <<isRefCounted, handler_f, logf, nr_open_channels, callVars,
                 histVars>>

\* ... and pass the job on to the thread of that period
PassOn(p) ==
  LET q == period[moving[p].ch] IN
  /\ Running
  /\ tpc[p] = "pass"
  /\ j_queue' = [j_queue EXCEPT ![q] = Append(@, moving[p])]
  /\ tpc' = [tpc EXCEPT
       ![p] = IF nr_jobs[p] = 0 THEN "test" ELSE "job",
       ![q] = IF q = p THEN (IF nr_jobs[p] = 0 THEN "test" ELSE "job")
              ELSE IF @ = "none" THEN "sample" ELSE @]
  /\ moving' = [moving EXCEPT ![p] = NoJob]
  /\ UNCHANGED <<chanVars, nr_open_channels, closures, nr_jobs, callVars,
                 histVars>>

\* MOVE_CHANNEL of a channel that is not here
RunMoveFails(p) ==
  LET j == Head(j_queue[p]) IN
  /\ RemoveJob(p)
  /\ j.type = "MOVE"
  /\ j.ch \notin closures[p]
  /\ signalCompletion(j)
  /\ tpc' = [tpc EXCEPT ![p] = NextJob(p)]
  /\ UNCHANGED <<chanVars, nr_open_channels, closures, moving, histVars>>

\* DELETE_CHANNEL: write what is left, and the total
RunDelete(p) ==
  LET j == Head(j_queue[p])
      c == j.ch IN
  /\ RemoveJob(p)
  /\ j.type = "DELETE"
  /\ flushCounter(c)
  /\ writeTo(c, lastWrite(c))
  /\ skipped' = [skipped EXCEPT ![c] = 0]
  /\ dequeue_channel(p, c)
  /\ signalCompletion(j)
  /\ tpc' = [tpc EXCEPT ![p] = NextJob(p)]
  /\ UNCHANGED <<period, isRefCounted, handler_f, logf, nr_open_channels,
                 moving, histVars>>

\* Variant: only the thread of the default period looks.
shallTerminate_default(p) == p = FPC_DEFAULT_PERIOD /\ nr_open_channels = 0

shallTerminate(p) ==
  \/ p = FPC_DEFAULT_PERIOD /\ nr_open_channels = 0
  \/ j_queue[p] = <<>> /\ closures[p] = {}

TestTermination(p) ==
  /\ Running
  /\ tpc[p] = "test"
  /\ tpc' = [tpc EXCEPT ![p] = IF shallTerminate(p) THEN "remove" ELSE "clock"]
  /\ UNCHANGED <<chanVars, nr_open_channels, closures, j_queue, nr_jobs,
                 moving, callVars, histVars>>

\* Variant: the queue is not looked at again.
removeThrDescriptor_unchecked(p) == closures[p] = {}

\* removeThrDescriptor looks again, under the lock.
removeThrDescriptor(p) == j_queue[p] = <<>> /\ closures[p] = {}

Terminate(p) ==
  /\ Running
  /\ tpc[p] = "remove"
  /\ tpc' = [tpc EXCEPT ![p] = IF removeThrDescriptor(p) THEN "none"
                                                         ELSE "clock"]
  /\ UNCHANGED <<chanVars, nr_open_channels, closures, j_queue, nr_jobs,
                 moving, callVars, histVars>>

\* Not due yet: sleep and look for jobs again.
Snooze(p) ==
  /\ Running
  /\ tpc[p] = "clock"
  /\ tpc' = [tpc EXCEPT ![p] = "jobs"]
  /\ UNCHANGED <<chanVars, nr_open_channels, closures, j_queue, nr_jobs,
                 moving, callVars, histVars>>

\* The interval is over.
FlushDue(p) ==
  /\ Running
  /\ tpc[p] = "clock"
  /\ ticks[p] < MaxTicks
  /\ ticks' = [ticks EXCEPT ![p] = @ + 1]
  /\ tpc' = [tpc EXCEPT ![p] = "sample"]
  /\ UNCHANGED <<chanVars, nr_open_channels, closures, j_queue, nr_jobs,
                 moving, callVars, events, intervals, moves>>

-----------------------------------------------------------------------------
Request(c) ==
  \/ OpenChannel(c) \/ LogTS(c) \/ CloseChannel(c)
  \/ \E p \in Periods : SetArg(c, p)

CallStep(k) ==
  \/ k \in Chans /\ InsertChannel(k)
  \/ CloseCount(k) \/ CloseDelete(k) \/ WaitCompletion(k) \/ CloseFile(k)

ExitStep == Exited \/ \E c \in Chans : ExitClose(c)

SamplerStep(p) ==
  \/ Sample(p) \/ CountJobs(p)
  \/ RunInsert(p) \/ RunMove(p) \/ PassOn(p) \/ RunMoveFails(p)
  \/ RunDelete(p)
  \/ TestTermination(p) \/ Terminate(p) \/ Snooze(p) \/ FlushDue(p)

\* A process that is gone stays gone.
Gone == ~Running /\ UNCHANGED vars

Next ==
  \/ \E c \in Chans : Request(c)
  \/ \E k \in Callers : CallStep(k)
  \/ Exit
  \/ ExitStep
  \/ \E p \in Periods : SamplerStep(p)
  \/ Gone

Spec == Init /\ [][Next]_vars

\* The operating system runs every thread of the process.
Fairness ==
  /\ \A k \in Callers : WF_vars(CallStep(k))
  /\ \A p \in Periods : WF_vars(SamplerStep(p))
  /\ WF_vars(ExitStep)

FairSpec == Spec /\ Fairness

-----------------------------------------------------------------------------
(* Properties.                                                             *)

ChanTypes ==
  /\ ctr \in [Chans -> Nat]
  /\ total_ctr \in [Chans -> Nat]
  /\ period \in [Chans -> Periods]
  /\ skipped \in [Chans -> Nat]
  /\ isRefCounted \in [Chans -> BOOLEAN]
  /\ handler_f \in [Chans -> {"none", "FPC", "null"}]
  /\ logf \in [Chans -> {"none", "open", "closed"}]
  /\ out \in [Chans -> File]

ThrTypes ==
  /\ tpc \in [Periods -> {"none", "sample", "jobs", "job", "pass", "test",
                          "remove", "clock"}]
  /\ closures \in [Periods -> SUBSET Chans]
  /\ j_queue \in [Periods -> Seq(Job)]
  /\ nr_jobs \in [Periods -> Nat]
  /\ moving \in [Periods -> Job \cup {NoJob}]

CallTypes ==
  /\ pc \in [Callers -> {"run", "scan", "exited", "new", "defect", "insert",
                         "idle", "close", "unref", "wait", "closefile"}]
  /\ on \in [Callers -> Chans]
  /\ jobCompleted \in [Callers -> BOOLEAN]
  /\ then \in [Callers -> {"idle", "closefile"}]
  /\ todo \subseteq Chans

HistTypes ==
  /\ events \in [Chans -> Nat]
  /\ intervals \in [Chans -> Nat]
  /\ moves \in Nat
  /\ ticks \in [Periods -> Nat]

\* Types: a channel's period is always one that a thread can serve, a move
\* passed on between threads included (line 238).
TypeOK ==
  /\ ChanTypes
  /\ nr_open_channels \in 0..(NR_MOD - 1)
  /\ ThrTypes
  /\ CallTypes
  /\ HistTypes

\* The queue holds at least the jobs of the batch (process_job_queue pops
\* without a test), and a thread that is gone has left nothing behind.
NothingLeftBehind ==
  \A p \in Periods :
    /\ tpc[p] = "job" => nr_jobs[p] \in 1..Len(j_queue[p])
    /\ tpc[p] = "none" => j_queue[p] = <<>> /\ closures[p] = {}

\* No event is counted twice or forgotten on its way from ctr through
\* total_ctr, which the threads that sample, move and delete a channel add
\* to, and the counts in the file add up to the same total.
CountConserved ==
  \A c \in Chans :
    /\ events[c] = ctr[c] + total_ctr[c]
    /\ out[c].sum = total_ctr[c]

\* Every interval a channel was sampled in is in its file, as a count or as
\* one of the "skipped" intervals, or is about to be.
IntervalsAccounted ==
  \A c \in Chans : intervals[c] = out[c].intervals + skipped[c]

\* A closed file is complete: its counts add up to the events logged, and so
\* does the total count at its end (printTotalCount).
ClosedFileTotals ==
  \A c \in Chans : logf[c] = "closed" =>
    out[c].sum = events[c] /\ out[c].total = events[c]

\* A log file accounts for every interval and every event (printSkippedIntervals,
\* printTotalCount).
FileAccounts == IntervalsAccounted /\ ClosedFileTotals

\* While no call on an open channel is under way, exactly one thread samples
\* it, the one for its period.
SampledByOne ==
  \A c \in Chans :
    pc[c] = "idle" /\ logf[c] = "open" /\ pc[EXIT] = "run" =>
      {p \in Periods : c \in closures[p]} = {period[c]}

\* Every API call comes back: its job reaches a thread that completes it,
\* though the thread may be ending or handing the channel to another one.
CallsReturn ==
  \A k \in Callers : pc[k] = "wait" ~> (pc[k] # "wait" \/ ~Running)

\* Once all channels are closed, the sampling threads end.
ThreadsEnd ==
  (\A c \in Chans : logf[c] = "closed") ~>
    (~Running \/ \A p \in Periods : tpc[p] = "none")
=============================================================================
