----------------------------- MODULE ZmqChannel -----------------------------
(***************************************************************************)
(* Channels that pull tuples from a generator (cpp_emit/emit.cpp, from      *)
(* openZMQChannel on) and the fetch loops that fill a bucket of             *)
(* tuningKnob tuples from one (the typemaps of cloud_profiler.i):           *)
(*   plain   fetchZMQStr, a blocking receive of one tuple;                 *)
(*   bucket  fetchZMQBucket, ends when nothing came for TIMEOUT_NS;        *)
(*   opt     fetchZMQBktOpt, ends at the next interval if it has a tuple.  *)
(* Bucket channels and opt channels share one timer thread per process     *)
(* (tm_vars).  One thread fetches from a channel (java/JStrFactory.java).   *)
(* A tuple in a bucket stands for the message that filled the place.        *)
(***************************************************************************)
EXTENDS Integers, Sequences

CONSTANTS
  ZChannels,   \* channels a process opens
  tuningKnob,  \* size of a bucket
  TIMEOUT_NS,  \* in ticks of the timer
  NrTuples     \* bound: tuples sent to each channel

ASSUME ZmqAssumption ==
  /\ tuningKnob \in Nat \ {0} /\ TIMEOUT_NS \in Nat \ {0}
  /\ NrTuples \in Nat

VARIABLES
  zkind, zpc,     \* kind and place of each channel's thread
  tm_vars,        \* the timer of the process: "null", "live", "freed"
  z_tm,           \* has the channel a pointer to it
  timer,          \* the timer's thread: place
  ticked,         \* has it set elapsed_intervals
  terminate, terminated,
  wire,           \* tuples on their way, the first message too
  late,           \* elapsed_intervals - start_ns (or - (next_timeout - 1))
  lag,            \* elapsed_intervals - elapsed_ns
  bucket, buckets, \* the bucket being filled; history: the buckets returned
  garbled,        \* history: has a string been made that is not the message's
  process         \* "up", or "crashed"

timerVars == <<tm_vars, z_tm, timer, ticked, terminate, terminated>>
fetchVars == <<late, lag, bucket, buckets>>
zmqVars == <<zkind, zpc, timerVars, wire, fetchVars, garbled, process>>

ZmqInit ==
  /\ zkind \in [ZChannels -> {"plain", "bucket", "opt"}]
  /\ \A c, d \in ZChannels : zkind[c] = zkind[d]
  /\ zpc = [c \in ZChannels |-> "closed"]
  /\ tm_vars = "null" /\ z_tm = [c \in ZChannels |-> FALSE] /\ timer = "none"
  /\ ticked = FALSE /\ terminate = FALSE /\ terminated = FALSE
  /\ wire = [c \in ZChannels |-> [i \in 1 .. NrTuples + 1 |-> i - 1]]
  /\ late = [c \in ZChannels |-> 0] /\ lag = [c \in ZChannels |-> 0]
  /\ bucket = [c \in ZChannels |-> <<>>] /\ buckets = [c \in ZChannels |-> <<>>]
  /\ garbled = FALSE /\ process = "up"

goto(c, l) == zpc' = [zpc EXCEPT ![c] = l]

\* openZMQChannel, openZMQBucketChannel, and openZMQBktOptChannel followed by
\* initTimeoutVars: the first one with a timer starts its thread, the others take the
\* address there is, of a timer that was deleted too.  Then the first message is read
\* and dropped.
openZMQ(c) ==
  /\ zpc[c] = "closed" /\ wire[c] # <<>> /\ Head(wire[c]) = 0
  /\ wire' = [wire EXCEPT ![c] = Tail(@)]
  /\ IF zkind[c] = "plain" THEN UNCHANGED <<tm_vars, z_tm, timer>>
     ELSE /\ z_tm' = [z_tm EXCEPT ![c] = TRUE]
          /\ tm_vars' = IF tm_vars = "null" THEN "live" ELSE tm_vars
          /\ timer' = IF tm_vars = "null" THEN "start" ELSE timer
  /\ goto(c, "open")
  /\ UNCHANGED <<zkind, ticked, terminate, terminated, fetchVars, garbled, process>>

-----------------------------------------------------------------------------
(* timer_fn and timer_opt_fn. *)

TimerStart ==
  /\ timer = "start"
  /\ terminated' = FALSE
  /\ timer' = "loop"
  /\ UNCHANGED <<zkind, zpc, tm_vars, z_tm, ticked, terminate, wire, fetchVars, garbled,
                 process>>

\* The interval is over: elapsed_intervals is the time of day (0 before), or one
\* more.  What counts is its distance from the times the fetches remember, up to
\* TIMEOUT_NS.
TimerTick ==
  /\ timer = "loop" /\ ~terminate
  /\ \E n \in 1 .. TIMEOUT_NS :
       LET later(f) == [c \in ZChannels |->
             IF zpc[c] \in {"check", "recv"} /\ z_tm[c]
             THEN IF f[c] + n < TIMEOUT_NS THEN f[c] + n ELSE TIMEOUT_NS
             ELSE f[c]]
       IN /\ (\E c \in ZChannels : z_tm[c] /\ zkind[c] = "opt") => n = 1
          /\ (\E c \in ZChannels : z_tm[c] /\ zkind[c] = "bucket") /\ ~ticked =>
               n = TIMEOUT_NS
          /\ late' = later(late) /\ lag' = later(lag)
  /\ ticked' = TRUE
  /\ UNCHANGED <<zkind, zpc, tm_vars, z_tm, timer, terminate, terminated, wire, bucket,
                 buckets, garbled, process>>

TimerEnd ==
  /\ timer = "loop" /\ terminate
  /\ timer' = "ended"
  /\ terminated' = TRUE
  /\ UNCHANGED <<zkind, zpc, tm_vars, z_tm, ticked, terminate, wire, fetchVars, garbled,
                 process>>

-----------------------------------------------------------------------------
(* Closing.  Any channel may be closed, whoever else uses the timer: it is *)
(* stopped and deleted, and tm_vars and the other channels keep its         *)
(* address.  Nothing says so to the next one that reads or deletes it.      *)

\* The channel has a timer, and stops it for all.
closeZMQChannel(c) ==
  /\ zpc[c] = "open" /\ z_tm[c]
  /\ terminate' = TRUE
  /\ goto(c, "closing")
  /\ UNCHANGED <<zkind, tm_vars, z_tm, timer, ticked, terminated, wire, fetchVars, garbled,
                 process>>

\* It has none: the null pointer is followed to the thread all the same.
CloseWithoutTimer(c) ==
  /\ zpc[c] = "open" /\ ~z_tm[c]
  /\ process' = "crashed"
  /\ UNCHANGED <<zkind, zpc, timerVars, wire, fetchVars, garbled>>

\* Variant: the timer is deleted without waiting for its thread.
timerFinished_unawaited == terminate

timerFinished == terminated

DeleteTimer(c) ==
  /\ zpc[c] = "closing" /\ tm_vars = "live" /\ timerFinished
  /\ tm_vars' = "freed"
  /\ z_tm' = [z_tm EXCEPT ![c] = FALSE]
  /\ goto(c, "deleted")
  /\ UNCHANGED <<zkind, timer, ticked, terminate, terminated, wire, fetchVars, garbled,
                 process>>

\* Another channel has deleted it: terminated may read as anything, and the wait may go
\* on; if it ends the timer is deleted again.
DeleteTwice(c) ==
  /\ zpc[c] = "closing" /\ tm_vars = "freed"
  /\ process' = "crashed"
  /\ UNCHANGED <<zkind, zpc, timerVars, wire, fetchVars, garbled>>

\* The socket is closed and with it the channel ch_fpc, which openZMQBucketChannel has
\* never opened: it is a null pointer there.
CloseRest(c) ==
  /\ zpc[c] = "deleted"
  /\ \/ zkind[c] # "bucket" /\ goto(c, "gone") /\ UNCHANGED process
     \/ zkind[c] = "bucket" /\ process' = "crashed" /\ UNCHANGED zpc
  /\ UNCHANGED <<zkind, timerVars, wire, fetchVars, garbled>>

-----------------------------------------------------------------------------
(* Fetching. *)

\* fetchZMQStr and fetchZMQStrNB return the address of what a message_t held that they
\* destroy, and the string is made from what is there then: the message, or anything.
\* The message of fetchZMQStrNB2 is the caller's.
madeString(c) == garbled' \in IF zkind[c] = "opt" THEN {garbled} ELSE {garbled, TRUE}

\* fetchZMQStr.
fetchZMQStr(c) ==
  /\ zkind[c] = "plain" /\ zpc[c] = "open" /\ wire[c] # <<>>
  /\ buckets' = [buckets EXCEPT ![c] = Append(@, <<Head(wire[c])>>)]
  /\ wire' = [wire EXCEPT ![c] = Tail(@)]
  /\ madeString(c)
  /\ UNCHANGED <<zkind, zpc, timerVars, late, lag, bucket, process>>

\* The fetch remembers elapsedIntervals of its channel.
BeginFetch(c) ==
  /\ zpc[c] = "open" /\ z_tm[c]
  /\ late' = [late EXCEPT ![c] = 0]
  /\ bucket' = [bucket EXCEPT ![c] = <<>>]
  /\ goto(c, "check")
  /\ UNCHANGED <<zkind, timerVars, wire, lag, buckets, garbled, process>>

\* Only fetchZMQBktOpt insists on a tuple.
mayReturn(c) == zkind[c] = "opt" => bucket[c] # <<>>

returnBucket(c, b) ==
  /\ buckets' = [buckets EXCEPT ![c] =
                   IF b = <<>> /\ zkind[c] = "bucket" THEN @ ELSE Append(@, b)]
  /\ bucket' = [bucket EXCEPT ![c] = <<>>]
  /\ late' = [late EXCEPT ![c] = 0] /\ lag' = [lag EXCEPT ![c] = 0]
  /\ goto(c, "open")

\* elapsedIntervals, as a distance; of a timer that was deleted it may be any number.
elapsed(c) == IF tm_vars = "freed" THEN 0 .. TIMEOUT_NS ELSE {late[c]}

timedOut(c, l) == l >= IF zkind[c] = "opt" THEN 1 ELSE TIMEOUT_NS

\* The time is looked at before every receive.
CheckTimeout(c) ==
  /\ zpc[c] = "check"
  /\ \/ /\ (\E l \in elapsed(c) : timedOut(c, l)) /\ mayReturn(c)
        /\ returnBucket(c, bucket[c])
     \/ /\ (\E l \in elapsed(c) : timedOut(c, l)) /\ ~mayReturn(c)
        /\ late' = [late EXCEPT ![c] = 0]
        /\ UNCHANGED <<zpc, lag, bucket, buckets>>
     \/ /\ (\E l \in elapsed(c) : ~timedOut(c, l))
        /\ lag' = [lag EXCEPT ![c] = 0]
        /\ goto(c, "recv")
        /\ UNCHANGED <<late, bucket, buckets>>
  /\ UNCHANGED <<zkind, timerVars, wire, garbled, process>>

\* Variant: the last place of the bucket is not used.
filled_short(b, x) == IF Len(b) + 1 < tuningKnob THEN Append(b, x) ELSE b

filled(b, x) == Append(b, x)

\* fetchZMQStrNB and fetchZMQStrNB2, and what the loops do with the tuple.
RecvNB(c) ==
  LET b == filled(bucket[c], Head(wire[c]))
  IN /\ zpc[c] = "recv" /\ wire[c] # <<>>
     /\ wire' = [wire EXCEPT ![c] = Tail(@)]
     /\ IF Len(bucket[c]) + 1 < tuningKnob
        THEN /\ bucket' = [bucket EXCEPT ![c] = b]
             /\ late' = [late EXCEPT ![c] = IF zkind[c] = "opt" THEN @ ELSE lag[c]]
             /\ goto(c, "check")
             /\ UNCHANGED <<lag, buckets>>
        ELSE returnBucket(c, b)
     /\ madeString(c)
     /\ UNCHANGED <<zkind, timerVars, process>>

RecvNothing(c) ==
  /\ zpc[c] = "recv"
  /\ goto(c, "check")
  /\ UNCHANGED <<zkind, timerVars, wire, fetchVars, garbled, process>>

-----------------------------------------------------------------------------
TimerThread == TimerStart \/ TimerTick \/ TimerEnd

Fetch(c) == CheckTimeout(c) \/ RecvNB(c) \/ RecvNothing(c) \/ DeleteTimer(c) \/ CloseRest(c)

ZmqNext ==
  /\ process = "up"
  /\ \/ TimerThread
     \/ \E c \in ZChannels :
          \/ openZMQ(c) \/ closeZMQChannel(c) \/ CloseWithoutTimer(c) \/ DeleteTwice(c)
          \/ fetchZMQStr(c) \/ BeginFetch(c) \/ Fetch(c)

ZmqFairness ==
  /\ WF_zmqVars(process = "up" /\ TimerThread)
  /\ \A c \in ZChannels : WF_zmqVars(process = "up" /\ Fetch(c))

ZmqSpec == ZmqInit /\ [][ZmqNext]_zmqVars /\ ZmqFairness

-----------------------------------------------------------------------------
\* The timer is deleted only after its thread has read and written it for the last
\* time, although channels are opened and closed at any time, two of them at once or one
\* before the thread has run at all (emit.cpp:1154, "wait for the timer_thread to be
\* finished").  The other channels are not waited for: they go on with the address.
ThreadDoneFirst == tm_vars = "freed" => timer = "ended"

\* The tuples from the one numbered first on.
isRun(b, first) == b = [k \in 1 .. Len(b) |-> first + k - 1]

\* The number after the last tuple of the first i buckets.
nextTuple(c, i) == IF i = 0 THEN 1 ELSE buckets[c][i][Len(buckets[c][i])] + 1

\* Whatever times out, every tuple that was received has filled one place of one bucket,
\* in order: a bucket goes on where the one before it ended, and what has not been
\* returned is in the bucket being filled, or on its way.
EveryTupleBucketed ==
  \A c \in ZChannels :
    LET n == Len(buckets[c])
    IN zpc[c] # "closed" =>
         /\ \A i \in 1 .. n : isRun(buckets[c][i], nextTuple(c, i - 1))
         /\ isRun(bucket[c] \o wire[c], nextTuple(c, n))
         /\ nextTuple(c, n) + Len(bucket[c] \o wire[c]) = NrTuples + 1

\* No bucket is overfull, and the fetches return one without a tuple only to say that
\* nothing came.
BucketSizes ==
  \A c \in ZChannels : \A i \in DOMAIN buckets[c] :
    buckets[c][i] # <<>> /\ Len(buckets[c][i]) <= tuningKnob

\* Buckets cut the stream into pieces of the right size and nothing else, whichever of
\* the timer and the sender comes first, and also after the timer was deleted under the
\* fetch (cloud_profiler.i).  It says which message fills which place, not that the
\* string made of it is the message's.
BucketsPartition == BucketSizes /\ EveryTupleBucketed

\* fetchZMQBucket returns, tuples or not, unless another channel's close has deleted the
\* timer or has ended the process.
FetchReturns ==
  \A c \in ZChannels :
    (zkind[c] = "bucket" /\ zpc[c] \in {"check", "recv"})
      ~> (zpc[c] = "open" \/ tm_vars = "freed")
=============================================================================
