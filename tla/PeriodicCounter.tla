-------------------------- MODULE PeriodicCounter --------------------------
(***************************************************************************)
(* The periodic counter channel (periodic_counter_handler.cpp): it counts   *)
(* tuples and, when a tuple comes after the end of the period, writes the   *)
(* count and how many periods have passed without a tuple.  No thread of    *)
(* its own: all happens in the calls of the application.                    *)
(***************************************************************************)
EXTENDS TimeArith, Sequences

CONSTANTS
  DEFAULT_PERIOD,  \* in ns
  Periods,         \* what the application may set
  Gaps,            \* time between two calls, in ns
  UINT32,          \* values of a uint32_t
  MaxNow           \* bound of the time, in ns

ASSUME PeriodicAssumption ==
  /\ DEFAULT_PERIOD \in Nat \ {0} /\ Periods \subseteq Int /\ Gaps \subseteq Nat \ {0}
  /\ MaxNow \in Nat /\ UINT32 \in Nat \ {0}

VARIABLES
  pcNow,           \* the time of the last call, in ns
  ctr, time_start, time_flush, periodic_inc_ns,
  isHeaderLogged,
  pcLog,           \* lines of the log file
  pcOpen,
  pcTimes,         \* history: times of the tuples counted in ctr
  pcHandled,       \* history: tuples so far
  outran,          \* history: since the period was set, a tuple has come so late that a
                   \* uint32_t does not count the periods up to its own
  pcFailed         \* the process has divided by zero

pcVars == <<pcNow, ctr, time_start, time_flush, periodic_inc_ns, isHeaderLogged, pcLog,
            pcOpen, pcTimes, pcHandled, outran, pcFailed>>

\* Lines of the log file.
Header == [kind |-> "header", end |-> 0, n |-> 0]
Count(end, n) == [kind |-> "count", end |-> end, n |-> n]
Truncated(end, n) == [kind |-> "truncated", end |-> end, n |-> n]
Reprogrammed == [kind |-> "reprogrammed", end |-> 0, n |-> 0]
ShutDown(end) == [kind |-> "shut down", end |-> end, n |-> 0]
Skipped(n) == [kind |-> "skipped", end |-> 0, n |-> n]

\* initPeriodicCounterHandler.
PeriodicInit ==
  /\ pcNow = 0 /\ ctr = 0 /\ isHeaderLogged = FALSE
  /\ time_start = fromNs(0) /\ periodic_inc_ns = DEFAULT_PERIOD
  /\ time_flush = addTS(fromNs(0), fromNs(DEFAULT_PERIOD))
  /\ pcLog = <<>> /\ pcOpen = TRUE
  /\ pcTimes = {} /\ pcHandled = 0 /\ outran = FALSE /\ pcFailed = FALSE

header == IF isHeaderLogged THEN <<>> ELSE <<Header>>

count == IF ctr > 0 THEN <<Count(inNs(time_flush), ctr)>> ELSE <<>>

\* Variant: a first period without a tuple is not reported.
skippedTotal_past(past) == past

\* The skipped periods, a uint32_t: those past the first, and the first if it has no tuple.
skippedTotal(past) == (IF ctr = 0 THEN past + 1 ELSE past) % UINT32

skippedLine(n) == IF n > 0 THEN <<Skipped(n)>> ELSE <<>>

elapsed_ns(now) == inNs(subtractTS(time_flush, fromNs(now)))

\* The periods that have passed since, and skipped_intervals_from_flush, which keeps
\* only 32 bits of them.
passed(now) == elapsed_ns(now) \div periodic_inc_ns
skippedIntervals(now) == passed(now) % UINT32

\* flushCtr: of a period that is not over, the count so far.
flushCtr(now) ==
  IF compareTS(fromNs(now), time_flush) = -1 THEN <<Truncated(now, ctr)>>
  ELSE count \o skippedLine(skippedTotal(skippedIntervals(now)))

\* A division by a period of 0 ends the process.
Fail ==
  /\ pcFailed' = TRUE
  /\ UNCHANGED <<ctr, time_start, time_flush, periodic_inc_ns, isHeaderLogged, pcLog,
                 pcOpen, pcTimes, pcHandled, outran>>

later(now) == now \in {pcNow + g : g \in Gaps} /\ now <= MaxNow /\ pcNow' = now

-----------------------------------------------------------------------------
\* ctr is 1 again: the tuple that ends a period belongs to the next.
restarted == 1

\* The tuple comes after the end of the period.
expired(now) == compareTS(fromNs(now), time_flush) = 1

\* getNextShot_and_flushCtr: the sum is one of uint32_t, the product of uint64_t.
next_shot(past) == ((1 + past) % UINT32) * periodic_inc_ns

\* PeriodicCounterHandler.
PeriodicCounterHandler(now) ==
  /\ pcOpen /\ ~pcFailed /\ later(now)
  /\ IF ~expired(now)
     THEN /\ ctr' = ctr + 1 /\ pcTimes' = pcTimes \cup {now}
          /\ pcHandled' = pcHandled + 1
          /\ UNCHANGED <<time_start, time_flush, periodic_inc_ns, isHeaderLogged, pcLog,
                         pcOpen, outran, pcFailed>>
     ELSE IF periodic_inc_ns = 0 THEN Fail
     ELSE LET past == skippedIntervals(now)
          IN /\ pcLog' = pcLog \o header \o count \o skippedLine(skippedTotal(past))
             /\ isHeaderLogged' = TRUE
             /\ time_flush' = addTS(time_flush, fromNs(next_shot(past)))
             /\ ctr' = restarted /\ pcTimes' = {now}
             /\ pcHandled' = pcHandled + 1
             /\ outran' = (outran \/ passed(now) + 1 >= UINT32)
             /\ UNCHANGED <<time_start, periodic_inc_ns, pcOpen, pcFailed>>

\* PC_closure::closeChannel.
PeriodicClose(now) ==
  IF periodic_inc_ns = 0 /\ compareTS(fromNs(now), time_flush) # -1 THEN Fail
  ELSE /\ pcLog' = pcLog \o header \o flushCtr(now) \o <<ShutDown(now)>>
       /\ isHeaderLogged' = TRUE /\ pcOpen' = FALSE
       /\ UNCHANGED <<ctr, time_start, time_flush, periodic_inc_ns, pcTimes, pcHandled,
                      outran, pcFailed>>

closePeriodic(now) == pcOpen /\ ~pcFailed /\ later(now) /\ PeriodicClose(now)

\* setArgPeriodicCounterHandler: a negative period, as any argument but 0, closes the
\* channel.
setArgPeriodicCounterHandler(now, period) ==
  /\ pcOpen /\ ~pcFailed /\ later(now)
  /\ IF period < 0 THEN PeriodicClose(now)
     ELSE IF periodic_inc_ns = 0 /\ compareTS(fromNs(now), time_flush) # -1 THEN Fail
     ELSE /\ pcLog' = pcLog \o header \o flushCtr(now) \o <<Reprogrammed>>
          /\ isHeaderLogged' = TRUE
          /\ time_start' = fromNs(now)
          /\ periodic_inc_ns' = period
          /\ time_flush' = addTS(fromNs(now), fromNs(period))
          /\ ctr' = 0 /\ pcTimes' = {} /\ outran' = FALSE
          /\ UNCHANGED <<pcOpen, pcHandled, pcFailed>>

PeriodicNext ==
  \E now \in 0 .. MaxNow :
    \/ PeriodicCounterHandler(now) \/ closePeriodic(now)
    \/ \E p \in Periods : setArgPeriodicCounterHandler(now, p)

PeriodicSpec == PeriodicInit /\ [][PeriodicNext]_pcVars

-----------------------------------------------------------------------------
\* What a line says of tuples, and of periods.
tuplesIn(line) == IF line.kind \in {"count", "truncated"} THEN line.n ELSE 0
periodsIn(line) ==
  IF line.kind = "count" THEN 1 ELSE IF line.kind = "skipped" THEN line.n ELSE 0

\* The sum of w, which has a number for each line, from the last line of Z on.
since(w, Z) ==
  LET sum[i \in 0 .. Len(w)] ==
        IF i = 0 THEN 0 ELSE (IF i \in Z THEN 0 ELSE sum[i - 1]) + w[i]
  IN  sum[Len(w)]

tuplesWritten(log) == since([i \in DOMAIN log |-> tuplesIn(log[i])], {})

\* Those since the period was set.
periodsWritten(log) ==
  since([i \in DOMAIN log |-> periodsIn(log[i])],
        {i \in DOMAIN log : log[i].kind = "reprogrammed"})

\* No tuple is lost or counted twice: the counts written and the one in hand add up to
\* the tuples handled, across skipped periods and the end of the channel
\* (periodic_counter_handler.cpp, PeriodicCounterHandler and flushCtr).
TuplesCounted ==
  ~pcFailed =>
    pcHandled = tuplesWritten(pcLog) + (IF pcOpen THEN ctr ELSE 0)

\* Every period since the start is accounted for, as a count or as skipped, as long as no
\* tuple comes 2^32 - 1 periods or more after the end of one
\* (periodic_counter_handler.cpp, getNextShot_and_flushCtr).
PeriodsAccounted ==
  ~pcFailed /\ pcOpen /\ ~outran =>
    inNs(time_flush) - inNs(time_start) - periodic_inc_ns
      = periodsWritten(pcLog) * periodic_inc_ns

\* The tuples of a count came within its period, as long as that is so
\* (periodic_counter_handler.cpp).
CountedInPeriod ==
  ~pcFailed /\ ~outran =>
    \A t \in pcTimes : /\ inNs(time_flush) - periodic_inc_ns <= t
                       /\ t <= inNs(time_flush)

\* The file is a time line of all tuples: each counted once and, until one comes so late
\* that a uint32_t does not count the periods, in its period, and every period there
\* (periodic_counter_handler.cpp).
TimeLineComplete == TuplesCounted /\ PeriodsAccounted /\ CountedInPeriod
=============================================================================
