----------------------------- MODULE NtpLogger -----------------------------
(***************************************************************************)
(* ntplogd: logs the clock error that chronyc reports, once or at every    *)
(* interval (ntplogd/core.cpp, ntplogd/exec.cpp).  Time is counted in      *)
(* ticks, SecTicks to a second.  The variables are core.cpp's; those whose *)
(* names the TSC master also has carry the prefix ntp.                     *)
(***************************************************************************)
EXTENDS Integers, Sequences

CONSTANTS
  SecTicks,      \* ticks of a second
  Intervals,     \* values of option -n, in seconds
  Iterations,    \* values of option -i; 0 is the default
  NtpUINT,       \* 2^32: ntp_iteration is a uint32_t
  MaxNtpTime,    \* bound: last value of the clock
  MaxRows        \* bound: rows of a log that never ends

ASSUME NtpAssumption ==
  /\ SecTicks \in Nat \ {0} /\ MaxNtpTime \in Nat /\ MaxRows \in Nat
  /\ Intervals \subseteq Nat /\ Iterations \subseteq Nat
  /\ NtpUINT \in Nat \ {0, 1} /\ \A i \in Iterations : i < NtpUINT

VARIABLES
  periodic, ntp_interval, ntp_iteration, ntp_nonstop,   \* the options
  npc,                \* where the program is
  time,
  ts_now, ts_wait, ts_wake,
  skippedFirst,
  ntplogd_logf,       \* stamps of the rows
  asked_rows, first   \* history: option -i, and the first completion time

ntpOptions == <<periodic, ntp_interval, ntp_iteration, ntp_nonstop, asked_rows>>
ntpVars == <<ntpOptions, npc, time, ts_now, ts_wait, ts_wake, skippedFirst,
             ntplogd_logf, first>>

NtpInit ==
  /\ periodic \in BOOLEAN /\ ntp_interval \in Intervals
  /\ ntp_iteration \in Iterations /\ asked_rows = ntp_iteration
  /\ ntp_nonstop = FALSE /\ npc = "main" /\ time \in 0 .. SecTicks - 1
  /\ ts_now = 0 /\ ts_wait = 0 /\ ts_wake = 0 /\ first = 0
  /\ skippedFirst = FALSE /\ ntplogd_logf = <<>>

NtpTick ==
  /\ npc # "main" /\ time < MaxNtpTime
  /\ time' = time + 1
  /\ UNCHANGED <<ntpOptions, npc, ts_now, ts_wait, ts_wake, skippedFirst,
                 ntplogd_logf, first>>

\* set_log_file_as: without an IP address or without a file, exit.
NtpNoLog ==
  /\ npc = "main"
  /\ npc' = "failed"
  /\ UNCHANGED <<ntpOptions, time, ts_now, ts_wait, ts_wake, skippedFirst,
                 ntplogd_logf, first>>

periodic_inc == ntp_interval * SecTicks

\* main, and the head of run_interval_of: without -p one measurement whatever -i
\* says, with -p and no -i no end; the first is complete at the next full second.
NtpMain ==
  /\ npc = "main"
  /\ ntp_iteration' = IF periodic THEN ntp_iteration ELSE 1
  /\ ntp_nonstop' = (periodic /\ ntp_iteration = 0)
  /\ ts_wait' = (time \div SecTicks + 1) * SecTicks
  /\ first' = ts_wait'
  /\ npc' = "stamp"
  /\ UNCHANGED <<periodic, ntp_interval, asked_rows, time, ts_now, ts_wake,
                 skippedFirst, ntplogd_logf>>

\* A turn of the loop takes its stamp, then runs chronyc.
NtpStamp ==
  /\ npc = "stamp"
  /\ ts_now' = time
  /\ npc' = "track"
  /\ UNCHANGED <<ntpOptions, time, ts_wait, ts_wake, skippedFirst, ntplogd_logf, first>>

\* chronyc does not run or answers less than twelve numbers: an exception nobody
\* catches ends the program.
NtpTrackFails ==
  /\ npc = "track"
  /\ npc' = "failed"
  /\ UNCHANGED <<ntpOptions, time, ts_now, ts_wait, ts_wake, skippedFirst,
                 ntplogd_logf, first>>

\* print_clock_err, except for the first measurement.
NtpTrack ==
  /\ npc = "track" /\ Len(ntplogd_logf) < MaxRows
  /\ ntplogd_logf' = IF skippedFirst THEN Append(ntplogd_logf, ts_now) ELSE ntplogd_logf
  /\ ntp_iteration' = IF skippedFirst THEN (ntp_iteration - 1) % NtpUINT ELSE ntp_iteration
  /\ skippedFirst' = TRUE
  /\ npc' = "snooze"
  /\ UNCHANGED <<periodic, ntp_interval, ntp_nonstop, asked_rows, time, ts_now, ts_wait,
                 ts_wake, first>>

\* Variant: the counter alone decides.
shallTerminate_counter == ntp_iteration = 0

shallTerminate == ~(ntp_nonstop \/ ntp_iteration > 0)

\* Variant: the completion time stays.
advanced_never == ts_wait

advanced == ts_wait + periodic_inc

\* One turn of the inner loop.
NtpSnooze ==
  /\ npc = "snooze"
  /\ \/ /\ shallTerminate
        /\ npc' = "done" /\ UNCHANGED <<ts_wait, ts_now, ts_wake>>
     \/ /\ ~shallTerminate /\ time > ts_wait
        /\ ts_now' = time /\ ts_wait' = advanced
        /\ npc' = "stamp" /\ UNCHANGED ts_wake
     \/ /\ ~shallTerminate /\ time <= ts_wait
        /\ ts_now' = time
        /\ ts_wake' = IF ts_wait - time > periodic_inc THEN time + periodic_inc ELSE ts_wait
        /\ npc' = "asleep" /\ UNCHANGED ts_wait
  /\ UNCHANGED <<ntpOptions, time, skippedFirst, ntplogd_logf, first>>

NtpWake ==
  /\ npc = "asleep" /\ time >= ts_wake
  /\ npc' = "snooze"
  /\ UNCHANGED <<ntpOptions, time, ts_now, ts_wait, ts_wake, skippedFirst,
                 ntplogd_logf, first>>

NtpStep == NtpMain \/ NtpStamp \/ NtpTrack \/ NtpSnooze \/ NtpWake
NtpNext == NtpStep \/ NtpTick \/ NtpNoLog \/ NtpTrackFails
NtpSpec == NtpInit /\ [][NtpNext]_ntpVars

-----------------------------------------------------------------------------
\* ntplogd ends by itself only when it has printed what the options ask for: one row
\* without -p, as many as -i says with it, and never with -p alone, whatever the
\* counter of measurements has wrapped to (core.cpp, main and shallTerminate).
RowsAsAsked ==
  npc = "done" => /\ ~(periodic /\ asked_rows = 0)
                  /\ Len(ntplogd_logf) = IF periodic THEN asked_rows ELSE 1

\* However late a measurement is, the others keep the schedule of the start: row k is
\* stamped after the first full second and k - 1 intervals more (core.cpp,
\* run_interval_of: addTS(&ts_wait, &ts_wait, &periodic_inc)).
NotEarly ==
  \A k \in DOMAIN ntplogd_logf : ntplogd_logf[k] > first + (k - 1) * periodic_inc

\* With a number of measurements to do, and a chronyc that answers, ntplogd ends.
NtpEnds == (npc = "stamp" /\ ~ntp_nonstop) ~> (npc \in {"done", "failed"})
=============================================================================
