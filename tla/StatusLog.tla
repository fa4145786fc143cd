----------------------------- MODULE StatusLog -----------------------------
(***************************************************************************)
(* The status log of a process (log.cpp) and the threads that write to it:  *)
(* each opens a channel, which opens the log if it is the first, and then   *)
(* logs messages.                                                           *)
(***************************************************************************)
EXTENDS Naturals, FiniteSets

CONSTANTS
  Loggers,       \* threads
  MaxMessages,   \* bound: messages of a thread
  Unlocked,      \* no thread
  OpenFails      \* the outcomes of opening the file: a set of BOOLEANs

ASSUME StatusLogAssumption ==
  Unlocked \notin Loggers /\ MaxMessages \in Nat /\ OpenFails \subseteq BOOLEAN

VARIABLES
  lpc,           \* each thread's place
  next_ch,       \* next_channel of channels.cpp
  statusf,       \* is logf open
  mtx_outfile,   \* the thread that locked it
  after,         \* where openStatusLogFile returns to
  fun,           \* the function the thread is in: "logStatus" or "logFail"
  messages,      \* of each thread, so far
  openFailed,    \* history: has opening the file failed
  closedStatus   \* history: has logStatus found the file closed

logVars == <<lpc, next_ch, statusf, mtx_outfile, after, fun, messages, openFailed,
             closedStatus>>

LogInit ==
  /\ lpc = [t \in Loggers |-> "begin"] /\ next_ch = 0 /\ statusf = FALSE
  /\ mtx_outfile = Unlocked /\ after = [t \in Loggers |-> "begin"]
  /\ fun = [t \in Loggers |-> "logStatus"]
  /\ messages = [t \in Loggers |-> 0]
  /\ openFailed = FALSE /\ closedStatus = FALSE

lto(t, l) == lpc' = [lpc EXCEPT ![t] = l]

-----------------------------------------------------------------------------
firstToLog == next_ch = 0

\* openChannel: "Open the logger's status file before we run out of file handles".
testFirst(t) ==
  /\ lpc[t] = "begin"
  /\ IF firstToLog
     THEN after' = [after EXCEPT ![t] = "count"] /\ lto(t, "openLock")
     ELSE lto(t, "count") /\ UNCHANGED after
  /\ UNCHANGED <<next_ch, statusf, mtx_outfile, fun, messages, openFailed,
                 closedStatus>>

countChannel(t) ==
  /\ lpc[t] = "count"
  /\ next_ch' = next_ch + 1
  /\ lto(t, "running")
  /\ UNCHANGED <<statusf, mtx_outfile, after, fun, messages, openFailed, closedStatus>>

\* mtx_outfile.lock().
logLock(t, from, next) ==
  /\ lpc[t] = from /\ mtx_outfile = Unlocked
  /\ mtx_outfile' = t
  /\ lto(t, next)
  /\ UNCHANGED <<next_ch, statusf, after, fun, messages, openFailed, closedStatus>>

openLock(t) == logLock(t, "openLock", "open")

\* openStatusLogFile, between its lock and its unlock.
openStatusLogFile(t) ==
  /\ lpc[t] = "open"
  /\ \E fails \in OpenFails :
       /\ statusf' = (statusf \/ ~fails)
       /\ openFailed' = (openFailed \/ (~statusf /\ fails))
  /\ mtx_outfile' = Unlocked
  /\ lto(t, after[t])
  /\ UNCHANGED <<next_ch, after, fun, messages, closedStatus>>

\* logFail and logStatus: lock, and test whether the file is open.
callLog(t) ==
  /\ lpc[t] = "running" /\ messages[t] < MaxMessages
  /\ fun' \in {[fun EXCEPT ![t] = f] : f \in {"logStatus", "logFail"}}
  /\ messages' = [messages EXCEPT ![t] = @ + 1]
  /\ lto(t, "lock")
  /\ UNCHANGED <<next_ch, statusf, mtx_outfile, after, openFailed, closedStatus>>

lockLog(t) == logLock(t, "lock", "test")

\* Variant: logFail does not lock again either.
opened_unlocked(t) == "write"

\* The file is opened by the function if it is not; logFail locks again for its
\* message, logStatus does not.
opened(t) == IF fun[t] = "logFail" THEN "relock" ELSE "write"

testOpen(t) ==
  /\ lpc[t] = "test"
  /\ IF statusf THEN lto(t, "write") /\ UNCHANGED <<mtx_outfile, after, closedStatus>>
     ELSE /\ mtx_outfile' = Unlocked
          /\ after' = [after EXCEPT ![t] = opened(t)]
          /\ closedStatus' = (closedStatus \/ fun[t] = "logStatus")
          /\ lto(t, "openLock")
  /\ UNCHANGED <<next_ch, statusf, fun, messages, openFailed>>

relock(t) == logLock(t, "relock", "write")

\* The message, and the unlock, of a mutex that may be another thread's.
writeMessage(t) ==
  /\ lpc[t] = "write"
  /\ mtx_outfile' = Unlocked
  /\ lto(t, "running")
  /\ UNCHANGED <<next_ch, statusf, after, fun, messages, openFailed, closedStatus>>

-----------------------------------------------------------------------------
LogStep(t) ==
  \/ testFirst(t) \/ countChannel(t) \/ openLock(t) \/ openStatusLogFile(t)
  \/ lockLog(t) \/ testOpen(t) \/ relock(t) \/ writeMessage(t)

LogNext == \E t \in Loggers : callLog(t) \/ LogStep(t)
LogSpec == LogInit /\ [][LogNext]_logVars

-----------------------------------------------------------------------------
InSection(t) == lpc[t] \in {"open", "test", "write"}

\* One thread at a time opens or writes the status log, and it holds the lock, until a
\* logStatus finds the file closed (log.cpp: "care must be taken to avoid a race with
\* other channels").
OneWriter ==
  /\ Cardinality({t \in Loggers : InSection(t)}) <= 1
  /\ \A t \in Loggers : InSection(t) => mtx_outfile = t

OneLogWriter == closedStatus \/ OneWriter

\* No logStatus finds the file closed unless opening it has failed: openChannel opens it
\* before the count lets another thread's openChannel go past (channels.cpp,
\* openChannel; log.cpp, logStatus).
OpenBeforeLog == closedStatus => openFailed

\* The lock protects the log, and logStatus loses it only after an open that failed
\* (log.cpp).
LogGuarded == OneLogWriter /\ OpenBeforeLog
=============================================================================
