--------------------------- MODULE ProgramProofs ---------------------------
(***************************************************************************)
(* What is proved of the programs around the library: the barrier of the   *)
(* frequency tools, the Java agent, the ntp logger, the two boards of the  *)
(* GPIO round-trip time, and the TSC master with its slaves, as a session  *)
(* and within one pair of machines.  Each part gives the inductive         *)
(* invariant its property needs, and proves it.                            *)
(***************************************************************************)
EXTENDS SpinBarrier, JavaAgent, NtpLogger, GpioRtt, TscSession, TscPair,
        NaturalsInduction, FiniteSetTheorems, SequenceTheorems, TLAPS

-----------------------------------------------------------------------------
(* ArrivedFirst for every number of threads and of calls.  It is not       *)
(* inductive: that a call may return when thr has reached nr_threads needs *)
(* what the loop has established for the threads already looked at, and    *)
(* that counters only grow.                                                *)

BarrierTypeOK ==
  /\ ctr \in [BarrierThreads -> Nat] /\ my_level \in [BarrierThreads -> Nat]
  /\ thr \in [BarrierThreads -> 0 .. nr_threads] /\ passed \in [BarrierThreads -> Nat]
  /\ waitpc \in [BarrierThreads -> {"out", "counted", "waiting"}]

\* A thread has returned from all its calls, or from all but the one it is in.
OwnCalls ==
  \A t \in BarrierThreads :
    ctr[t] = IF waitpc[t] = "out" THEN passed[t] ELSE passed[t] + 1

\* What has been read back is the counter, which its owner alone changes.
LevelIsCounter == \A t \in BarrierThreads : waitpc[t] = "waiting" => my_level[t] = ctr[t]

\* The threads already looked at have made as many calls.
LookedAt ==
  \A t, u \in BarrierThreads :
    waitpc[t] = "waiting" /\ u < thr[t] => my_level[t] <= ctr[u]

BarrierInv ==
  /\ BarrierTypeOK
  /\ OwnCalls
  /\ LevelIsCounter
  /\ LookedAt
  /\ ArrivedFirst

\* Nobody has called wait at the start.
LEMMA BarrierInitInv == BarrierInit => BarrierInv
  BY BarrierAssumption
  DEF BarrierInit, BarrierInv, BarrierTypeOK, OwnCalls, LevelIsCounter, LookedAt,
      ArrivedFirst, BarrierThreads

\* Every access to a counter keeps the invariant.
LEMMA BarrierStepInv == BarrierInv /\ [BarrierNext]_barrierVars => BarrierInv'
<1> SUFFICES ASSUME BarrierInv, [BarrierNext]_barrierVars PROVE BarrierInv'
  OBVIOUS
<1> USE BarrierAssumption DEF BarrierInv
<1>1. ASSUME NEW t \in BarrierThreads, Count(t) PROVE BarrierInv'
  <2>1. BarrierTypeOK'
    BY <1>1 DEF Count, BarrierTypeOK
  <2>2. OwnCalls' /\ LevelIsCounter'
    BY <1>1 DEF Count, BarrierTypeOK, OwnCalls, LevelIsCounter
  <2>3. \A u \in BarrierThreads : ctr[u] \in Nat /\ ctr'[u] \in Nat /\ ctr[u] <= ctr'[u]
    BY <1>1 DEF Count, BarrierTypeOK
  <2>4. LookedAt'
    <3> SUFFICES ASSUME NEW v \in BarrierThreads, NEW u \in BarrierThreads,
                        waitpc'[v] = "waiting", u < thr'[v]
                 PROVE  my_level'[v] <= ctr'[u]
      BY DEF LookedAt
    <3>1. v # t /\ waitpc[v] = "waiting" /\ thr'[v] = thr[v] /\ my_level'[v] = my_level[v]
      BY <1>1 DEF Count, BarrierTypeOK
    <3>2. my_level[v] <= ctr[u] /\ my_level[v] \in Nat
      BY <3>1 DEF LookedAt, BarrierTypeOK
    <3> QED BY <2>3, <3>1, <3>2
  <2>5. ArrivedFirst'
    <3> SUFFICES ASSUME NEW v \in BarrierThreads, NEW u \in BarrierThreads
                 PROVE  passed'[v] <= ctr'[u]
      BY DEF ArrivedFirst
    <3>1. passed'[v] = passed[v] /\ passed[v] \in Nat /\ passed[v] <= ctr[u]
      BY <1>1 DEF Count, BarrierTypeOK, ArrivedFirst
    <3> QED BY <2>3, <3>1
  <2> QED BY <2>1, <2>2, <2>4, <2>5
<1>2. ASSUME NEW t \in BarrierThreads, ReadBack(t) PROVE BarrierInv'
  <2>1. BarrierTypeOK'
    BY <1>2 DEF ReadBack, BarrierTypeOK
  <2>2. OwnCalls' /\ LevelIsCounter'
    BY <1>2 DEF ReadBack, BarrierTypeOK, OwnCalls, LevelIsCounter
  <2>3. LookedAt'
    <3> SUFFICES ASSUME NEW v \in BarrierThreads, NEW u \in BarrierThreads,
                        waitpc'[v] = "waiting", u < thr'[v]
                 PROVE  my_level'[v] <= ctr'[u]
      BY DEF LookedAt
    <3>1. v # t
      BY <1>2 DEF ReadBack, BarrierTypeOK, BarrierThreads
    <3> QED BY <1>2, <3>1 DEF ReadBack, BarrierTypeOK, LookedAt
  <2>4. ArrivedFirst'
    BY <1>2 DEF ReadBack, ArrivedFirst
  <2> QED BY <2>1, <2>2, <2>3, <2>4
<1>3. ASSUME NEW t \in BarrierThreads, Look(t) PROVE BarrierInv'
  <2>1. BarrierTypeOK'
    BY <1>3 DEF Look, BarrierTypeOK
  <2>2. OwnCalls' /\ LevelIsCounter' /\ ArrivedFirst'
    BY <1>3 DEF Look, OwnCalls, LevelIsCounter, ArrivedFirst
  <2>3. LookedAt'
    <3> SUFFICES ASSUME NEW v \in BarrierThreads, NEW u \in BarrierThreads,
                        waitpc'[v] = "waiting", u < thr'[v]
                 PROVE  my_level'[v] <= ctr'[u]
      BY DEF LookedAt
    <3>1. CASE u < thr[v]
      BY <1>3, <3>1 DEF Look, LookedAt
    <3>2. CASE ~(u < thr[v])
      <4>1. v = t /\ thr'[t] = thr[t] + 1
        BY <1>3, <3>2 DEF Look, BarrierTypeOK
      <4>2. thr[t] \in Nat /\ u \in Nat
        <5>1. thr[t] \in 0..nr_threads
          BY DEF BarrierTypeOK
        <5>2. u \in 0..(nr_threads - 1)
          BY DEF BarrierThreads
        <5> QED BY <5>1, <5>2
      <4>3. u = thr[t]
        BY <3>2, <4>1, <4>2
      <4>4. ctr[u] \in Nat /\ my_level[t] \in Nat
        BY DEF BarrierTypeOK
      <4>5. ~(ctr[u] < my_level[t]) /\ my_level'[v] = my_level[t] /\ ctr'[u] = ctr[u]
        BY <1>3, <4>1, <4>3 DEF Look, behind
      <4> QED BY <4>4, <4>5
    <3> QED BY <3>1, <3>2
  <2> QED BY <2>1, <2>2, <2>3
<1>4. ASSUME NEW t \in BarrierThreads, Return(t) PROVE BarrierInv'
  <2>1. \A u \in BarrierThreads : my_level[t] <= ctr[u]
    BY <1>4 DEF Return, LookedAt, BarrierThreads
  <2>2. passed'[t] = my_level[t]
    BY <1>4 DEF Return, BarrierTypeOK, OwnCalls, LevelIsCounter
  <2>3. ArrivedFirst'
    BY <1>4, <2>1, <2>2 DEF Return, BarrierTypeOK, ArrivedFirst
  <2>4. BarrierTypeOK'
    BY <1>4 DEF Return, BarrierTypeOK
  <2>5. OwnCalls'
    BY <1>4 DEF Return, BarrierTypeOK, OwnCalls
  <2>6. LevelIsCounter' /\ LookedAt'
    BY <1>4 DEF Return, BarrierTypeOK, LevelIsCounter, LookedAt
  <2> QED BY <2>3, <2>4, <2>5, <2>6
<1>5. CASE UNCHANGED barrierVars
  BY <1>5 DEF barrierVars, BarrierTypeOK, OwnCalls, LevelIsCounter, LookedAt, ArrivedFirst
<1> QED
  BY <1>1, <1>2, <1>3, <1>4, <1>5 DEF BarrierNext, BarrierStep

\* For every number of threads, and however often the barrier is used, no call of
\* barrier_wait returns before every thread has made as many (armfreq/barrier.cpp).
THEOREM BarrierHolds == BarrierSpec => []ArrivedFirst
<1>1. BarrierInv => ArrivedFirst
  BY DEF BarrierInv
<1> QED
  BY BarrierInitInv, BarrierStepInv, <1>1, PTL DEF BarrierSpec

-----------------------------------------------------------------------------
(* FlagOutlivesUse for one hook and any number of samples and collectors.  *)
(* The invariant follows the flag's life: until the hook has written it    *)
(* the thread stays in its loop, and from the moment the thread has left   *)
(* the loop nobody is left who could use it.                               *)

AgentTypeOK ==
  /\ tpc \in {"none", "test", "log", "free", "forget", "done"}
  /\ hpc \in [Hooks -> {"idle", "store", "done"}]
  /\ touchedFreed \in BOOLEAN

\* The flag does not exist before the thread, and lives while the thread is in its loop.
FlagLives ==
  /\ tpc = "none" => heap = "none" /\ stopThread = "null"
  /\ tpc \in {"test", "log"} => heap \in {"false", "true"}

\* A hook about to write has found the flag; when it is set, the hook has written it.
HookWrites ==
  /\ \A h \in Hooks : hpc[h] = "store" => tpc \in {"test", "log"}
  /\ heap = "true" => \A h \in Hooks : hpc[h] = "done"
  /\ tpc \in {"free", "forget", "done"} => \A h \in Hooks : hpc[h] = "done"

AgentInv == AgentTypeOK /\ FlagLives /\ HookWrites /\ FlagOutlivesUse

\* There is no flag before the agent is installed.
LEMMA AgentInitInv == AgentInit => AgentInv
  BY DEF AgentInit, AgentInv, AgentTypeOK, FlagLives, HookWrites, FlagOutlivesUse

\* Every access to the flag or its pointer keeps the invariant.
LEMMA AgentStepInv == AgentInv /\ [AgentNext]_agentVars => AgentInv'
<1> SUFFICES ASSUME AgentInv, [AgentNext]_agentVars PROVE AgentInv'
  OBVIOUS
<1> USE DEF AgentInv, AgentTypeOK, FlagLives, HookWrites, FlagOutlivesUse
<1>1. CASE installAgentHandler
  BY <1>1 DEF installAgentHandler
<1>2. CASE SampleTest
  BY <1>2 DEF SampleTest, goesOn
<1>3. CASE SampleLog
  BY <1>3 DEF SampleLog
<1>4. CASE FreeFlag \/ ForgetFlag
  BY <1>4 DEF FreeFlag, ForgetFlag
<1>5. ASSUME NEW h \in Hooks, HookTest(h) PROVE AgentInv'
  BY <1>5, OneHook DEF HookTest
<1>6. ASSUME NEW h \in Hooks, HookStore(h) PROVE AgentInv'
  <2>1. \A g \in Hooks : g = h
    BY OneHook
  <2> QED BY <1>6, <2>1 DEF HookStore
<1>7. CASE UNCHANGED agentVars
  BY <1>7 DEF agentVars
<1> QED
  BY <1>1, <1>2, <1>3, <1>4, <1>5, <1>6, <1>7 DEF AgentNext, AgentThread, AgentHook

\* With one shutdown hook the flag that stops the sampling thread is never read or
\* written after the thread has freed it (JavaAgentHandler.cpp, sampling_thread and
\* uninstallAgentHandler).
THEOREM AgentFlagSafe == AgentSpec => []FlagOutlivesUse
<1>1. AgentInv => FlagOutlivesUse
  BY DEF AgentInv
<1> QED
  BY AgentInitInv, AgentStepInv, <1>1, PTL DEF AgentSpec

-----------------------------------------------------------------------------
(* RowsAsAsked and NotEarly for every interval, number of measurements and *)
(* width of the counter.  The invariant says how many rows are still owed  *)
(* and where the completion time stands after n rows; between the step     *)
(* that advances it and the next row it is one interval ahead.             *)

NtpTypeOK ==
  /\ periodic \in BOOLEAN /\ ntp_interval \in Nat
  /\ ntp_iteration \in 0 .. NtpUINT - 1 /\ ntp_nonstop \in BOOLEAN
  /\ asked_rows \in 0 .. NtpUINT - 1
  /\ npc \in {"main", "stamp", "track", "snooze", "asleep", "done", "failed"}
  /\ time \in Nat /\ ts_now \in Nat /\ ts_wait \in Nat /\ ts_wake \in Nat /\ first \in Nat
  /\ skippedFirst \in BOOLEAN /\ ntplogd_logf \in Seq(Nat)

\* The rows the options ask for.
rowsWanted == IF periodic THEN asked_rows ELSE 1

\* What is printed and what is still counted add up, and the loop does not go on
\* without a row to print.
RowsOwed ==
  /\ npc = "main" => ntplogd_logf = <<>> /\ ~skippedFirst /\ ntp_iteration = asked_rows
  /\ npc # "main" => (ntp_nonstop <=> periodic /\ asked_rows = 0) \/ npc = "failed"
  /\ npc \in {"stamp", "track", "snooze", "asleep", "done"} /\ ~ntp_nonstop =>
       ntp_iteration + Len(ntplogd_logf) = rowsWanted
  /\ npc \in {"stamp", "track", "asleep"} /\ ~ntp_nonstop => ntp_iteration > 0
  /\ npc = "done" => ~ntp_nonstop /\ ntp_iteration = 0
  /\ ~skippedFirst => ntplogd_logf = <<>>

\* The completion time after n rows, and the stamp of the row to come.
Schedule ==
  LET n == Len(ntplogd_logf)
  IN /\ npc \in {"snooze", "asleep"} => skippedFirst /\ ts_wait = first + n * periodic_inc
     /\ npc \in {"stamp", "track"} /\ skippedFirst =>
          ts_wait = first + (n + 1) * periodic_inc /\ time > first + n * periodic_inc
     /\ npc = "track" /\ skippedFirst => ts_now > first + n * periodic_inc
     /\ npc \in {"stamp", "track"} /\ ~skippedFirst => ts_wait = first

NtpInv == NtpTypeOK /\ RowsOwed /\ Schedule /\ NotEarly

\* No row is printed at the start.
LEMMA NtpInitInv == NtpInit => NtpInv
<1> SUFFICES ASSUME NtpInit PROVE NtpInv
  OBVIOUS
<1>1. NtpTypeOK
  <2>1. ntp_interval \in Nat /\ ntp_iteration \in 0 .. NtpUINT - 1
    BY NtpAssumption DEF NtpInit
  <2>2. time \in Nat
    BY NtpAssumption DEF NtpInit
  <2>3. ntplogd_logf \in Seq(Nat)
    BY DEF NtpInit
  <2> QED BY <2>1, <2>2, <2>3 DEF NtpInit, NtpTypeOK
<1>2. RowsOwed
  BY DEF NtpInit, RowsOwed
<1>3. Schedule /\ NotEarly
  BY DEF NtpInit, Schedule, NotEarly
<1> QED BY <1>1, <1>2, <1>3 DEF NtpInv

\* periodic_inc is a number of ticks.
LEMMA IncIsNat == ASSUME NtpTypeOK PROVE periodic_inc \in Nat
  BY NtpAssumption DEF NtpTypeOK, periodic_inc

\* A counter that is not 0 does not wrap when it is decremented.
LEMMA SmallMod == ASSUME NEW u \in Nat \ {0}, NEW x \in 0 .. u - 1 PROVE x % u = x
<1>1. x \div u \in Int /\ x = u * (x \div u) + (x % u) /\ (x % u) \in 0 .. u - 1
  BY SMTT(30)
<1>2. \A q \in Int : q >= 1 => u * q >= u
  BY SMTT(30)
<1>3. \A q \in Int : q <= -1 => u * q <= -u
  BY SMTT(30)
<1>4. x \div u = 0
  BY <1>1, <1>2, <1>3
<1> QED BY <1>1, <1>4

\* Every step keeps the rows owed and the schedule.
LEMMA NtpStepInv == NtpInv /\ [NtpNext]_ntpVars => NtpInv'
<1> SUFFICES ASSUME NtpInv, [NtpNext]_ntpVars PROVE NtpInv'
  OBVIOUS
<1> USE NtpAssumption DEF NtpInv, ntpOptions
<1> DEFINE n == Len(ntplogd_logf)
<1>a. n \in Nat /\ periodic_inc \in Nat
  BY IncIsNat DEF NtpTypeOK
<1>1. CASE NtpTick
  BY <1>1, <1>a DEF NtpTick, NtpTypeOK, RowsOwed, rowsWanted, Schedule, NotEarly, periodic_inc
<1>2. CASE NtpNoLog
  BY <1>2, <1>a DEF NtpNoLog, NtpTypeOK, RowsOwed, rowsWanted, Schedule, NotEarly,
                    periodic_inc
<1>3. CASE NtpMain
  <2>1. ts_wait' \in Nat
    BY <1>3 DEF NtpMain, NtpTypeOK
  <2>2. NtpTypeOK'
    BY <1>3, <2>1 DEF NtpMain, NtpTypeOK
  <2>3. RowsOwed'
    BY <1>3 DEF NtpMain, NtpTypeOK, RowsOwed, rowsWanted
  <2>4. Schedule' /\ NotEarly'
    BY <1>3 DEF NtpMain, NtpTypeOK, RowsOwed, Schedule, NotEarly, periodic_inc
  <2> QED BY <2>2, <2>3, <2>4
<1>4. CASE NtpStamp
  BY <1>4, <1>a DEF NtpStamp, NtpTypeOK, RowsOwed, rowsWanted, Schedule, NotEarly,
                    periodic_inc
<1>5. CASE NtpTrackFails
  BY <1>5, <1>a DEF NtpTrackFails, NtpTypeOK, RowsOwed, rowsWanted, Schedule, NotEarly,
                    periodic_inc
<1>6. CASE NtpTrack
  <2>1. CASE skippedFirst
    <3>1. /\ ntplogd_logf' = Append(ntplogd_logf, ts_now) /\ Len(ntplogd_logf') = n + 1
          /\ ntp_iteration' = (ntp_iteration - 1) % NtpUINT
          /\ skippedFirst' = TRUE /\ npc' = "snooze"
          /\ periodic_inc' = periodic_inc
      BY <1>6, <2>1 DEF NtpTrack, NtpTypeOK, periodic_inc
    <3>2. ntp_iteration' \in 0 .. NtpUINT - 1
      BY <3>1 DEF NtpTypeOK
    <3>3. ~ntp_nonstop => ntp_iteration' = ntp_iteration - 1
      <4> SUFFICES ASSUME ~ntp_nonstop PROVE ntp_iteration' = ntp_iteration - 1
        OBVIOUS
      <4>1. ntp_iteration - 1 \in 0 .. NtpUINT - 1
        BY <1>6 DEF NtpTrack, NtpTypeOK, RowsOwed
      <4>2. (ntp_iteration - 1) % NtpUINT = ntp_iteration - 1
        BY <4>1, SmallMod
      <4> QED BY <3>1, <4>2
    <3>4. NtpTypeOK'
      BY <1>6, <3>1, <3>2 DEF NtpTrack, NtpTypeOK
    <3>5. RowsOwed'
      <4>1. ~ntp_nonstop => ntp_iteration' + Len(ntplogd_logf') = rowsWanted
        BY <1>6, <1>a, <3>1, <3>3 DEF NtpTrack, NtpTypeOK, RowsOwed
      <4>2. rowsWanted' = rowsWanted /\ UNCHANGED <<periodic, asked_rows, ntp_nonstop>>
        BY <1>6 DEF NtpTrack, rowsWanted
      <4>3. ntp_nonstop <=> periodic /\ asked_rows = 0
        BY <1>6 DEF NtpTrack, RowsOwed
      <4> QED BY <3>1, <4>1, <4>2, <4>3 DEF RowsOwed
    <3>6. Schedule'
      BY <1>6, <1>a, <2>1, <3>1 DEF NtpTrack, NtpTypeOK, Schedule
    <3>7. NotEarly'
      <4> SUFFICES ASSUME NEW k \in DOMAIN ntplogd_logf'
                   PROVE  ntplogd_logf'[k] > first' + (k - 1) * periodic_inc'
        BY DEF NotEarly
      <4>1. CASE k \in DOMAIN ntplogd_logf
        BY <1>6, <3>1, <4>1 DEF NtpTrack, NtpTypeOK, NotEarly
      <4>2. CASE k \notin DOMAIN ntplogd_logf
        <5>1. k = n + 1
          BY <1>a, <3>1, <4>2 DEF NtpTypeOK
        <5>2. ntplogd_logf'[k] = ts_now /\ first' = first /\ k - 1 = n
          BY <1>6, <1>a, <3>1, <5>1 DEF NtpTrack, NtpTypeOK
        <5> QED BY <1>6, <2>1, <3>1, <5>2 DEF NtpTrack, Schedule
      <4> QED BY <4>1, <4>2
    <3> QED BY <3>4, <3>5, <3>6, <3>7
  <2>2. CASE ~skippedFirst
    BY <1>6, <1>a, <2>2 DEF NtpTrack, NtpTypeOK, RowsOwed, rowsWanted, Schedule, NotEarly,
                            periodic_inc
  <2> QED BY <2>1, <2>2
<1>7. CASE NtpSnooze
  <2>1. NtpTypeOK'
    BY <1>7, <1>a DEF NtpSnooze, NtpTypeOK, advanced
  <2>2. RowsOwed'
    BY <1>7 DEF NtpSnooze, NtpTypeOK, RowsOwed, rowsWanted, shallTerminate
  <2>3. /\ ntplogd_logf' = ntplogd_logf /\ first' = first /\ time' = time
        /\ skippedFirst' = skippedFirst /\ periodic_inc' = periodic_inc
    BY <1>7 DEF NtpSnooze, periodic_inc
  <2>4. NotEarly'
    BY <2>3 DEF NotEarly
  <2>5. (n + 1) * periodic_inc = n * periodic_inc + periodic_inc
    BY <1>a
  <2>6. Schedule'
    BY <1>7, <1>a, <2>3, <2>5 DEF NtpSnooze, NtpTypeOK, Schedule, advanced
  <2> QED BY <2>1, <2>2, <2>4, <2>6
<1>8. CASE NtpWake
  BY <1>8, <1>a DEF NtpWake, NtpTypeOK, RowsOwed, rowsWanted, Schedule, NotEarly, periodic_inc
<1>9. CASE UNCHANGED ntpVars
  BY <1>9, <1>a DEF ntpVars, NtpTypeOK, RowsOwed, rowsWanted, Schedule, NotEarly, periodic_inc
<1> QED
  BY <1>1, <1>2, <1>3, <1>4, <1>5, <1>6, <1>7, <1>8, <1>9 DEF NtpNext, NtpStep

\* ntplogd ends by itself only when it has printed what its options ask for, whatever
\* the width of the counter (core.cpp, main and shallTerminate).
THEOREM NtpRows == NtpSpec => []RowsAsAsked
<1>1. NtpInv => RowsAsAsked
  BY DEF NtpInv, NtpTypeOK, RowsOwed, rowsWanted, RowsAsAsked
<1> QED
  BY NtpInitInv, NtpStepInv, <1>1, PTL DEF NtpSpec

\* No row is stamped before its place in the schedule of the start, for every interval
\* and however late the others were (core.cpp, run_interval_of).
THEOREM NtpSchedule == NtpSpec => []NotEarly
<1>1. NtpInv => NotEarly
  BY DEF NtpInv
<1> QED
  BY NtpInitInv, NtpStepInv, <1>1, PTL DEF NtpSpec

-----------------------------------------------------------------------------
(* What is proved of GpioRtt for every number of tuples and every level    *)
(* the wires start at: the boards are in step from the first tuple on that *)
(* is logged with both set up.                                             *)
(*                                                                         *)
(* BoardsInStep is about counters that no board has.  The invariant says   *)
(* what ties them to the wires: the master waits for the level its own     *)
(* line does not have, the client for the level its own line has.  When    *)
(* the client logs a tuple the two lines are equal, so that the master has *)
(* nothing to answer until the client changes its line again.              *)

GpioTypes ==
  /\ handler_f \in [Boards -> {"gpio", "null"}]
  /\ args \in [Boards -> 0..3]
  /\ pin \in [Pins -> 0..1]
  /\ sense \in [Boards -> [Pins -> 0..1]]
  /\ server_thread \in {"none", "start", "barrier", "line", "done"}
  /\ client \in {"idle", "signal", "barrier", "ready", "wait"}
  /\ tuples \in Nat /\ answers \in Nat

\* What the master has left on its line, and what it waits for
MasterWires ==
  /\ server_thread # "none" => args["master"] = 3
  /\ server_thread # "line" => sense["master"]["PIN_LINE_C"] = 0
  /\ server_thread \notin {"none", "line"} => pin["PIN_LINE_M"] = 0
  /\ server_thread = "line" => sense["master"]["PIN_LINE_C"] = 1 - pin["PIN_LINE_M"]

\* The same for the client
ClientWires ==
  /\ client = "idle" => sense["client"]["PIN_LINE_M"] = 0
  /\ client # "idle" => sense["client"]["PIN_LINE_M"] = pin["PIN_LINE_C"]
  /\ client \notin {"ready", "wait"} => tuples = 0

\* One signal at a time is on its way.
LinesMatch ==
  tuples > 0 =>
    /\ server_thread # "none"
    /\ client = "ready" => answers = tuples - 1 /\ pin["PIN_LINE_M"] = pin["PIN_LINE_C"]
    /\ client = "wait" =>
         \/ answers = tuples - 1 /\ pin["PIN_LINE_M"] = 1 - pin["PIN_LINE_C"]
         \/ answers = tuples /\ pin["PIN_LINE_M"] = pin["PIN_LINE_C"]

\* The inductive invariant
WiresInv == GpioTypes /\ MasterWires /\ ClientWires /\ LinesMatch

\* Nothing is waited for and nobody has counted.
LEMMA WiresInit ==
  ASSUME GpioInit
  PROVE  WiresInv
BY GpioAssumption DEF GpioInit, WiresInv, GpioTypes, MasterWires, ClientWires, LinesMatch, Boards, Pins

\* initGPIO drives the board's own two pins low and leaves the others.
LEMMA InitPins ==
  ASSUME GpioTypes, NEW b \in Boards
  PROVE  /\ initGPIO(b) \in [Pins -> 0..1]
         /\ \A p \in Pins : initGPIO(b)[p] = IF p \in outputs(b) THEN 0 ELSE pin[p]
BY DEF GpioTypes, initGPIO

\* Every step keeps the wires as the places say.
LEMMA WiresStep ==
  ASSUME WiresInv, [GpioNext]_gpioVars
  PROVE  WiresInv'
<1> USE DEF WiresInv
<1>1. ASSUME NEW b \in Boards, SetArgFails(b) PROVE WiresInv'
  <2>1. /\ args[b] < 3 /\ args' = [args EXCEPT ![b] = 3]
        /\ handler_f' = [handler_f EXCEPT ![b] = "null"]
        /\ b = "client" => client = "idle"
        /\ pin' = pin \/ pin' = initGPIO(b)
        /\ UNCHANGED <<sense, server_thread, client, tuples, answers>>
    BY <1>1 DEF SetArgFails
  <2>2. GpioTypes'
    BY <2>1, InitPins DEF GpioTypes
  <2>3. /\ b = "client" => client = "idle" /\ pin'["PIN_LINE_M"] = pin["PIN_LINE_M"]
        /\ b = "master" => server_thread = "none" /\ pin'["PIN_LINE_C"] = pin["PIN_LINE_C"]
    BY <2>1, InitPins DEF Pins, outputs, Boards, MasterWires
  <2>4. args'["master"] = args["master"] \/ args'["master"] = 3
    BY <2>1 DEF GpioTypes, Boards
  <2> QED  BY <2>1, <2>2, <2>3, <2>4 DEF MasterWires, ClientWires, LinesMatch, Boards, GpioTypes
<1>2. ASSUME NEW b \in Boards, SetArgCPU(b) PROVE WiresInv'
  <2>1. /\ args[b] < 2 /\ args' = [args EXCEPT ![b] = args[b] + 1]
        /\ UNCHANGED <<handler_f, pin, sense, server_thread, client, tuples, answers>>
    BY <1>2 DEF SetArgCPU
  <2>2. args' \in [Boards -> 0..3] /\ (server_thread # "none" => args'["master"] = 3)
    BY <2>1 DEF GpioTypes, MasterWires, Boards
  <2> QED  BY <2>1, <2>2 DEF GpioTypes, MasterWires, ClientWires, LinesMatch
<1>3. CASE SetArgMaster
  <2>1. /\ args["master"] = 2 /\ args' = [args EXCEPT !["master"] = 3]
        /\ handler_f' \in [Boards -> {"gpio", "null"}]
        /\ pin' = initGPIO("master") /\ server_thread' = "start" /\ server_thread = "none"
        /\ UNCHANGED <<sense, client, tuples, answers>>
    BY <1>3 DEF SetArgMaster, GpioTypes, MasterWires, Boards
  <2>2. GpioTypes' /\ args'["master"] = 3
    BY <2>1, InitPins DEF GpioTypes, Boards
  <2>3. pin'["PIN_LINE_M"] = 0 /\ pin'["PIN_LINE_C"] = pin["PIN_LINE_C"]
    BY <2>1, InitPins DEF Pins, outputs, Boards
  <2> QED  BY <2>1, <2>2, <2>3 DEF GpioTypes, MasterWires, ClientWires, LinesMatch
<1>4. CASE SetArgClient
  <2>1. /\ pin' = initGPIO("client") /\ client' = "signal" /\ client = "idle"
        /\ UNCHANGED <<handler_f, args, sense, server_thread, tuples, answers>>
    BY <1>4 DEF SetArgClient
  <2>2. GpioTypes'
    BY <2>1, InitPins DEF GpioTypes, Boards
  <2>3. pin'["PIN_LINE_C"] = 0 /\ pin'["PIN_LINE_M"] = pin["PIN_LINE_M"]
    BY <2>1, InitPins DEF Pins, outputs, Boards
  <2> QED  BY <2>1, <2>2, <2>3 DEF GpioTypes, MasterWires, ClientWires, LinesMatch
<1>5. CASE ClientBarrier
  <2>11. /\ sense' \in [Boards -> [Pins -> 0..1]]
         /\ sense'["master"] = sense["master"]
         /\ sense'["client"]["PIN_BARR_C"] = 1 - sense["client"]["PIN_BARR_C"]
         /\ sense'["client"]["PIN_BARR_M"] = 1 - sense["client"]["PIN_BARR_M"]
         /\ \A p \in Pins \ {"PIN_BARR_C", "PIN_BARR_M"} : sense'["client"][p] = sense["client"][p]
    BY <1>5 DEF ClientBarrier, GpioTypes, Boards, Pins, reverse_barrier, reverse_line
  <2>12. pin' = [pin EXCEPT !["PIN_BARR_C"] = 1 - pin["PIN_BARR_C"]]
    BY <1>5 DEF ClientBarrier, flip
  <2>1. /\ client = "signal" /\ client' = "barrier"
        /\ UNCHANGED <<handler_f, args, server_thread, tuples, answers>>
        /\ pin' = [pin EXCEPT !["PIN_BARR_C"] = 1 - pin["PIN_BARR_C"]]
        /\ sense' \in [Boards -> [Pins -> 0..1]] /\ sense'["master"] = sense["master"]
        /\ sense'["client"]["PIN_LINE_M"] = sense["client"]["PIN_LINE_M"]
    BY <1>5, <2>11, <2>12 DEF ClientBarrier, Pins
  <2>2. pin' \in [Pins -> 0..1] /\ \A p \in Pins : p # "PIN_BARR_C" => pin'[p] = pin[p]
    BY <2>1 DEF GpioTypes, Pins
  <2> QED  BY <2>1, <2>2 DEF GpioTypes, MasterWires, ClientWires, LinesMatch, Pins
<1>6. CASE ClientPasses
  <2>1. /\ client = "barrier" /\ client' = "ready"
        /\ args' = [args EXCEPT !["client"] = 3]
        /\ UNCHANGED <<handler_f, pin, sense, server_thread, tuples, answers>>
    BY <1>6 DEF ClientPasses
  <2>2. args' \in [Boards -> 0..3] /\ args'["master"] = args["master"]
    BY <2>1 DEF GpioTypes, Boards
  <2> QED  BY <2>1, <2>2 DEF GpioTypes, MasterWires, ClientWires, LinesMatch
<1>7. CASE ClientSignal
  <2>11. /\ sense' \in [Boards -> [Pins -> 0..1]]
         /\ sense'["master"] = sense["master"]
         /\ sense'["client"]["PIN_LINE_C"] = 1 - sense["client"]["PIN_LINE_C"]
         /\ sense'["client"]["PIN_LINE_M"] = 1 - sense["client"]["PIN_LINE_M"]
         /\ \A p \in Pins \ {"PIN_LINE_C", "PIN_LINE_M"} : sense'["client"][p] = sense["client"][p]
    BY <1>7 DEF ClientSignal, GpioTypes, Boards, Pins, reverse_barrier, reverse_line
  <2>12. pin' = [pin EXCEPT !["PIN_LINE_C"] = 1 - pin["PIN_LINE_C"]]
    BY <1>7 DEF ClientSignal, flip
  <2>1. /\ client = "ready" /\ client' = "wait"
        /\ UNCHANGED <<handler_f, args, server_thread, tuples, answers>>
        /\ pin' = [pin EXCEPT !["PIN_LINE_C"] = 1 - pin["PIN_LINE_C"]]
        /\ sense' \in [Boards -> [Pins -> 0..1]] /\ sense'["master"] = sense["master"]
        /\ sense'["client"]["PIN_LINE_M"] = 1 - sense["client"]["PIN_LINE_M"]
    BY <1>7, <2>11, <2>12 DEF ClientSignal, Pins
  <2>2. /\ pin' \in [Pins -> 0..1] /\ \A p \in Pins : p # "PIN_LINE_C" => pin'[p] = pin[p]
        /\ pin'["PIN_LINE_C"] = 1 - pin["PIN_LINE_C"] /\ pin["PIN_LINE_C"] \in 0..1
    BY <2>1 DEF GpioTypes, Pins
  <2> QED  BY <2>1, <2>2 DEF GpioTypes, MasterWires, ClientWires, LinesMatch, Pins
<1>8. CASE ClientLogs
  <2>1. /\ client = "wait" /\ client' = "ready"
        /\ tuples' = IF server_thread = "none" THEN tuples ELSE tuples + 1
        /\ answers' = IF tuples = 0 THEN 0 ELSE answers
        /\ pin["PIN_LINE_M"] = pin["PIN_LINE_C"] /\ pin["PIN_LINE_C"] \in 0..1
        /\ UNCHANGED <<handler_f, args, pin, sense, server_thread>>
    BY <1>8 DEF ClientLogs, ClientWires, GpioTypes, Pins
  <2>2. tuples > 0 => server_thread # "none" /\ answers = tuples
    BY <2>1 DEF LinesMatch
  <2> QED  BY <2>1, <2>2 DEF GpioTypes, MasterWires, ClientWires, LinesMatch
<1>9. CASE ServerFails
  BY <1>9 DEF ServerFails, GpioTypes, MasterWires, ClientWires, LinesMatch
<1>10. CASE GpioServerStart
  <2>1. /\ server_thread = "start" /\ server_thread' = "barrier"
        /\ UNCHANGED <<handler_f, args, pin, client, tuples, answers>>
        /\ sense' \in [Boards -> [Pins -> 0..1]] /\ sense'["client"] = sense["client"]
        /\ sense'["master"]["PIN_LINE_C"] = sense["master"]["PIN_LINE_C"]
    BY <1>10 DEF GpioServerStart, reverse_barrier, GpioTypes, MasterWires, Boards, Pins
  <2> QED  BY <2>1 DEF GpioTypes, MasterWires, ClientWires, LinesMatch
<1>11. CASE ServerPasses
  <2>11. /\ sense' \in [Boards -> [Pins -> 0..1]]
         /\ sense'["client"] = sense["client"]
         /\ sense'["master"]["PIN_BARR_M"] = 1 - sense["master"]["PIN_BARR_M"]
         /\ sense'["master"]["PIN_LINE_C"] = 1 - sense["master"]["PIN_LINE_C"]
         /\ sense'["master"]["PIN_LINE_M"] = 1 - sense["master"]["PIN_LINE_M"]
         /\ \A p \in Pins \ {"PIN_BARR_M", "PIN_LINE_C", "PIN_LINE_M"} : sense'["master"][p] = sense["master"][p]
    BY <1>11 DEF ServerPasses, GpioTypes, Boards, Pins, reverse_barrier, reverse_line
  <2>12. pin' = [pin EXCEPT !["PIN_BARR_M"] = 1 - pin["PIN_BARR_M"]]
    BY <1>11 DEF ServerPasses, flip
  <2>1. /\ server_thread = "barrier" /\ server_thread' = "line"
        /\ UNCHANGED <<handler_f, args, client, tuples, answers>>
        /\ pin' = [pin EXCEPT !["PIN_BARR_M"] = 1 - pin["PIN_BARR_M"]]
        /\ sense' \in [Boards -> [Pins -> 0..1]] /\ sense'["client"] = sense["client"]
        /\ sense'["master"]["PIN_LINE_C"] = 1
    BY <1>11, <2>11, <2>12 DEF ServerPasses, MasterWires, Pins
  <2>2. /\ pin' \in [Pins -> 0..1] /\ \A p \in Pins : p # "PIN_BARR_M" => pin'[p] = pin[p]
    BY <2>1 DEF GpioTypes, Pins
  <2> QED  BY <2>1, <2>2 DEF GpioTypes, MasterWires, ClientWires, LinesMatch, Pins
<1>12. CASE ServerAnswers
  <2>11. /\ sense' \in [Boards -> [Pins -> 0..1]]
         /\ sense'["client"] = sense["client"]
         /\ sense'["master"]["PIN_LINE_C"] = 1 - sense["master"]["PIN_LINE_C"]
         /\ sense'["master"]["PIN_LINE_M"] = 1 - sense["master"]["PIN_LINE_M"]
         /\ \A p \in Pins \ {"PIN_LINE_C", "PIN_LINE_M"} : sense'["master"][p] = sense["master"][p]
    BY <1>12 DEF ServerAnswers, GpioTypes, Boards, Pins, reverse_barrier, reverse_line
  <2>12. pin' = [pin EXCEPT !["PIN_LINE_M"] = 1 - pin["PIN_LINE_M"]]
    BY <1>12 DEF ServerAnswers, flip
  <2>1. /\ server_thread = "line" /\ pin["PIN_LINE_C"] = sense["master"]["PIN_LINE_C"]
        /\ UNCHANGED <<handler_f, args, server_thread, client, tuples>> /\ answers' = answers + 1
        /\ pin' = [pin EXCEPT !["PIN_LINE_M"] = 1 - pin["PIN_LINE_M"]]
        /\ sense' \in [Boards -> [Pins -> 0..1]] /\ sense'["client"] = sense["client"]
        /\ sense'["master"]["PIN_LINE_C"] = 1 - sense["master"]["PIN_LINE_C"]
        /\ pin["PIN_LINE_M"] \in 0..1 /\ pin["PIN_LINE_C"] \in 0..1
    BY <1>12, <2>11, <2>12 DEF ServerAnswers, GpioTypes, Pins
  <2>2. /\ pin' \in [Pins -> 0..1] /\ \A p \in Pins : p # "PIN_LINE_M" => pin'[p] = pin[p]
        /\ pin'["PIN_LINE_M"] = 1 - pin["PIN_LINE_M"]
    BY <2>1 DEF GpioTypes, Pins
  <2>3. pin["PIN_LINE_C"] = 1 - pin["PIN_LINE_M"]
    BY <2>1 DEF MasterWires
  <2>4. tuples > 0 => client = "wait" /\ answers = tuples - 1
    BY <2>1, <2>3 DEF LinesMatch, ClientWires, GpioTypes
  <2> QED  BY <2>1, <2>2, <2>3, <2>4 DEF GpioTypes, MasterWires, ClientWires, LinesMatch, Pins
<1>13. CASE UNCHANGED gpioVars
  BY <1>13 DEF gpioVars, GpioTypes, MasterWires, ClientWires, LinesMatch
<1> QED
  BY <1>1, <1>2, <1>3, <1>4, <1>5, <1>6, <1>7, <1>8, <1>9, <1>10, <1>11, <1>12, <1>13
  DEF GpioNext, GpioServer, GpioClient

\* For any number of tuples and whatever an earlier run has left on the wires, every tuple
\* after the first that is logged with both boards set up stands for one signal and one
\* answer (gpiortt_handler.cpp, GPIORTTHandler_server and GPIORTTHandler_client).
THEOREM GpioInStep == GpioSpec => []BoardsInStep
<1>1. WiresInv => BoardsInStep
  BY DEF WiresInv, GpioTypes, ClientWires, LinesMatch, BoardsInStep
<1>2. GpioInit => WiresInv
  BY WiresInit
<1>3. WiresInv /\ [GpioNext]_gpioVars => WiresInv'
  BY WiresStep
<1> QED  BY <1>1, <1>2, <1>3, PTL DEF GpioSpec

-----------------------------------------------------------------------------
(* PairsKeptApart and ShortestReported for every set of slaves and hosts.  *)
(* Neither is inductive.  That two slaves of a host do not serve at the    *)
(* same time needs that the addresses the master hands out differ, among   *)
(* the slaves that have one, that are about to bind it, and that have been *)
(* told to finish and have not yet given it up; that a slave works on      *)
(* nothing but the pair being measured needs that no request and no answer *)
(* of an earlier pair or session is left at an endpoint.                   *)

\* The slave has an address: bound, or on its way to it.
Given(s) == accept[s] # 0 \/ port[s] # 0

\* That address.
Addr(s) == <<HostOf[s], IF accept[s] # 0 THEN accept[s] ELSE port[s]>>

\* The master still holds the address as taken: it lists it, or has told its
\* slave to finish.
Taken(e) == Contains(slaves, e) \/ cmd[e].kind = "finish"

\* The places of a slave that has bound its port, and of one that measures.
Bound == {"command", "send", "recv", "serve"}
Busy(s) == spc[s] \in {"send", "recv", "serve"}

TscTypeOK ==
  /\ slaves \in Seq(Endpoints) /\ router \in Seq(Slaves) /\ regreq \subseteq Slaves
  /\ pairs \subseteq Endpoints \X Endpoints
  /\ nr_iterpm \in Nat \ {0}
  /\ spc \in [Slaves -> Bound \cup {"register", "accept"}]
  /\ port \in [Slaves -> Ports \cup {0}] /\ accept \in [Slaves -> Ports \cup {0}]
  /\ DOMAIN cmd = Endpoints /\ DOMAIN res = Endpoints
  /\ DOMAIN asked = Slaves
  /\ RTTs \in [Slaves -> Seq(Samples \cup {Nothing})]
  /\ ping \in [Hosts -> Seq(Slaves)] /\ pong \in [Slaves -> BOOLEAN]

\* A slave registers once, and no answer waits for one that has not asked.
Registering ==
  /\ \A s \in Slaves : port[s] # 0 <=> spc[s] \in Bound
  /\ \A s \in Slaves : accept[s] # 0 => spc[s] = "accept"
  /\ \A s \in regreq : spc[s] = "accept" /\ accept[s] = 0
  /\ \A i \in 1 .. Len(router) :
       /\ spc[router[i]] = "accept" /\ accept[router[i]] = 0
       /\ router[i] \notin regreq
  /\ \A i, j \in 1 .. Len(router) : router[i] = router[j] => i = j

\* The addresses taken are those of the slaves that have one, each of one slave.
Roster ==
  /\ \A s, t \in Slaves : Given(s) /\ Given(t) /\ Addr(s) = Addr(t) => s = t
  /\ \A s \in Slaves : Given(s) => Taken(Addr(s))
  /\ \A e \in Endpoints : Taken(e) => \E s \in Slaves : Given(s) /\ Addr(s) = e
  /\ \A i, j \in 1 .. Len(slaves) : slaves[i] = slaves[j] => i = j
  /\ \A e \in Endpoints : cmd[e].kind = "finish" => ~Contains(slaves, e)

\* The request is that of the pair being measured.
Ours(c) ==
  /\ c.kind = "measure" /\ c.from = pair.from /\ c.to = pair.to /\ c.iter \in Nat \ {0}

\* What is at the command sockets belongs to the current exchange.
Talk ==
  /\ \A e \in Endpoints : cmd[e] # Nothing =>
       /\ e \in waiting /\ res[e] = Nothing
       /\ IF mpc = "collect" THEN Ours(cmd[e]) ELSE cmd[e].kind = "finish"
  /\ \A e \in Endpoints : res[e] # Nothing => e \in waiting
  /\ \A e \in Endpoints : res[e].kind = "result" =>
       \E s \in Slaves : spc[s] = "command" /\ self(s) = e
  /\ \A s \in Slaves : Busy(s) =>
       /\ mpc = "collect" /\ self(s) \in waiting /\ Ours(asked[s])
       /\ cmd[self(s)] = Nothing /\ res[self(s)] = Nothing
       /\ self(s) = IF spc[s] = "serve" THEN pair.to ELSE pair.from

\* Whom the master waits for, and when it has no slaves listed.
Exchange ==
  /\ mpc \in {"start", "done", "registration", "request", "collect", "finish", "sleep"}
  /\ mpc \in {"start", "done", "sleep"} => slaves = <<>>
  /\ mpc \notin {"collect", "finish"} => waiting = {}
  /\ mpc = "finish" => \A d, e \in waiting : d = e
  /\ mpc = "collect" =>
       /\ pair.kind = "pair" /\ waiting \subseteq {pair.from, pair.to}
       /\ pair.to \in Endpoints

\* A measurement request on its way, or the reply to it, is what its sender
\* waits for.
Pings ==
  /\ \A h \in Hosts : \A i \in 1 .. Len(ping[h]) :
       spc[ping[h][i]] = "recv" /\ ~pong[ping[h][i]] /\ h = pair.to[1]
  /\ \A h \in Hosts : \A i, j \in 1 .. Len(ping[h]) : ping[h][i] = ping[h][j] => i = j
  /\ \A s \in Slaves : pong[s] => spc[s] = "recv"

\* The sender of a pair has measured samples.
Measured ==
  \A s \in Slaves : spc[s] \in {"send", "recv"} => RTTs[s] \in Seq(Samples)

TscInv ==
  /\ TscTypeOK /\ Registering /\ Roster /\ Exchange /\ Talk /\ Pings
  /\ Measured /\ ShortestReported

\* What taking the first of a queue returns and leaves.
LEMMA HeadTail ==
  ASSUME NEW S, NEW s \in Seq(S), s # <<>>
  PROVE  /\ Head(s) \in S
         /\ Head(s) = s[1]
         /\ Tail(s) \in Seq(S)
         /\ Len(Tail(s)) = Len(s) - 1
         /\ Len(s) \in Nat \ {0}
         /\ \A i \in 1..Len(Tail(s)) : Tail(s)[i] = s[i + 1]
  OBVIOUS

\* What adding to a queue, the list of slaves or the samples makes.
LEMMA SeqAppend ==
  ASSUME NEW S, NEW s \in Seq(S), NEW e \in S
  PROVE  /\ Append(s, e) \in Seq(S)
         /\ Len(Append(s, e)) = Len(s) + 1
         /\ Append(s, e)[Len(s) + 1] = e
         /\ \A j \in 1..Len(s) : Append(s, e)[j] = s[j]
  OBVIOUS

\* What is left of the list of slaves when one is removed: one less, the others
\* in place or one position down.
LEMMA SeqRemove ==
  ASSUME NEW S, NEW s \in Seq(S), NEW i \in 1..Len(s)
  PROVE  /\ RemoveAt(s, i) \in Seq(S)
         /\ Len(RemoveAt(s, i)) = Len(s) - 1
         /\ \A j \in 1..Len(s) - 1 :
              RemoveAt(s, i)[j] = IF j < i THEN s[j] ELSE s[j + 1]
<1> DEFINE p == SubSeq(s, 1, i - 1)
           q == SubSeq(s, i + 1, Len(s))
<1>1. /\ p \in Seq(S) /\ Len(p) = i - 1
      /\ \A j \in 1..i - 1 : p[j] = s[j]
  OBVIOUS
<1>2. /\ q \in Seq(S) /\ Len(q) = Len(s) - i
      /\ \A j \in 1..Len(s) - i : q[j] = s[i + j]
  OBVIOUS
<1>3. RemoveAt(s, i) = p \o q
  BY DEF RemoveAt
<1> HIDE DEF p, q
<1>4. /\ p \o q \in Seq(S)
      /\ Len(p \o q) = Len(s) - 1
      /\ \A j \in 1..Len(s) - 1 :
           (p \o q)[j] = IF j < i THEN p[j] ELSE q[j - (i - 1)]
  <2>1. /\ p \o q \in Seq(S) /\ Len(p \o q) = Len(p) + Len(q)
        /\ \A j \in 1..Len(p) + Len(q) :
             (p \o q)[j] = IF j <= Len(p) THEN p[j] ELSE q[j - Len(p)]
    BY <1>1, <1>2, ConcatProperties
  <2>2. Len(p) + Len(q) = Len(s) - 1
    BY <1>1, <1>2
  <2> QED
    BY <2>1, <2>2, <1>1
<1>5. ASSUME NEW j \in 1..Len(s) - 1
      PROVE  (p \o q)[j] = IF j < i THEN s[j] ELSE s[j + 1]
  <2>1. CASE j < i
    BY <2>1, <1>1, <1>4
  <2>2. CASE ~(j < i)
    <3>1. j - (i - 1) \in 1..Len(s) - i
      BY <2>2
    <3> QED
      BY <3>1, <2>2, <1>2, <1>4
  <2> QED
    BY <2>1, <2>2
<1> QED
  BY <1>3, <1>4, <1>5

\* Every non-empty set of natural numbers has a least element, which Min is.
LEMMA MinIsLeast ==
  ASSUME NEW T, T \subseteq Nat, T # {}
  PROVE  Min(T) \in T /\ \A y \in T : Min(T) <= y
<1>1. PICK x \in T : \A y \in T : ~(<<y, x>> \in OpToRel(<, Nat))
  BY NatLessThanWellFounded, WFMin
<1>2. ASSUME NEW d \in T PROVE x <= d
  <2>1. ~(d < x)
    BY <1>1 DEF OpToRel
  <2> QED
    BY <2>1
<1> QED
  BY <1>2 DEF Min

\* A slave that answers, or has an answer waiting, has an endpoint for it.
LEMMA SelfFacts ==
  ASSUME TscTypeOK, Registering
  PROVE  \A s \in Slaves :
           /\ spc[s] \in Bound => port[s] \in Ports /\ self(s) \in Endpoints
           /\ spc[s] \in Bound => accept[s] = 0 /\ Given(s) /\ Addr(s) = self(s)
           /\ HostOf[s] \in Hosts
<1> SUFFICES ASSUME NEW s \in Slaves
             PROVE /\ spc[s] \in Bound => port[s] \in Ports /\ self(s) \in Endpoints
                   /\ spc[s] \in Bound => accept[s] = 0 /\ Given(s) /\ Addr(s) = self(s)
                   /\ HostOf[s] \in Hosts
  OBVIOUS
<1>1. HostOf[s] \in Hosts
  BY TscAssumption
<1>2. spc[s] \in Bound => port[s] \in Ports
  BY DEF TscTypeOK, Registering
<1>3. spc[s] \in Bound => self(s) \in Endpoints
  BY <1>1, <1>2 DEF self, Endpoints
<1>4. spc[s] \in Bound => accept[s] = 0 /\ port[s] # 0
  BY DEF Registering, Bound
<1> QED
  BY <1>1, <1>2, <1>3, <1>4 DEF Given, Addr, self

\* Two slaves that have bound a port have different addresses.
LEMMA SelfDiffers ==
  ASSUME TscTypeOK, Registering, Roster
  PROVE  \A s, t \in Slaves : spc[s] \in Bound /\ spc[t] \in Bound /\ self(s) = self(t) => s = t
  BY SelfFacts DEF Roster

\* Nobody has registered at the start.
LEMMA TscInitInv == TscInit => TscInv
<1> SUFFICES ASSUME TscInit PROVE TscInv
  OBVIOUS
<1> USE DEF TscInit, SlaveInit
<1>1. TscTypeOK
  BY TscAssumption DEF TscTypeOK, Bound
<1>2. Registering
  BY DEF Registering, Bound
<1>3. Nothing.kind = "none"
  BY DEF Nothing
<1>4. \A s \in Slaves : ~Given(s)
  BY DEF Given
<1>5. \A e \in Endpoints : cmd[e].kind = "none" /\ ~Taken(e) /\ ~Contains(slaves, e)
  BY <1>3 DEF Taken, Contains
<1>6. Roster
  BY <1>4, <1>5 DEF Roster
<1>7. Exchange /\ Measured
  BY DEF Exchange, Measured
<1>8. Talk
  BY <1>3 DEF Talk, Busy
<1>9. Pings
  BY DEF Pings
<1>10. ShortestReported
  BY DEF ShortestReported
<1> QED
  BY <1>1, <1>2, <1>6, <1>7, <1>8, <1>9, <1>10 DEF TscInv

\* The steps that leave the addresses alone, and change no command to finish.
LEMMA RosterKept ==
  TscTypeOK /\ Roster /\ UNCHANGED <<accept, port, slaves>>
    /\ (\A e \in Endpoints : cmd'[e].kind = "finish" <=> cmd[e].kind = "finish") => Roster'
<1> SUFFICES ASSUME TscTypeOK, Roster, UNCHANGED <<accept, port, slaves>>,
                    \A e \in Endpoints : cmd'[e].kind = "finish" <=> cmd[e].kind = "finish"
             PROVE  Roster'
  OBVIOUS
<1>1. \A s \in Slaves : Given(s)' = Given(s) /\ Addr(s)' = Addr(s)
  BY DEF Given, Addr
<1>2. \A s \in Slaves : Given(s) => Addr(s) \in Endpoints
  BY TscAssumption DEF Given, Addr, TscTypeOK, Endpoints
<1>3. \A e \in Endpoints : Taken(e)' <=> Taken(e)
  BY DEF Taken, Contains
<1>4. \A e \in Endpoints : Contains(slaves, e)' <=> Contains(slaves, e)
  BY DEF Contains
<1> QED
  BY <1>1, <1>2, <1>3, <1>4 DEF Roster

\* The steps that leave the command sockets alone.
LEMMA TalkKept ==
  Talk /\ UNCHANGED <<waiting, pair, cmd, res, spc, port, asked>>
    /\ (mpc' = "collect" <=> mpc = "collect") => Talk'
  BY DEF Talk, Busy, Ours, self

\* The steps that leave the measurement sockets alone.
LEMMA PingsKept == Pings /\ UNCHANGED <<ping, pong, spc, pair>> => Pings'
  BY DEF Pings

\* The steps that leave answers and samples alone.
LEMMA ShortKept == ShortestReported /\ UNCHANGED <<res, port, RTTs, asked>> => ShortestReported'
  BY DEF ShortestReported, self

\* Between two exchanges nothing is at the command sockets, nobody measures,
\* and no measurement request is on its way.
LEMMA Quiet ==
  ASSUME TscTypeOK, Talk, Exchange, Pings, mpc \notin {"collect", "finish"}
  PROVE  /\ \A e \in Endpoints : cmd[e] = Nothing /\ res[e] = Nothing /\ cmd[e].kind = "none"
         /\ \A s \in Slaves : ~Busy(s) /\ ~pong[s]
         /\ \A h \in Hosts : Len(ping[h]) = 0
<1>1. waiting = {}
  BY DEF Exchange
<1>2. \A e \in Endpoints : cmd[e] = Nothing /\ res[e] = Nothing
  BY <1>1 DEF Talk
<1>3. \A e \in Endpoints : cmd[e].kind = "none"
  BY <1>2 DEF Nothing
<1>4. \A s \in Slaves : ~Busy(s)
  BY DEF Talk
<1>5. \A s \in Slaves : ~pong[s]
  BY <1>4 DEF Pings, Busy
<1>6. ASSUME NEW h \in Hosts, Len(ping[h]) # 0 PROVE FALSE
  <2>1. Len(ping[h]) \in Nat /\ ping[h] \in Seq(Slaves)
    BY DEF TscTypeOK
  <2>2. 1 \in 1 .. Len(ping[h])
    BY <1>6, <2>1
  <2>3. ping[h][1] \in Slaves
    BY <2>1, <2>2
  <2>4. spc[ping[h][1]] = "recv"
    BY <2>2 DEF Pings
  <2> QED
    BY <2>3, <2>4, <1>4 DEF Busy
<1> QED
  BY <1>2, <1>3, <1>4, <1>5, <1>6

\* The steps of the master that only move it between sessions.
LEMMA TurnsInv ==
  TscInv /\ (StartSession \/ MasterEnds \/ BudgetEnd \/ ListPairs) => TscInv'
<1> SUFFICES ASSUME TscInv, StartSession \/ MasterEnds \/ BudgetEnd \/ ListPairs PROVE TscInv'
  OBVIOUS
<1> USE DEF TscInv, slaveVars, netVars
<1>0. /\ UNCHANGED <<slaves, waiting, pair, cmd, res, spc, port, asked, RTTs, accept, ping, pong,
                    regreq, nr_iterpm>>
      /\ mpc \notin {"collect", "finish"} /\ mpc' \notin {"collect", "finish"}
      /\ mpc' \in {"registration", "done", "start", "request"}
      /\ mpc' \in {"start", "done", "sleep"} => mpc \in {"start", "done", "sleep"}
  BY DEF StartSession, MasterEnds, BudgetEnd, ListPairs, Exchange
<1>1. pairs' \subseteq Endpoints \X Endpoints
  <2>1. CASE ListPairs
    <3>1. \A e \in Range(slaves) : e \in Endpoints
      BY DEF TscTypeOK, Range
    <3> QED
      BY <2>1, <3>1 DEF ListPairs, all_pairs
  <2>2. CASE ~ListPairs
    BY <2>2 DEF StartSession, MasterEnds, BudgetEnd, TscTypeOK
  <2> QED
    BY <2>1, <2>2
<1>2. router' = router \/ router' = <<>>
  BY DEF StartSession, MasterEnds, BudgetEnd, ListPairs
<1>3. TscTypeOK'
  <2>1. <<>> \in Seq(Slaves) /\ router \in Seq(Slaves)
    BY DEF TscTypeOK
  <2>2. router' \in Seq(Slaves)
    BY <1>2, <2>1
  <2> QED
    BY <1>0, <1>1, <2>2 DEF TscTypeOK
<1>4. Registering'
  BY <1>0, <1>2 DEF Registering
<1>5. Roster'
  BY <1>0, RosterKept
<1>6. Exchange'
  BY <1>0 DEF Exchange
<1>7. Talk' /\ Pings' /\ ShortestReported'
  BY <1>0, TalkKept, PingsKept, ShortKept
<1>8. Measured'
  BY <1>0 DEF Measured
<1> QED
  BY <1>3, <1>4, <1>5, <1>6, <1>7, <1>8

\* The results are written: the session has no slaves left.
LEMMA EndSessionInv == TscInv /\ EndSession => TscInv'
<1> SUFFICES ASSUME TscInv, EndSession PROVE TscInv'
  OBVIOUS
<1> USE DEF TscInv, slaveVars, netVars
<1>0. /\ UNCHANGED <<slaves, waiting, pairs, cmd, res, spc, port, asked, RTTs, accept, ping, pong,
                    regreq, router>>
      /\ mpc = "request" /\ mpc' = "sleep" /\ slaves = <<>>
  BY DEF EndSession
<1>1. nr_iterpm' \in Nat \ {0}
  BY TscAssumption DEF EndSession, TscTypeOK
<1>2. TscTypeOK'
  BY <1>0, <1>1 DEF TscTypeOK
<1>3. Registering'
  BY <1>0 DEF Registering
<1>4. Roster' /\ ShortestReported'
  BY <1>0, RosterKept, ShortKept
<1>5. Exchange' /\ Measured'
  BY <1>0 DEF Exchange, Measured
<1>6. /\ \A e \in Endpoints : cmd[e] = Nothing /\ res[e] = Nothing
      /\ \A s \in Slaves : ~Busy(s) /\ ~pong[s]
      /\ \A h \in Hosts : Len(ping[h]) = 0
  BY <1>0, Quiet
<1>7. Nothing.kind = "none"
  BY DEF Nothing
<1>8. Talk'
  BY <1>0, <1>6, <1>7 DEF Talk, Busy
<1>9. Pings'
  BY <1>0, <1>6 DEF Pings
<1> QED
  BY <1>2, <1>3, <1>4, <1>5, <1>8, <1>9

\* The two slaves of a pair are asked, when nothing else is under way.
LEMMA RequestInv == TscInv /\ request_measurement => TscInv'
<1> SUFFICES ASSUME TscInv, request_measurement PROVE TscInv'
  OBVIOUS
<1> USE DEF TscInv, slaveVars
<1>0. /\ UNCHANGED <<slaves, res, spc, port, asked, RTTs, accept, ping, pong, regreq, router, nr_iterpm>>
      /\ mpc = "request" /\ mpc' = "collect"
  BY DEF request_measurement
<1>1. PICK p \in pairs :
        /\ pairs' = pairs \ {p}
        /\ pair' = [kind |-> "pair", from |-> p[1], to |-> p[2]]
        /\ waiting' = {p[1], p[2]}
        /\ cmd' = [e \in Endpoints |->
                    IF e \in {p[1], p[2]} THEN MSG_measure_req(p[1], p[2], nr_iterpm) ELSE cmd[e]]
  BY DEF request_measurement
<1>2. p[1] \in Endpoints /\ p[2] \in Endpoints
  BY DEF TscTypeOK
<1>3. pair'.kind = "pair" /\ pair'.from = p[1] /\ pair'.to = p[2]
  BY <1>1
<1>4. /\ \A e \in Endpoints : cmd[e] = Nothing /\ res[e] = Nothing /\ cmd[e].kind = "none"
      /\ \A s \in Slaves : ~Busy(s) /\ ~pong[s]
      /\ \A h \in Hosts : Len(ping[h]) = 0
  BY <1>0, Quiet
<1>5. \A e \in Endpoints :
        \/ e \in {p[1], p[2]} /\ Ours(cmd[e])'
        \/ e \notin {p[1], p[2]} /\ cmd'[e] = Nothing
  BY <1>1, <1>3, <1>4 DEF Ours, MSG_measure_req, TscTypeOK
<1>6. \A e \in Endpoints : cmd'[e].kind # "finish"
  BY <1>5 DEF Ours, Nothing
<1>7. TscTypeOK'
  BY <1>0, <1>1 DEF TscTypeOK
<1>8. Registering' /\ Measured'
  BY <1>0 DEF Registering, Measured
<1>9. Roster' /\ ShortestReported'
  BY <1>0, <1>4, <1>6, RosterKept, ShortKept
<1>10. Exchange'
  BY <1>0, <1>1, <1>2, <1>3 DEF Exchange
<1>11. Nothing.kind = "none"
  BY DEF Nothing
<1>12. Talk'
  BY <1>0, <1>1, <1>4, <1>5, <1>11 DEF Talk, Busy
<1>13. Pings'
  BY <1>0, <1>4 DEF Pings
<1> QED
  BY <1>7, <1>8, <1>9, <1>10, <1>12, <1>13

\* One of the two slaves of the pair has answered.
LEMMA CollectInv == ASSUME NEW e \in Endpoints PROVE TscInv /\ CollectResult(e) => TscInv'
<1> SUFFICES ASSUME TscInv, CollectResult(e) PROVE TscInv'
  OBVIOUS
<1> USE DEF TscInv, slaveVars
<1>0. /\ UNCHANGED <<slaves, cmd, spc, port, asked, RTTs, accept, ping, pong, regreq, router,
                    nr_iterpm, pairs, pair>>
      /\ mpc = "collect" /\ res[e].kind = "result" /\ waiting' = waiting \ {e}
      /\ res' = [res EXCEPT ![e] = Nothing]
      /\ mpc' = IF bothAnswered(e) THEN "request" ELSE mpc
  BY DEF CollectResult
<1>1. res[e] # Nothing
  BY <1>0 DEF Nothing
<1>2. /\ res'[e] = Nothing
      /\ \A d \in Endpoints : d # e => res'[d] = res[d]
      /\ DOMAIN res' = Endpoints
  BY <1>0 DEF TscTypeOK
<1>3. cmd[e] = Nothing
  BY <1>1 DEF Talk
<1>4. Nothing.kind = "none"
  BY DEF Nothing
<1>5. mpc' \in {"request", "collect"} /\ (mpc' = "request" => waiting' = {})
  BY <1>0 DEF bothAnswered
<1>6. TscTypeOK'
  BY <1>0, <1>2 DEF TscTypeOK
<1>7. Registering' /\ Measured'
  BY <1>0 DEF Registering, Measured
<1>8. Roster' /\ Pings'
  BY <1>0, RosterKept, PingsKept
<1>9. Exchange'
  BY <1>0, <1>5 DEF Exchange
<1>10. \A s \in Slaves : Busy(s) => self(s) # e /\ self(s) \in waiting'
  BY <1>0, <1>1 DEF Talk
<1>11. \A d \in Endpoints : cmd[d] # Nothing => d # e /\ d \in waiting' /\ mpc' = "collect"
  BY <1>0, <1>3, <1>5 DEF Talk
<1>12. \A s \in Slaves : Busy(s) => spc[s] \in Bound
  BY DEF Busy, Bound
<1>13. \A s \in Slaves : Busy(s) => self(s) \in Endpoints
  BY <1>12, SelfFacts
<1>14. \A s \in Slaves : self(s)' = self(s) /\ Busy(s)' = Busy(s) /\ Ours(asked[s])' = Ours(asked[s])
  BY <1>0 DEF self, Busy, Ours
<1>15. \A d \in Endpoints : Ours(cmd[d])' = Ours(cmd[d])
  BY <1>0 DEF Ours
<1>16. Talk'
  <2>1. \A d \in Endpoints : cmd'[d] # Nothing =>
          /\ d \in waiting' /\ res'[d] = Nothing
          /\ IF mpc' = "collect" THEN Ours(cmd[d])' ELSE cmd'[d].kind = "finish"
    BY <1>0, <1>2, <1>11, <1>15 DEF Talk
  <2>2. \A d \in Endpoints : res'[d] # Nothing => d \in waiting'
    BY <1>0, <1>2 DEF Talk
  <2>3. \A d \in Endpoints : res'[d].kind = "result" =>
          \E s \in Slaves : spc'[s] = "command" /\ self(s)' = d
    BY <1>0, <1>2, <1>4, <1>14 DEF Talk
  <2>4. \A s \in Slaves : Busy(s) =>
          /\ mpc' = "collect" /\ self(s) \in waiting' /\ Ours(asked[s])'
          /\ cmd'[self(s)] = Nothing /\ res'[self(s)] = Nothing
          /\ self(s) = IF spc[s] = "serve" THEN pair.to ELSE pair.from
    BY <1>0, <1>2, <1>5, <1>10, <1>13, <1>14 DEF Talk
  <2> QED
    BY <1>0, <1>14, <2>1, <2>2, <2>3, <2>4 DEF Talk
<1>17. ShortestReported'
  <2> SUFFICES ASSUME NEW s \in Slaves, port[s] # 0,
                      res'[self(s)].kind = "result", res'[self(s)].sender
               PROVE  /\ res'[self(s)].sample \in Range(RTTs[s]) /\ Len(RTTs[s]) = asked[s].iter
                      /\ \A t \in Range(RTTs[s]) : res'[self(s)].sample.cyc <= t.cyc
    BY <1>0, <1>14 DEF ShortestReported
  <2>1. self(s) \in Endpoints
    BY SelfFacts DEF Registering
  <2>2. res'[self(s)] = res[self(s)]
    BY <1>2, <1>4, <2>1
  <2> QED
    BY <2>2 DEF ShortestReported
<1> QED
  BY <1>6, <1>7, <1>8, <1>9, <1>16, <1>17

\* A slave has said that it is finished.
LEMMA RecvFinishedInv == ASSUME NEW e \in Endpoints PROVE TscInv /\ RecvFinished(e) => TscInv'
<1> SUFFICES ASSUME TscInv, RecvFinished(e) PROVE TscInv'
  OBVIOUS
<1> USE DEF TscInv, slaveVars
<1>0. /\ UNCHANGED <<slaves, cmd, spc, port, asked, RTTs, accept, ping, pong, regreq, router,
                    nr_iterpm, pairs, pair>>
      /\ mpc = "finish" /\ mpc' = "request" /\ e \in waiting /\ waiting' = {}
      /\ res[e].kind # "none" /\ res' = [res EXCEPT ![e] = Nothing]
  BY DEF RecvFinished
<1>1. Nothing.kind = "none"
  BY DEF Nothing
<1>2. \A d \in Endpoints : d # e => cmd[d] = Nothing /\ res[d] = Nothing
  BY <1>0 DEF Talk, Exchange
<1>3. cmd[e] = Nothing
  BY <1>0, <1>1 DEF Talk
<1>4. \A d \in Endpoints : cmd'[d] = Nothing /\ res'[d] = Nothing
  BY <1>0, <1>2, <1>3 DEF TscTypeOK
<1>5. \A s \in Slaves : ~Busy(s)
  BY <1>0 DEF Talk
<1>6. TscTypeOK'
  BY <1>0 DEF TscTypeOK
<1>7. Registering' /\ Measured' /\ Exchange'
  BY <1>0 DEF Registering, Measured, Exchange
<1>8. Roster' /\ Pings'
  BY <1>0, RosterKept, PingsKept
<1>9. Talk'
  BY <1>0, <1>1, <1>4, <1>5 DEF Talk, Busy
<1>10. ASSUME NEW s \in Slaves, port[s] # 0 PROVE res'[self(s)].kind # "result"
  <2>1. self(s) \in Endpoints
    BY <1>10, SelfFacts DEF Registering
  <2> QED
    BY <2>1, <1>4, <1>1
<1>11. ShortestReported'
  <2>1. \A s \in Slaves : self(s)' = self(s)
    BY <1>0 DEF self
  <2> QED
    BY <1>0, <1>10, <2>1 DEF ShortestReported
<1> QED
  BY <1>6, <1>7, <1>8, <1>9, <1>11

\* What is left of a list whose entries differ when one is removed.
LEMMA RemoveOne ==
  ASSUME NEW S, NEW s \in Seq(S), NEW i \in 1 .. Len(s),
         \A j, k \in 1 .. Len(s) : s[j] = s[k] => j = k
  PROVE  /\ RemoveAt(s, i) \in Seq(S)
         /\ \A j, k \in 1 .. Len(RemoveAt(s, i)) : RemoveAt(s, i)[j] = RemoveAt(s, i)[k] => j = k
         /\ \A e \in S : Contains(RemoveAt(s, i), e) <=> Contains(s, e) /\ e # s[i]
<1> DEFINE r == RemoveAt(s, i)
<1>0. /\ r \in Seq(S) /\ Len(r) = Len(s) - 1
      /\ \A j \in 1 .. Len(s) - 1 : r[j] = IF j < i THEN s[j] ELSE s[j + 1]
  BY SeqRemove
<1> HIDE DEF r
<1>1. Len(s) \in Nat
  OBVIOUS
<1>2. \A j, k \in 1 .. Len(r) : r[j] = r[k] => j = k
  <2> SUFFICES ASSUME NEW j \in 1 .. Len(s) - 1, NEW k \in 1 .. Len(s) - 1, r[j] = r[k] PROVE j = k
    BY <1>0
  <2>1. PICK a \in 1 .. Len(s) : a = IF j < i THEN j ELSE j + 1
    BY <1>1
  <2>2. PICK b \in 1 .. Len(s) : b = IF k < i THEN k ELSE k + 1
    BY <1>1
  <2>3. r[j] = s[a] /\ r[k] = s[b]
    BY <1>0, <2>1, <2>2
  <2>4. a = b
    BY <2>3
  <2> QED
    BY <2>1, <2>2, <2>4
<1>3. ASSUME NEW e \in S PROVE Contains(r, e) <=> Contains(s, e) /\ e # s[i]
  <2>1. ASSUME NEW j \in 1 .. Len(r), r[j] = e PROVE Contains(s, e) /\ e # s[i]
    <3>1. PICK a \in 1 .. Len(s) : a = IF j < i THEN j ELSE j + 1
      BY <1>0, <1>1
    <3>2. s[a] = e /\ a # i
      BY <1>0, <2>1, <3>1
    <3> QED
      BY <3>2 DEF Contains
  <2>2. ASSUME NEW a \in 1 .. Len(s), s[a] = e, e # s[i] PROVE Contains(r, e)
    <3>1. PICK j \in 1 .. Len(s) - 1 : a = IF j < i THEN j ELSE j + 1
      <4>1. CASE a < i
        <5>1. a \in 1 .. Len(s) - 1
          BY <4>1, <1>1
        <5> QED
          BY <4>1, <5>1
      <4>2. CASE a > i
        <5>1. a - 1 \in 1 .. Len(s) - 1 /\ ~(a - 1 < i) /\ (a - 1) + 1 = a
          BY <4>2, <1>1
        <5> QED
          BY <5>1
      <4>3. a # i
        BY <2>2
      <4> QED
        BY <4>1, <4>2, <4>3
    <3>2. r[j] = e /\ j \in 1 .. Len(r)
      BY <1>0, <2>2, <3>1
    <3> QED
      BY <3>2 DEF Contains
  <2> QED
    BY <2>1, <2>2 DEF Contains
<1> QED
  BY <1>0, <1>2, <1>3 DEF r

\* A slave is told to finish: its address stays taken until it gives it up.
LEMMA SendFinishInv == TscInv /\ SendFinish => TscInv'
<1> SUFFICES ASSUME TscInv, SendFinish PROVE TscInv'
  OBVIOUS
<1> USE DEF TscInv, slaveVars
<1>0. /\ UNCHANGED <<res, spc, port, asked, RTTs, accept, ping, pong, regreq, router,
                    nr_iterpm, pairs, pair>>
      /\ mpc = "request" /\ mpc' = "finish"
  BY DEF SendFinish
<1>1. PICK i \in DOMAIN slaves :
        /\ slaves' = RemoveAt(slaves, i)
        /\ cmd' = [cmd EXCEPT ![slaves[i]] = [kind |-> "finish"]]
        /\ waiting' = {slaves[i]}
  BY DEF SendFinish
<1>2. i \in 1 .. Len(slaves) /\ slaves \in Seq(Endpoints)
  BY DEF TscTypeOK
<1>3. PICK d \in Endpoints : d = slaves[i]
  BY <1>2
<1>4. /\ slaves' \in Seq(Endpoints)
      /\ \A j, k \in 1 .. Len(slaves') : slaves'[j] = slaves'[k] => j = k
      /\ \A e \in Endpoints : Contains(slaves, e)' <=> Contains(slaves, e) /\ e # d
  <2>1. \A j, k \in 1 .. Len(slaves) : slaves[j] = slaves[k] => j = k
    BY DEF Roster
  <2> QED
    BY <1>1, <1>2, <1>3, <2>1, RemoveOne
<1>5. Contains(slaves, d)
  BY <1>2, <1>3 DEF Contains
<1>6. /\ \A e \in Endpoints : cmd[e] = Nothing /\ res[e] = Nothing /\ cmd[e].kind = "none"
      /\ \A s \in Slaves : ~Busy(s) /\ ~pong[s]
      /\ \A h \in Hosts : Len(ping[h]) = 0
  BY <1>0, Quiet
<1>7. /\ DOMAIN cmd' = Endpoints /\ cmd'[d].kind = "finish"
      /\ \A e \in Endpoints : e # d => cmd'[e] = Nothing /\ cmd'[e].kind = "none"
  BY <1>1, <1>3, <1>6 DEF TscTypeOK
<1>8. TscTypeOK'
  BY <1>0, <1>4, <1>7 DEF TscTypeOK
<1>9. Registering' /\ Measured'
  BY <1>0 DEF Registering, Measured
<1>10. \A e \in Endpoints : Taken(e)' <=> Taken(e)
  BY <1>4, <1>5, <1>6, <1>7 DEF Taken
<1>11. \A s \in Slaves : Given(s)' = Given(s) /\ Addr(s)' = Addr(s)
  BY <1>0 DEF Given, Addr
<1>12. \A s \in Slaves : Given(s) => Addr(s) \in Endpoints
  BY TscAssumption DEF Given, Addr, TscTypeOK, Endpoints
<1>13. Roster'
  BY <1>4, <1>7, <1>10, <1>11, <1>12 DEF Roster
<1>14. Exchange'
  BY <1>0, <1>1 DEF Exchange
<1>15. Nothing.kind = "none"
  BY DEF Nothing
<1>16. Talk'
  BY <1>0, <1>1, <1>3, <1>6, <1>7, <1>15 DEF Talk, Busy
<1>17. Pings' /\ ShortestReported'
  BY <1>0, PingsKept, ShortKept
<1> QED
  BY <1>8, <1>9, <1>13, <1>14, <1>16, <1>17

\* There is a port for a slave that has none: each taken address of its host is
\* another slave's, and there are as many ports as slaves.
LEMMA FreePort ==
  ASSUME TscInv, IsFiniteSet(Slaves), NEW s \in Slaves, ~Given(s)
  PROVE  /\ availablePort(HostOf[s]) \in Ports
         /\ ~Contains(slaves, <<HostOf[s], availablePort(HostOf[s])>>)
<1> DEFINE h == HostOf[s]
           Free == {p \in Ports : ~Contains(slaves, <<h, p>>)}
<1> USE DEF TscInv
<1>0. h \in Hosts
  BY TscAssumption
<1>1. PICK n \in Nat : n = Cardinality(Slaves)
  BY FS_CardinalityType
<1>2. n # 0
  BY <1>1, FS_EmptySet
<1>3. Ports \subseteq Nat /\ Ports = FirstPort .. (FirstPort + n - 1)
  BY <1>1, TscAssumption DEF Ports
<1>4. IsFiniteSet(Ports) /\ Cardinality(Ports) = n
  <2>1. PICK a \in Int : a = FirstPort
    BY TscAssumption
  <2>2. PICK b \in Int : b = FirstPort + n - 1
    BY TscAssumption
  <2>3. IsFiniteSet(a .. b) /\ Cardinality(a .. b) = IF a > b THEN 0 ELSE b - a + 1
    BY FS_Interval
  <2>4. Ports = a .. b /\ b - a + 1 = n /\ ~(a > b)
    BY <1>2, <1>3, <2>1, <2>2
  <2> QED
    BY <2>3, <2>4
<1>5. IsFiniteSet(Slaves \ {s}) /\ Cardinality(Slaves \ {s}) = n - 1
  BY <1>1, FS_RemoveElement
<1>6. ASSUME Free = {} PROVE FALSE
  <2> DEFINE f == [p \in Ports |-> CHOOSE t \in Slaves : Given(t) /\ Addr(t) = <<h, p>>]
  <2>1. ASSUME NEW p \in Ports
        PROVE  f[p] \in Slaves \ {s} /\ Addr(f[p]) = <<h, p>>
    <3>1. <<h, p>> \in Endpoints
      BY <1>0 DEF Endpoints
    <3>2. Taken(<<h, p>>)
      BY <1>6 DEF Taken
    <3>3. \E t \in Slaves : Given(t) /\ Addr(t) = <<h, p>>
      BY <3>1, <3>2 DEF Roster
    <3>4. f[p] \in Slaves /\ Given(f[p]) /\ Addr(f[p]) = <<h, p>>
      BY <3>3
    <3> QED
      BY <3>4
  <2>2. f \in [Ports -> Slaves \ {s}]
    BY <2>1
  <2> HIDE DEF f
  <2>3. Cardinality(Slaves \ {s}) < Cardinality(Ports)
    BY <1>4, <1>5
  <2>4. PICK x \in Ports, y \in Ports : x # y /\ f[x] = f[y]
    BY <1>4, <1>5, <2>2, <2>3, FS_PigeonHole
  <2> QED
    BY <2>1, <2>4
<1>7. Free \subseteq Nat
  BY <1>3
<1>8. Min(Free) \in Free
  <2> HIDE DEF Free
  <2> QED
    BY <1>6, <1>7, MinIsLeast
<1> QED
  BY <1>8 DEF availablePort

\* A slave is given an address nobody has.
LEMMA RegistrationInv ==
  ASSUME IsFiniteSet(Slaves) PROVE TscInv /\ slave_registration => TscInv'
<1> SUFFICES ASSUME TscInv, slave_registration PROVE TscInv'
  OBVIOUS
<1> USE DEF TscInv, slaveVars
<1>0. /\ UNCHANGED <<mpc, cmd, res, spc, port, asked, RTTs, ping, pong, regreq, waiting,
                    nr_iterpm, pairs, pair>>
      /\ mpc = "registration" /\ router # <<>> /\ router' = Tail(router)
  BY DEF slave_registration
<1>1. router \in Seq(Slaves) /\ slaves \in Seq(Endpoints)
  BY DEF TscTypeOK
<1>2. /\ Head(router) \in Slaves /\ Head(router) = router[1]
      /\ Tail(router) \in Seq(Slaves) /\ Len(Tail(router)) = Len(router) - 1
      /\ Len(router) \in Nat \ {0}
      /\ \A i \in 1 .. Len(Tail(router)) : Tail(router)[i] = router[i + 1]
  BY <1>0, <1>1, HeadTail
<1>3. PICK s \in Slaves : s = Head(router)
  BY <1>2
<1>4. spc[s] = "accept" /\ accept[s] = 0 /\ s \notin regreq /\ port[s] = 0
  BY <1>2, <1>3 DEF Registering, Bound
<1>5. ~Given(s)
  BY <1>4 DEF Given
<1>6. PICK p \in Ports : p = availablePort(HostOf[s]) /\ ~Contains(slaves, <<HostOf[s], p>>)
  BY <1>5, FreePort
<1>7. HostOf[s] \in Hosts
  BY TscAssumption
<1>8. PICK a \in Endpoints : a = <<HostOf[s], p>>
  BY <1>7 DEF Endpoints
<1>9. p # 0
  BY TscAssumption DEF Ports
<1>10. accept' = [accept EXCEPT ![s] = p] /\ slaves' = Append(slaves, a)
  BY <1>3, <1>6, <1>8 DEF slave_registration
<1>11. /\ slaves' \in Seq(Endpoints) /\ Len(slaves') = Len(slaves) + 1
       /\ slaves'[Len(slaves) + 1] = a
       /\ \A j \in 1 .. Len(slaves) : slaves'[j] = slaves[j]
  BY <1>1, <1>10, SeqAppend
<1>12. /\ accept' \in [Slaves -> Ports \cup {0}] /\ accept'[s] = p
       /\ \A t \in Slaves : t # s => accept'[t] = accept[t]
  BY <1>10 DEF TscTypeOK
<1>13. TscTypeOK'
  BY <1>0, <1>2, <1>11, <1>12 DEF TscTypeOK
<1>14. \A i \in 1 .. Len(router') : i + 1 \in 1 .. Len(router) /\ router'[i] = router[i + 1] /\ router'[i] # s
  <2> SUFFICES ASSUME NEW i \in 1 .. Len(router')
               PROVE  i + 1 \in 1 .. Len(router) /\ router'[i] = router[i + 1] /\ router'[i] # s
    OBVIOUS
  <2>1. i + 1 \in 1 .. Len(router) /\ 1 \in 1 .. Len(router) /\ i + 1 # 1
    BY <1>0, <1>2
  <2>2. router'[i] = router[i + 1]
    BY <1>0, <1>2
  <2>3. router[i + 1] # router[1]
    BY <2>1 DEF Registering
  <2> QED
    BY <2>1, <2>2, <2>3, <1>2, <1>3
<1>15. Registering'
  <2>1. \A t \in Slaves : accept'[t] # 0 => spc[t] = "accept"
    BY <1>4, <1>12 DEF Registering
  <2>2. \A t \in regreq : spc[t] = "accept" /\ accept'[t] = 0
    BY <1>4, <1>12 DEF Registering, TscTypeOK
  <2>3. ASSUME NEW i \in 1 .. Len(router')
        PROVE  spc[router'[i]] = "accept" /\ accept'[router'[i]] = 0 /\ router'[i] \notin regreq
    <3>1. i + 1 \in 1 .. Len(router) /\ router'[i] = router[i + 1] /\ router'[i] # s
      BY <1>14
    <3>2. router[i + 1] \in Slaves
      BY <1>1, <3>1
    <3>3. spc[router[i + 1]] = "accept" /\ accept[router[i + 1]] = 0 /\ router[i + 1] \notin regreq
      BY <3>1 DEF Registering
    <3> QED
      BY <3>1, <3>2, <3>3, <1>12
  <2>4. ASSUME NEW i \in 1 .. Len(router'), NEW j \in 1 .. Len(router'), router'[i] = router'[j]
        PROVE  i = j
    <3>1. i + 1 = j + 1
      BY <1>14, <2>4 DEF Registering
    <3> QED
      BY <3>1
  <2> QED
    BY <1>0, <2>1, <2>2, <2>3, <2>4 DEF Registering
<1>16. \A e \in Endpoints : Contains(slaves, e)' <=> Contains(slaves, e) \/ e = a
  <2>1. Len(slaves) \in Nat
    BY <1>1
  <2> SUFFICES ASSUME NEW e \in Endpoints
               PROVE  Contains(slaves', e) <=> Contains(slaves, e) \/ e = a
    BY DEF Contains
  <2>2. ASSUME NEW i \in 1 .. Len(slaves'), slaves'[i] = e PROVE Contains(slaves, e) \/ e = a
    <3>1. CASE i \in 1 .. Len(slaves)
      BY <2>2, <3>1, <1>11 DEF Contains
    <3>2. CASE i = Len(slaves) + 1
      BY <2>2, <3>2, <1>11
    <3> QED
      BY <2>1, <1>11, <3>1, <3>2
  <2>3. ASSUME NEW i \in 1 .. Len(slaves), slaves[i] = e PROVE Contains(slaves', e)
    <3>1. i \in 1 .. Len(slaves') /\ slaves'[i] = e
      BY <2>1, <2>3, <1>11
    <3> QED
      BY <3>1 DEF Contains
  <2>4. Contains(slaves', a)
    <3>1. Len(slaves) + 1 \in 1 .. Len(slaves')
      BY <2>1, <1>11
    <3> QED
      BY <3>1, <1>11 DEF Contains
  <2> QED
    BY <2>2, <2>3, <2>4 DEF Contains
<1>17. \A e \in Endpoints : cmd[e].kind = "none"
  BY <1>0, Quiet
<1>18. \A e \in Endpoints : Taken(e)' <=> Taken(e) \/ e = a
  BY <1>0, <1>16 DEF Taken
<1>19. ~Taken(a) /\ ~Contains(slaves, a)
  BY <1>6, <1>8, <1>17 DEF Taken
<1>20. /\ Given(s)' /\ Addr(s)' = a
       /\ \A t \in Slaves : t # s => Given(t)' = Given(t) /\ Addr(t)' = Addr(t)
  BY <1>0, <1>8, <1>9, <1>12 DEF Given, Addr
<1>21. \A t \in Slaves : Given(t) => Addr(t) \in Endpoints /\ Addr(t) # a
  <2>1. \A t \in Slaves : Given(t) => Addr(t) \in Endpoints
    BY TscAssumption DEF Given, Addr, TscTypeOK, Endpoints
  <2> QED
    BY <1>19, <2>1 DEF Roster
<1>22. Roster'
  <2>1. \A t, u \in Slaves : Given(t)' /\ Given(u)' /\ Addr(t)' = Addr(u)' => t = u
    BY <1>20, <1>21 DEF Roster
  <2>2. \A t \in Slaves : Given(t)' => Taken(Addr(t))'
    <3> SUFFICES ASSUME NEW t \in Slaves, Given(t)' PROVE Taken(Addr(t))'
      OBVIOUS
    <3>1. CASE t = s
      <4>1. Taken(a)'
        BY <1>18
      <4> QED
        BY <3>1, <4>1, <1>20 DEF Taken
    <3>2. CASE t # s
      <4>1. PICK d \in Endpoints : d = Addr(t) /\ Taken(d)
        BY <3>2, <1>20, <1>21 DEF Roster
      <4>2. Taken(d)' /\ Addr(t)' = d
        BY <3>2, <4>1, <1>18, <1>20
      <4> QED
        BY <4>2 DEF Taken
    <3> QED
      BY <3>1, <3>2
  <2>3. \A e \in Endpoints : Taken(e)' => \E t \in Slaves : Given(t)' /\ Addr(t)' = e
    <3> SUFFICES ASSUME NEW e \in Endpoints, Taken(e)' PROVE \E t \in Slaves : Given(t)' /\ Addr(t)' = e
      OBVIOUS
    <3>1. CASE e = a
      BY <3>1, <1>20
    <3>2. CASE e # a
      <4>1. PICK t \in Slaves : Given(t) /\ Addr(t) = e
        BY <3>2, <1>18 DEF Roster
      <4> QED
        BY <4>1, <1>5, <1>20
    <3> QED
      BY <3>1, <3>2
  <2>4. ASSUME NEW i \in 1 .. Len(slaves'), NEW j \in 1 .. Len(slaves'), slaves'[i] = slaves'[j]
        PROVE  i = j
    <3>1. \A k \in 1 .. Len(slaves) : slaves'[k] = slaves[k] /\ slaves[k] # a
      BY <1>11, <1>19 DEF Contains
    <3>2. \A k \in 1 .. Len(slaves') : k \in 1 .. Len(slaves) \/ k = Len(slaves) + 1
      BY <1>1, <1>11
    <3> QED
      BY <2>4, <3>1, <3>2, <1>11 DEF Roster
  <2>5. \A e \in Endpoints : cmd'[e].kind # "finish"
    BY <1>0, <1>17
  <2> QED
    BY <2>1, <2>2, <2>3, <2>4, <2>5 DEF Roster
<1>23. Exchange' /\ Measured'
  BY <1>0 DEF Exchange, Measured
<1>24. Talk' /\ Pings' /\ ShortestReported'
  BY <1>0, TalkKept, PingsKept, ShortKept
<1> QED
  BY <1>13, <1>15, <1>22, <1>23, <1>24

\* Of the variables the invariant is about, the steps of slaves leave the
\* master's alone.
LEMMA ExchangeKept == Exchange /\ UNCHANGED <<mpc, slaves, waiting, pair>> => Exchange'
  BY DEF Exchange

\* A slave asks the master for an address.
LEMMA RegisterInv == ASSUME NEW s \in Slaves PROVE TscInv /\ register_to_master(s) => TscInv'
<1> SUFFICES ASSUME TscInv, register_to_master(s) PROVE TscInv'
  OBVIOUS
<1> USE DEF TscInv, masterVars
<1>0. /\ UNCHANGED <<mpc, slaves, waiting, pair, pairs, nr_iterpm, port, RTTs, asked, router, accept,
                    cmd, res, ping, pong>>
      /\ spc[s] = "register" /\ regreq' = regreq \cup {s} /\ spc' = [spc EXCEPT ![s] = "accept"]
  BY DEF register_to_master
<1>1. /\ spc' \in [Slaves -> Bound \cup {"register", "accept"}] /\ spc'[s] = "accept"
      /\ \A t \in Slaves : t # s => spc'[t] = spc[t]
  BY <1>0 DEF TscTypeOK
<1>2. TscTypeOK'
  BY <1>0, <1>1 DEF TscTypeOK
<1>3. \A t \in Slaves : (spc'[t] \in Bound <=> spc[t] \in Bound) /\ Busy(t)' = Busy(t)
  BY <1>0, <1>1 DEF Bound, Busy
<1>4. Registering'
  <2>1. \A t \in Slaves : spc[t] = "accept" => t # s
    BY <1>0
  <2>2. \A i \in 1 .. Len(router) : router[i] \in Slaves
    BY DEF TscTypeOK
  <2> QED
    BY <1>0, <1>1, <1>3, <2>1, <2>2 DEF Registering, TscTypeOK
<1>5. Roster' /\ Exchange' /\ ShortestReported'
  BY <1>0, RosterKept, ExchangeKept, ShortKept
<1>6. \A t \in Slaves : spc[t] \in Bound => t # s
  BY <1>0 DEF Bound
<1>7. Measured'
  BY <1>0, <1>1 DEF Measured
<1>8. Talk'
  <2>1. \A t \in Slaves : Busy(t)' => t # s /\ Busy(t) /\ spc'[t] = spc[t]
    BY <1>0, <1>1, <1>3 DEF Busy
  <2>2. \A t \in Slaves : spc[t] = "command" => spc'[t] = "command"
    BY <1>0, <1>1
  <2> QED
    BY <1>0, <2>1, <2>2 DEF Talk, Ours, self
<1>9. Pings'
  <2>1. \A t \in Slaves : spc[t] = "recv" => spc'[t] = "recv"
    BY <1>0, <1>1
  <2>2. \A h \in Hosts : \A i \in 1 .. Len(ping[h]) : ping[h][i] \in Slaves
    BY DEF TscTypeOK
  <2> QED
    BY <1>0, <2>1, <2>2 DEF Pings
<1> QED
  BY <1>2, <1>4, <1>5, <1>7, <1>8, <1>9

\* The request reaches the master.
LEMMA ArriveInv == ASSUME NEW s \in Slaves PROVE TscInv /\ Arrive(s) => TscInv'
<1> SUFFICES ASSUME TscInv, Arrive(s) PROVE TscInv'
  OBVIOUS
<1> USE DEF TscInv, masterVars, slaveVars
<1>0. /\ UNCHANGED <<mpc, slaves, waiting, pair, pairs, nr_iterpm, spc, port, RTTs, asked, accept,
                    cmd, res, ping, pong>>
      /\ s \in regreq /\ regreq' = regreq \ {s} /\ router' = Append(router, s)
  BY DEF Arrive
<1>1. router \in Seq(Slaves) /\ Len(router) \in Nat
  BY DEF TscTypeOK
<1>2. /\ router' \in Seq(Slaves) /\ Len(router') = Len(router) + 1
      /\ router'[Len(router) + 1] = s
      /\ \A j \in 1 .. Len(router) : router'[j] = router[j]
  BY <1>0, <1>1, SeqAppend
<1>3. \A k \in 1 .. Len(router') : k \in 1 .. Len(router) \/ k = Len(router) + 1
  BY <1>1, <1>2
<1>4. TscTypeOK'
  BY <1>0, <1>2 DEF TscTypeOK
<1>5. Registering'
  <2>1. \A k \in 1 .. Len(router) : router[k] # s
    BY <1>0 DEF Registering
  <2>2. \A i, j \in 1 .. Len(router') : router'[i] = router'[j] => i = j
    BY <1>2, <1>3, <2>1 DEF Registering
  <2>3. \A i \in 1 .. Len(router') :
          spc[router'[i]] = "accept" /\ accept[router'[i]] = 0 /\ router'[i] \notin regreq'
    BY <1>0, <1>2, <1>3, <2>1 DEF Registering
  <2> QED
    BY <1>0, <2>2, <2>3 DEF Registering
<1>6. Roster' /\ Exchange' /\ ShortestReported' /\ Talk' /\ Pings'
  BY <1>0, RosterKept, ExchangeKept, ShortKept, TalkKept, PingsKept
<1>7. Measured'
  BY <1>0 DEF Measured
<1> QED
  BY <1>4, <1>5, <1>6, <1>7

\* The slave binds the port: it keeps its address.
LEMMA RegisteredInv == ASSUME NEW s \in Slaves PROVE TscInv /\ Registered(s) => TscInv'
<1> SUFFICES ASSUME TscInv, Registered(s) PROVE TscInv'
  OBVIOUS
<1> USE DEF TscInv, masterVars
<1>0. /\ UNCHANGED <<mpc, slaves, waiting, pair, pairs, nr_iterpm, RTTs, asked, regreq, router,
                    cmd, res, ping, pong>>
      /\ spc[s] = "accept" /\ accept[s] # 0 /\ port' = [port EXCEPT ![s] = accept[s]]
      /\ accept' = [accept EXCEPT ![s] = 0] /\ spc' = [spc EXCEPT ![s] = "command"]
  BY DEF Registered
<1>1. /\ spc' \in [Slaves -> Bound \cup {"register", "accept"}] /\ spc'[s] = "command"
      /\ \A t \in Slaves : t # s => spc'[t] = spc[t]
  BY <1>0 DEF TscTypeOK, Bound
<1>2. /\ accept' \in [Slaves -> Ports \cup {0}] /\ accept'[s] = 0
      /\ \A t \in Slaves : t # s => accept'[t] = accept[t]
  BY <1>0 DEF TscTypeOK
<1>3. /\ port' \in [Slaves -> Ports \cup {0}] /\ port'[s] = accept[s]
      /\ \A t \in Slaves : t # s => port'[t] = port[t]
  BY <1>0 DEF TscTypeOK
<1>4. TscTypeOK'
  BY <1>0, <1>1, <1>2, <1>3 DEF TscTypeOK
<1>5. Registering'
  <2>1. \A t \in regreq : t # s /\ t \in Slaves
    BY <1>0 DEF Registering, TscTypeOK
  <2>2. \A i \in 1 .. Len(router) : router[i] # s /\ router[i] \in Slaves
    BY <1>0 DEF Registering, TscTypeOK
  <2> QED
    BY <1>0, <1>1, <1>2, <1>3, <2>1, <2>2 DEF Registering, Bound
<1>6. Given(s) /\ Addr(s) = <<HostOf[s], accept[s]>>
  BY <1>0 DEF Given, Addr
<1>7. \A t \in Slaves : Given(t)' = Given(t) /\ Addr(t)' = Addr(t)
  BY <1>0, <1>2, <1>3 DEF Given, Addr
<1>8. Roster'
  <2>1. \A e : Taken(e)' = Taken(e) /\ Contains(slaves, e)' = Contains(slaves, e)
    BY <1>0 DEF Taken, Contains
  <2>2. \A t \in Slaves : Given(t)' => Taken(Addr(t))'
    BY <1>7, <2>1 DEF Roster, Taken
  <2> QED
    BY <1>0, <1>7, <2>1, <2>2 DEF Roster
<1>9. Exchange'
  BY <1>0, ExchangeKept
<1>10. \A t \in Slaves : spc[t] \in Bound => t # s
  BY <1>0 DEF Bound
<1>11. \A t \in Slaves : t # s => self(t)' = self(t) /\ Busy(t)' = Busy(t)
  BY <1>1, <1>3 DEF self, Busy
<1>12. ~Busy(s)'
  BY <1>1 DEF Busy
<1>13. Talk'
  <2>1. \A t \in Slaves : spc[t] = "command" => spc'[t] = "command" /\ self(t)' = self(t)
    BY <1>0, <1>1, <1>11
  <2>2. \A t \in Slaves : Busy(t)' => t # s /\ Busy(t) /\ spc'[t] = spc[t] /\ self(t)' = self(t)
    BY <1>1, <1>11, <1>12
  <2> QED
    BY <1>0, <2>1, <2>2 DEF Talk, Ours
<1>14. Pings' /\ Measured'
  <2>1. \A t \in Slaves : spc[t] = "recv" => spc'[t] = "recv"
    BY <1>0, <1>1
  <2>2. \A h \in Hosts : \A i \in 1 .. Len(ping[h]) : ping[h][i] \in Slaves
    BY DEF TscTypeOK
  <2>3. Pings'
    BY <1>0, <2>1, <2>2 DEF Pings
  <2>4. Measured'
    BY <1>0, <1>1 DEF Measured
  <2> QED
    BY <2>3, <2>4
<1>15. res[self(s)'].kind # "result"
  <2>1. self(s)' = Addr(s) /\ self(s)' \in Endpoints
    BY <1>0, <1>3, <1>6, TscAssumption DEF self, Endpoints, TscTypeOK
  <2>2. ASSUME NEW t \in Slaves, spc[t] = "command", self(t) = Addr(s) PROVE FALSE
    <3>1. Given(t) /\ Addr(t) = self(t)
      BY <2>2, SelfFacts DEF Bound
    <3>2. t = s
      BY <2>2, <3>1, <1>6 DEF Roster
    <3> QED
      BY <3>2, <2>2, <1>0
  <2> QED
    BY <2>1, <2>2 DEF Talk
<1>16. ShortestReported'
  BY <1>0, <1>3, <1>11, <1>15 DEF ShortestReported
<1> QED
  BY <1>4, <1>5, <1>8, <1>9, <1>13, <1>14, <1>16

\* The places of a slave among which it keeps its address.
LEMMA RegisteringKept ==
  ASSUME TscTypeOK, Registering, NEW s \in Slaves, spc[s] \in Bound, spc'[s] \in Bound,
         \A t \in Slaves : t # s => spc'[t] = spc[t],
         UNCHANGED <<port, accept, regreq, router>>
  PROVE  Registering'
<1>1. \A t \in regreq : t # s /\ t \in Slaves
  BY DEF Registering, TscTypeOK, Bound
<1>2. \A i \in 1 .. Len(router) : router[i] # s /\ router[i] \in Slaves
  BY DEF Registering, TscTypeOK, Bound
<1>3. spc[s] # "accept"
  BY DEF Bound
<1> QED
  BY <1>1, <1>2, <1>3 DEF Registering

\* A slave takes a request to measure.
LEMMA MeasureInv ==
  ASSUME NEW s \in Slaves
  PROVE  TscInv /\ get_commands(s) /\ cmd[self(s)].kind # "finish" => TscInv'
<1> SUFFICES ASSUME TscInv, get_commands(s), cmd[self(s)].kind # "finish" PROVE TscInv'
  OBVIOUS
<1> USE DEF TscInv, masterVars
<1>0. /\ UNCHANGED <<mpc, slaves, waiting, pair, pairs, nr_iterpm, regreq, router, accept, ping, pong,
                    res, port>>
      /\ spc[s] = "command" /\ cmd[self(s)] # Nothing
      /\ cmd' = [cmd EXCEPT ![self(s)] = Nothing]
      /\ asked' = [asked EXCEPT ![s] = cmd[self(s)]] /\ RTTs' = [RTTs EXCEPT ![s] = <<>>]
      /\ spc' = [spc EXCEPT ![s] = IF isServer(s, cmd[self(s)]) THEN "send" ELSE "serve"]
  BY DEF get_commands
<1>1. PICK e \in Endpoints : e = self(s)
  BY <1>0, SelfFacts DEF Bound
<1>2. mpc = "collect" /\ Ours(cmd[e]) /\ e \in waiting /\ res[e] = Nothing
  BY <1>0, <1>1 DEF Talk
<1>3. /\ spc' \in [Slaves -> Bound \cup {"register", "accept"}]
      /\ spc'[s] = IF cmd[e].from = e THEN "send" ELSE "serve"
      /\ \A t \in Slaves : t # s => spc'[t] = spc[t]
  BY <1>0, <1>1 DEF TscTypeOK, Bound, isServer
<1>4. /\ DOMAIN cmd' = Endpoints /\ cmd'[e] = Nothing
      /\ \A d \in Endpoints : d # e => cmd'[d] = cmd[d]
  BY <1>0, <1>1 DEF TscTypeOK
<1>5. /\ DOMAIN asked' = Slaves /\ asked'[s] = cmd[e]
      /\ \A t \in Slaves : t # s => asked'[t] = asked[t]
  BY <1>0, <1>1 DEF TscTypeOK
<1>6. /\ RTTs' \in [Slaves -> Seq(Samples \cup {Nothing})] /\ RTTs'[s] = <<>>
      /\ \A t \in Slaves : t # s => RTTs'[t] = RTTs[t]
  <2>1. <<>> \in Seq(Samples \cup {Nothing})
    OBVIOUS
  <2> QED
    BY <1>0, <2>1 DEF TscTypeOK
<1>7. TscTypeOK'
  BY <1>0, <1>3, <1>4, <1>5, <1>6 DEF TscTypeOK
<1>8. spc[s] \in Bound /\ spc'[s] \in Bound /\ ~Busy(s)
  BY <1>0, <1>3 DEF Bound, Busy
<1>9. Registering'
  BY <1>0, <1>3, <1>8, RegisteringKept
<1>10. cmd[e].kind # "finish" /\ cmd'[e].kind # "finish"
  BY <1>1, <1>4 DEF Nothing
<1>11. Roster' /\ Exchange'
  BY <1>0, <1>4, <1>10, RosterKept, ExchangeKept
<1>12. Measured'
  <2>1. <<>> \in Seq(Samples)
    OBVIOUS
  <2> QED
    BY <1>3, <1>6, <2>1 DEF Measured
<1>13. \A t \in Slaves : t # s /\ spc[t] \in Bound => self(t) # e /\ self(t) \in Endpoints
  BY <1>1, <1>8, SelfDiffers, SelfFacts
<1>14. \A t \in Slaves : self(t)' = self(t)
  BY <1>0 DEF self
<1>15. \A t \in Slaves : t # s => Busy(t)' = Busy(t)
  BY <1>3 DEF Busy
<1>16. \A c : Ours(c)' = Ours(c)
  BY <1>0 DEF Ours
<1>17. Talk'
  <2>1. \A d \in Endpoints : cmd'[d] # Nothing =>
          /\ d \in waiting /\ res[d] = Nothing
          /\ IF mpc = "collect" THEN Ours(cmd'[d]) ELSE cmd'[d].kind = "finish"
    BY <1>4 DEF Talk
  <2>2. \A d \in Endpoints : res[d].kind = "result" =>
          \E t \in Slaves : spc'[t] = "command" /\ self(t) = d
    <3> SUFFICES ASSUME NEW d \in Endpoints, res[d].kind = "result"
                 PROVE  \E t \in Slaves : spc'[t] = "command" /\ self(t) = d
      OBVIOUS
    <3>1. d # e
      BY <1>2 DEF Nothing
    <3> QED
      BY <3>1, <1>1, <1>3 DEF Talk
  <2>3. ASSUME NEW t \in Slaves, Busy(t)'
        PROVE  /\ mpc = "collect" /\ self(t) \in waiting /\ Ours(asked'[t])
               /\ cmd'[self(t)] = Nothing /\ res[self(t)] = Nothing
               /\ self(t) = IF spc'[t] = "serve" THEN pair.to ELSE pair.from
    <3>1. CASE t = s
      <4>1. e \in {pair.from, pair.to} /\ cmd[e].from = pair.from
        BY <1>2 DEF Exchange, Ours
      <4> QED
        BY <3>1, <4>1, <1>1, <1>2, <1>3, <1>4, <1>5
    <3>2. CASE t # s
      <4>1. Busy(t) /\ spc[t] \in Bound
        BY <2>3, <3>2, <1>15 DEF Busy, Bound
      <4>2. self(t) # e /\ self(t) \in Endpoints
        BY <3>2, <4>1, <1>13
      <4> QED
        BY <3>2, <4>1, <4>2, <1>3, <1>4, <1>5 DEF Talk
    <3> QED
      BY <3>1, <3>2
  <2>4. \A d \in Endpoints : res[d] # Nothing => d \in waiting
    BY DEF Talk
  <2> QED
    BY <1>0, <1>14, <1>16, <2>1, <2>2, <2>3, <2>4 DEF Talk
<1>18. Pings'
  <2>1. \A t \in Slaves : spc[t] = "recv" => spc'[t] = "recv"
    BY <1>0, <1>3
  <2>2. \A h \in Hosts : \A i \in 1 .. Len(ping[h]) : ping[h][i] \in Slaves
    BY DEF TscTypeOK
  <2> QED
    BY <1>0, <2>1, <2>2 DEF Pings
<1>19. ShortestReported'
  <2>1. res[self(s)].kind # "result"
    BY <1>1, <1>2 DEF Nothing
  <2> QED
    BY <1>0, <1>5, <1>6, <1>14, <2>1 DEF ShortestReported
<1> QED
  BY <1>7, <1>9, <1>11, <1>12, <1>17, <1>18, <1>19

\* A slave gives its address up.
LEMMA FinishInv ==
  ASSUME NEW s \in Slaves
  PROVE  TscInv /\ get_commands(s) /\ cmd[self(s)].kind = "finish" => TscInv'
<1> SUFFICES ASSUME TscInv, get_commands(s), cmd[self(s)].kind = "finish" PROVE TscInv'
  OBVIOUS
<1> USE DEF TscInv, masterVars
<1>0. /\ UNCHANGED <<mpc, slaves, waiting, pair, pairs, nr_iterpm, regreq, router, accept, ping, pong>>
      /\ spc[s] = "command" /\ cmd[self(s)] # Nothing
      /\ cmd' = [cmd EXCEPT ![self(s)] = Nothing]
      /\ res' = [res EXCEPT ![self(s)] = [kind |-> "finished"]]
      /\ spc' = [spc EXCEPT ![s] = "register"] /\ port' = [port EXCEPT ![s] = 0]
      /\ asked' = [asked EXCEPT ![s] = Nothing] /\ RTTs' = [RTTs EXCEPT ![s] = <<>>]
  BY DEF get_commands
<1>1. PICK e \in Endpoints : e = self(s)
  BY <1>0, SelfFacts DEF Bound
<1>2. e \in waiting /\ res[e] = Nothing /\ cmd[e].kind = "finish"
  BY <1>0, <1>1 DEF Talk
<1>3. /\ spc' \in [Slaves -> Bound \cup {"register", "accept"}] /\ spc'[s] = "register"
      /\ \A t \in Slaves : t # s => spc'[t] = spc[t]
  BY <1>0 DEF TscTypeOK
<1>4. /\ DOMAIN cmd' = Endpoints /\ cmd'[e] = Nothing
      /\ \A d \in Endpoints : d # e => cmd'[d] = cmd[d]
  BY <1>0, <1>1 DEF TscTypeOK
<1>5. /\ DOMAIN asked' = Slaves
      /\ \A t \in Slaves : t # s => asked'[t] = asked[t]
  BY <1>0 DEF TscTypeOK
<1>6. /\ RTTs' \in [Slaves -> Seq(Samples \cup {Nothing})]
      /\ \A t \in Slaves : t # s => RTTs'[t] = RTTs[t]
  <2>1. <<>> \in Seq(Samples \cup {Nothing})
    OBVIOUS
  <2> QED
    BY <1>0, <2>1 DEF TscTypeOK
<1>7. /\ port' \in [Slaves -> Ports \cup {0}] /\ port'[s] = 0
      /\ \A t \in Slaves : t # s => port'[t] = port[t]
  BY <1>0 DEF TscTypeOK
<1>8. /\ DOMAIN res' = Endpoints /\ res'[e].kind = "finished"
      /\ \A d \in Endpoints : d # e => res'[d] = res[d]
  BY <1>0, <1>1 DEF TscTypeOK
<1>9. TscTypeOK'
  BY <1>0, <1>3, <1>4, <1>5, <1>6, <1>7, <1>8 DEF TscTypeOK
<1>10. accept[s] = 0 /\ Given(s) /\ Addr(s) = e /\ spc[s] \in Bound
  BY <1>0, <1>1, SelfFacts DEF Bound
<1>11. Registering'
  <2>1. \A t \in regreq : t # s /\ t \in Slaves
    BY <1>0 DEF Registering, TscTypeOK
  <2>2. \A i \in 1 .. Len(router) : router[i] # s /\ router[i] \in Slaves
    BY <1>0 DEF Registering, TscTypeOK
  <2> QED
    BY <1>0, <1>3, <1>7, <1>10, <2>1, <2>2 DEF Registering, Bound
<1>12. /\ ~Given(s)'
       /\ \A t \in Slaves : t # s => Given(t)' = Given(t) /\ Addr(t)' = Addr(t)
  BY <1>0, <1>7, <1>10 DEF Given, Addr
<1>13. /\ \A d \in Endpoints : Contains(slaves, d)' = Contains(slaves, d)
       /\ ~Contains(slaves, e)
  <2>1. ~Contains(slaves, e)
    BY <1>2 DEF Roster
  <2> QED
    BY <1>0, <2>1 DEF Contains
<1>14. /\ ~Taken(e)'
       /\ \A d \in Endpoints : d # e => Taken(d)' = Taken(d)
       /\ cmd'[e].kind = "none"
  BY <1>4, <1>13 DEF Taken, Nothing
<1>15. \A t \in Slaves : Given(t) => Addr(t) \in Endpoints /\ (t # s => Addr(t) # e)
  <2>1. \A t \in Slaves : Given(t) => Addr(t) \in Endpoints
    BY TscAssumption DEF Given, Addr, TscTypeOK, Endpoints
  <2> QED
    BY <2>1, <1>10 DEF Roster
<1>16. Roster'
  <2>1. \A t, u \in Slaves : Given(t)' /\ Given(u)' /\ Addr(t)' = Addr(u)' => t = u
    BY <1>12 DEF Roster
  <2>2. ASSUME NEW t \in Slaves, Given(t)' PROVE Taken(Addr(t))'
    <3>1. t # s /\ Given(t)
      BY <2>2, <1>12
    <3>2. PICK d \in Endpoints : d = Addr(t) /\ Taken(d) /\ d # e
      BY <3>1, <1>15 DEF Roster
    <3>3. Taken(d)' /\ Addr(t)' = d
      BY <3>1, <3>2, <1>12, <1>14
    <3> QED
      BY <3>3 DEF Taken
  <2>3. ASSUME NEW d \in Endpoints, Taken(d)' PROVE \E t \in Slaves : Given(t)' /\ Addr(t)' = d
    <3>1. d # e /\ Taken(d)
      BY <2>3, <1>14
    <3>2. PICK t \in Slaves : Given(t) /\ Addr(t) = d
      BY <3>1 DEF Roster
    <3> QED
      BY <3>1, <3>2, <1>10, <1>12
  <2>4. \A d \in Endpoints : cmd'[d].kind = "finish" => ~Contains(slaves, d)
    BY <1>4, <1>14 DEF Roster
  <2> QED
    BY <1>0, <1>13, <2>1, <2>2, <2>3, <2>4 DEF Roster
<1>17. Exchange'
  BY <1>0, ExchangeKept
<1>18. Measured'
  BY <1>3, <1>6 DEF Measured
<1>19. \A t \in Slaves : t # s /\ spc[t] \in Bound => self(t) # e /\ self(t) \in Endpoints
  BY <1>1, <1>10, SelfDiffers, SelfFacts
<1>20. \A t \in Slaves : t # s => self(t)' = self(t) /\ Busy(t)' = Busy(t)
  BY <1>3, <1>7 DEF self, Busy
<1>21. \A c : Ours(c)' = Ours(c)
  BY <1>0 DEF Ours
<1>22. Talk'
  <2>1. \A d \in Endpoints : cmd'[d] # Nothing =>
          /\ d \in waiting /\ res'[d] = Nothing
          /\ IF mpc = "collect" THEN Ours(cmd'[d]) ELSE cmd'[d].kind = "finish"
    BY <1>4, <1>8 DEF Talk
  <2>2. \A d \in Endpoints : res'[d] # Nothing => d \in waiting
    BY <1>2, <1>8 DEF Talk
  <2>3. ASSUME NEW d \in Endpoints, res'[d].kind = "result"
        PROVE  \E t \in Slaves : spc'[t] = "command" /\ self(t)' = d
    <3>1. d # e /\ res[d].kind = "result"
      BY <1>8, <2>3
    <3>2. PICK t \in Slaves : spc[t] = "command" /\ self(t) = d
      BY <3>1 DEF Talk
    <3> QED
      BY <3>1, <3>2, <1>1, <1>3, <1>20
  <2>4. ASSUME NEW t \in Slaves, Busy(t)'
        PROVE  /\ mpc = "collect" /\ self(t)' \in waiting /\ Ours(asked'[t])
               /\ cmd'[self(t)'] = Nothing /\ res'[self(t)'] = Nothing
               /\ self(t)' = IF spc'[t] = "serve" THEN pair.to ELSE pair.from
    <3>1. t # s
      BY <2>4, <1>3 DEF Busy
    <3>2. Busy(t) /\ spc[t] \in Bound /\ self(t)' = self(t)
      BY <2>4, <3>1, <1>20 DEF Busy, Bound
    <3>3. self(t) # e /\ self(t) \in Endpoints
      BY <3>1, <3>2, <1>19
    <3> QED
      BY <3>1, <3>2, <3>3, <1>3, <1>4, <1>5, <1>8 DEF Talk
  <2> QED
    BY <1>0, <1>21, <2>1, <2>2, <2>3, <2>4 DEF Talk
<1>23. Pings'
  <2>1. \A t \in Slaves : spc[t] = "recv" => spc'[t] = "recv"
    BY <1>0, <1>3
  <2>2. \A h \in Hosts : \A i \in 1 .. Len(ping[h]) : ping[h][i] \in Slaves
    BY DEF TscTypeOK
  <2> QED
    BY <1>0, <2>1, <2>2 DEF Pings
<1>24. ShortestReported'
  <2> SUFFICES ASSUME NEW t \in Slaves, port'[t] # 0,
                      res'[self(t)'].kind = "result", res'[self(t)'].sender
               PROVE  /\ res'[self(t)'].sample \in Range(RTTs'[t]) /\ Len(RTTs'[t]) = asked'[t].iter
                      /\ \A r \in Range(RTTs'[t]) : res'[self(t)'].sample.cyc <= r.cyc
    BY DEF ShortestReported
  <2>1. t # s /\ port[t] # 0 /\ self(t)' = self(t)
    BY <1>7, <1>20
  <2>2. self(t) # e /\ self(t) \in Endpoints
    BY <2>1, <1>19, SelfFacts DEF Registering
  <2>3. res'[self(t)] = res[self(t)]
    BY <2>2, <1>8
  <2> QED
    BY <2>1, <2>3, <1>5, <1>6 DEF ShortestReported
<1> QED
  BY <1>9, <1>11, <1>16, <1>17, <1>18, <1>22, <1>23, <1>24

\* A slave goes on measuring: the command sockets stay as they are.
LEMMA TalkBusy ==
  ASSUME Talk, NEW s \in Slaves, Busy(s), Busy(s)', spc'[s] = "serve" <=> spc[s] = "serve",
         \A t \in Slaves : t # s => spc'[t] = spc[t],
         UNCHANGED <<mpc, waiting, pair, cmd, res, port, asked>>
  PROVE  Talk'
<1>1. \A t \in Slaves : /\ Busy(t)' => Busy(t)
                        /\ spc'[t] = "serve" <=> spc[t] = "serve"
                        /\ spc[t] = "command" => spc'[t] = "command"
                        /\ self(t)' = self(t)
  BY DEF Busy, self
<1>2. \A c : Ours(c)' = Ours(c)
  BY DEF Ours
<1> QED
  BY <1>1, <1>2 DEF Talk

\* A slave sends a measurement request.
LEMMA SendPingInv == ASSUME NEW s \in Slaves PROVE TscInv /\ SendPing(s) => TscInv'
<1> SUFFICES ASSUME TscInv, SendPing(s) PROVE TscInv'
  OBVIOUS
<1> USE DEF TscInv, masterVars
<1>0. /\ UNCHANGED <<mpc, slaves, waiting, pair, pairs, nr_iterpm, regreq, router, accept, pong,
                    res, cmd, port, RTTs, asked>>
      /\ spc[s] = "send" /\ spc' = [spc EXCEPT ![s] = "recv"]
      /\ ping' = [ping EXCEPT ![asked[s].to[1]] = Append(@, s)]
  BY DEF SendPing
<1>1. Busy(s) /\ spc[s] \in Bound
  BY <1>0 DEF Busy, Bound
<1>2. mpc = "collect" /\ asked[s].to = pair.to
  BY <1>1 DEF Talk, Ours
<1>3. PICK h \in Hosts : h = pair.to[1]
  BY <1>2 DEF Exchange, Endpoints
<1>4. ping[h] \in Seq(Slaves) /\ Len(ping[h]) \in Nat
  BY DEF TscTypeOK
<1>5. /\ ping' \in [Hosts -> Seq(Slaves)]
      /\ ping'[h] = Append(ping[h], s)
      /\ \A g \in Hosts : g # h => ping'[g] = ping[g]
  <2>1. Append(ping[h], s) \in Seq(Slaves)
    BY <1>4
  <2> QED
    BY <1>0, <1>2, <1>3, <2>1 DEF TscTypeOK
<1>6. /\ Len(ping'[h]) = Len(ping[h]) + 1
      /\ ping'[h][Len(ping[h]) + 1] = s
      /\ \A j \in 1 .. Len(ping[h]) : ping'[h][j] = ping[h][j]
  BY <1>4, <1>5, SeqAppend
<1>7. \A k \in 1 .. Len(ping'[h]) : k \in 1 .. Len(ping[h]) \/ k = Len(ping[h]) + 1
  BY <1>4, <1>6
<1>8. /\ spc' \in [Slaves -> Bound \cup {"register", "accept"}] /\ spc'[s] = "recv"
      /\ \A t \in Slaves : t # s => spc'[t] = spc[t]
  BY <1>0 DEF TscTypeOK, Bound
<1>9. TscTypeOK'
  BY <1>0, <1>5, <1>8 DEF TscTypeOK
<1>10. spc'[s] \in Bound /\ Busy(s)'
  BY <1>8 DEF Bound, Busy
<1>11. Registering'
  BY <1>0, <1>1, <1>8, <1>10, RegisteringKept
<1>12. Roster' /\ Exchange' /\ ShortestReported'
  BY <1>0, RosterKept, ExchangeKept, ShortKept
<1>13. Talk'
  BY <1>0, <1>1, <1>8, <1>10, TalkBusy
<1>14. Measured'
  BY <1>0, <1>8 DEF Measured
<1>15. Pings'
  <2>1. \A g \in Hosts : \A i \in 1 .. Len(ping[g]) : ping[g][i] \in Slaves /\ ping[g][i] # s
    BY <1>0 DEF TscTypeOK, Pings
  <2>2. \A t \in Slaves : spc[t] = "recv" => spc'[t] = "recv"
    BY <1>8
  <2>3. ~pong[s]
    BY <1>0 DEF Pings
  <2>4. ASSUME NEW g \in Hosts, NEW i \in 1 .. Len(ping'[g])
        PROVE  spc'[ping'[g][i]] = "recv" /\ ~pong[ping'[g][i]] /\ g = pair.to[1]
    <3>1. CASE g # h
      BY <3>1, <2>1, <2>2, <1>5 DEF Pings
    <3>2. CASE g = h /\ i \in 1 .. Len(ping[h])
      <4>1. ping'[g][i] = ping[h][i]
        BY <3>2, <1>6
      <4> QED
        BY <3>2, <4>1, <2>1, <2>2 DEF Pings
    <3>3. CASE g = h /\ i = Len(ping[h]) + 1
      <4>1. ping'[g][i] = s
        BY <3>3, <1>6
      <4> QED
        BY <3>3, <4>1, <2>3, <1>3, <1>8
    <3> QED
      BY <3>1, <3>2, <3>3, <1>7
  <2>5. ASSUME NEW g \in Hosts, NEW i \in 1 .. Len(ping'[g]), NEW j \in 1 .. Len(ping'[g]),
               ping'[g][i] = ping'[g][j]
        PROVE  i = j
    <3>1. CASE g # h
      BY <2>5, <3>1, <1>5 DEF Pings
    <3>2. CASE g = h
      <4>1. \A k \in 1 .. Len(ping[h]) : ping'[h][k] = ping[h][k] /\ ping'[h][k] # s
        BY <2>1, <1>6
      <4>2. CASE i \in 1 .. Len(ping[h]) /\ j \in 1 .. Len(ping[h])
        <5>1. ping[h][i] = ping[h][j]
          BY <2>5, <3>2, <4>1, <4>2
        <5> QED
          BY <4>2, <5>1 DEF Pings
      <4>3. CASE ~(i \in 1 .. Len(ping[h]) /\ j \in 1 .. Len(ping[h]))
        BY <2>5, <3>2, <4>1, <4>3, <1>6, <1>7
      <4> QED
        BY <4>2, <4>3
    <3> QED
      BY <3>1, <3>2
  <2>6. \A t \in Slaves : pong[t] => spc'[t] = "recv"
    BY <2>2 DEF Pings
  <2>7. pong' = pong /\ pair' = pair
    BY <1>0
  <2>8. \A g \in Hosts : \A i, j \in 1 .. Len(ping'[g]) : ping'[g][i] = ping'[g][j] => i = j
    BY <2>5
  <2> QED
    BY <2>4, <2>6, <2>7, <2>8 DEF Pings
<1> QED
  BY <1>9, <1>11, <1>12, <1>13, <1>14, <1>15

\* A slave receives the reply to its request.
LEMMA RecvPongInv == ASSUME NEW s \in Slaves PROVE TscInv /\ RecvPong(s) => TscInv'
<1> SUFFICES ASSUME TscInv, RecvPong(s) PROVE TscInv'
  OBVIOUS
<1> USE DEF TscInv, masterVars
<1>0. /\ UNCHANGED <<mpc, slaves, waiting, pair, pairs, nr_iterpm, regreq, router, accept, ping,
                    res, cmd, port, asked>>
      /\ spc[s] = "recv" /\ pong[s] /\ spc' = [spc EXCEPT ![s] = "send"]
      /\ pong' = [pong EXCEPT ![s] = FALSE]
  BY DEF RecvPong
<1>1. PICK r \in Samples : RTTs' = [RTTs EXCEPT ![s] = Append(@, r)]
  BY DEF RecvPong
<1>2. Busy(s) /\ spc[s] \in Bound
  BY <1>0 DEF Busy, Bound
<1>3. RTTs[s] \in Seq(Samples)
  BY <1>0 DEF Measured
<1>4. Append(RTTs[s], r) \in Seq(Samples) /\ Append(RTTs[s], r) \in Seq(Samples \cup {Nothing})
  <2>1. Append(RTTs[s], r) \in Seq(Samples)
    BY <1>3
  <2>2. RTTs[s] \in Seq(Samples \cup {Nothing}) /\ r \in Samples \cup {Nothing}
    BY DEF TscTypeOK
  <2>3. Append(RTTs[s], r) \in Seq(Samples \cup {Nothing})
    BY <2>2
  <2> QED
    BY <2>1, <2>3
<1>5. /\ RTTs' \in [Slaves -> Seq(Samples \cup {Nothing})] /\ RTTs'[s] = Append(RTTs[s], r)
      /\ \A t \in Slaves : t # s => RTTs'[t] = RTTs[t]
  BY <1>1, <1>4 DEF TscTypeOK
<1>6. /\ spc' \in [Slaves -> Bound \cup {"register", "accept"}] /\ spc'[s] = "send"
      /\ \A t \in Slaves : t # s => spc'[t] = spc[t]
  BY <1>0 DEF TscTypeOK, Bound
<1>7. /\ pong' \in [Slaves -> BOOLEAN] /\ ~pong'[s]
      /\ \A t \in Slaves : t # s => pong'[t] = pong[t]
  BY <1>0, Zenon DEF TscTypeOK
<1>8. TscTypeOK'
  BY <1>0, <1>5, <1>6, <1>7 DEF TscTypeOK
<1>9. spc'[s] \in Bound /\ Busy(s)'
  BY <1>6 DEF Bound, Busy
<1>10. Registering'
  BY <1>0, <1>2, <1>6, <1>9, RegisteringKept
<1>11. Roster' /\ Exchange'
  BY <1>0, RosterKept, ExchangeKept
<1>12. Talk'
  BY <1>0, <1>2, <1>6, <1>9, TalkBusy
<1>13. Measured'
  BY <1>4, <1>5, <1>6 DEF Measured
<1>14. Pings'
  <2>1. \A g \in Hosts : \A i \in 1 .. Len(ping[g]) : ping[g][i] \in Slaves /\ ping[g][i] # s
    BY <1>0 DEF TscTypeOK, Pings
  <2> QED
    BY <1>0, <1>6, <1>7, <2>1 DEF Pings
<1>15. ShortestReported'
  <2>1. res[self(s)].kind # "result"
    BY <1>2 DEF Talk, Nothing
  <2>2. \A t \in Slaves : self(t)' = self(t)
    BY <1>0 DEF self
  <2> QED
    BY <1>0, <1>5, <2>1, <2>2 DEF ShortestReported
<1> QED
  BY <1>8, <1>10, <1>11, <1>12, <1>13, <1>14, <1>15

\* The receiving slave returns a request.
LEMMA ServePingInv == ASSUME NEW s \in Slaves PROVE TscInv /\ ServePing(s) => TscInv'
<1> SUFFICES ASSUME TscInv, ServePing(s) PROVE TscInv'
  OBVIOUS
<1> USE DEF TscInv, masterVars
<1> DEFINE h == HostOf[s]
           q == Head(ping[h])
<1>0. /\ UNCHANGED <<mpc, slaves, waiting, pair, pairs, nr_iterpm, regreq, router, accept, spc,
                    res, cmd, port, asked>>
      /\ spc[s] = "serve" /\ ping[h] # <<>> /\ ping' = [ping EXCEPT ![h] = Tail(ping[h])]
      /\ pong' = [pong EXCEPT ![q] = TRUE]
      /\ RTTs' = [RTTs EXCEPT ![s] = Append(RTTs[s], Nothing)]
  BY DEF ServePing
<1>1. h \in Hosts
  BY TscAssumption
<1>2. ping[h] \in Seq(Slaves)
  BY <1>1 DEF TscTypeOK
<1>3. /\ q \in Slaves /\ q = ping[h][1] /\ Tail(ping[h]) \in Seq(Slaves)
      /\ Len(Tail(ping[h])) = Len(ping[h]) - 1 /\ Len(ping[h]) \in Nat \ {0}
      /\ \A i \in 1 .. Len(Tail(ping[h])) : Tail(ping[h])[i] = ping[h][i + 1]
  BY <1>0, <1>2, HeadTail
<1> HIDE DEF h, q
<1>4. /\ ping' \in [Hosts -> Seq(Slaves)] /\ ping'[h] = Tail(ping[h])
      /\ \A g \in Hosts : g # h => ping'[g] = ping[g]
  BY <1>0, <1>1, <1>3 DEF TscTypeOK
<1>5. /\ pong' \in [Slaves -> BOOLEAN] /\ pong'[q]
      /\ \A t \in Slaves : t # q => pong'[t] = pong[t]
  BY <1>0, <1>3, Zenon DEF TscTypeOK
<1>6. /\ RTTs' \in [Slaves -> Seq(Samples \cup {Nothing})]
      /\ \A t \in Slaves : t # s => RTTs'[t] = RTTs[t]
  <2>1. RTTs[s] \in Seq(Samples \cup {Nothing}) /\ Nothing \in Samples \cup {Nothing}
    BY DEF TscTypeOK
  <2>2. Append(RTTs[s], Nothing) \in Seq(Samples \cup {Nothing})
    BY <2>1
  <2> QED
    BY <1>0, <2>2 DEF TscTypeOK
<1>7. TscTypeOK'
  BY <1>0, <1>4, <1>5, <1>6 DEF TscTypeOK
<1>8. Registering'
  BY <1>0 DEF Registering
<1>9. Roster' /\ Exchange' /\ Talk'
  BY <1>0, RosterKept, ExchangeKept, TalkKept
<1>10. Measured'
  BY <1>0, <1>6 DEF Measured
<1>11. Busy(s)
  BY <1>0 DEF Busy
<1>12. ShortestReported'
  <2>1. res[self(s)].kind # "result"
    BY <1>11 DEF Talk, Nothing
  <2>2. \A t \in Slaves : self(t)' = self(t)
    BY <1>0 DEF self
  <2> QED
    BY <1>0, <1>6, <2>1, <2>2 DEF ShortestReported
<1>13. 1 \in 1 .. Len(ping[h])
  BY <1>3
<1>14. spc[q] = "recv" /\ h = pair.to[1]
  BY <1>1, <1>3, <1>13 DEF Pings
<1>15. ASSUME NEW g \in Hosts, NEW i \in 1 .. Len(ping'[g])
       PROVE  /\ g = h /\ i + 1 \in 1 .. Len(ping[h]) /\ ping'[g][i] = ping[h][i + 1]
              /\ ping'[g][i] \in Slaves /\ ping'[g][i] # q
  <2>1. g = h
    <3>1. SUFFICES ASSUME g # h PROVE FALSE
      OBVIOUS
    <3>2. i \in 1 .. Len(ping[g])
      BY <3>1, <1>4
    <3> QED
      BY <3>1, <3>2, <1>14 DEF Pings
  <2>2. i \in 1 .. Len(Tail(ping[h]))
    BY <2>1, <1>4
  <2>3. i + 1 \in 1 .. Len(ping[h]) /\ i + 1 # 1
    BY <2>2, <1>3
  <2>4. ping'[g][i] = ping[h][i + 1]
    BY <2>1, <2>2, <1>3, <1>4
  <2>5. ping[h][i + 1] # ping[h][1] /\ ping[h][i + 1] \in Slaves
    BY <2>3, <1>1, <1>2, <1>13 DEF Pings
  <2> QED
    BY <2>1, <2>3, <2>4, <2>5, <1>3
<1>16. Pings'
  <2>1. ASSUME NEW g \in Hosts, NEW i \in 1 .. Len(ping'[g])
        PROVE  spc[ping'[g][i]] = "recv" /\ ~pong'[ping'[g][i]] /\ g = pair.to[1]
    <3>1. /\ g = h /\ i + 1 \in 1 .. Len(ping[h]) /\ ping'[g][i] = ping[h][i + 1]
          /\ ping'[g][i] \in Slaves /\ ping'[g][i] # q
      BY <1>15
    <3>2. spc[ping[h][i + 1]] = "recv" /\ ~pong[ping[h][i + 1]]
      BY <3>1, <1>1 DEF Pings
    <3> QED
      BY <3>1, <3>2, <1>5, <1>14
  <2>2. ASSUME NEW g \in Hosts, NEW i \in 1 .. Len(ping'[g]), NEW j \in 1 .. Len(ping'[g]),
               ping'[g][i] = ping'[g][j]
        PROVE  i = j
    <3>1. /\ i + 1 \in 1 .. Len(ping[h]) /\ j + 1 \in 1 .. Len(ping[h])
          /\ ping[h][i + 1] = ping[h][j + 1]
      BY <2>2, <1>15
    <3>2. i + 1 = j + 1
      BY <3>1, <1>1 DEF Pings
    <3> QED
      BY <3>2
  <2>3. \A t \in Slaves : pong'[t] => spc[t] = "recv"
    BY <1>5, <1>14 DEF Pings
  <2>4. spc' = spc /\ pair' = pair
    BY <1>0
  <2>5. \A g \in Hosts : \A i, j \in 1 .. Len(ping'[g]) : ping'[g][i] = ping'[g][j] => i = j
    BY <2>2
  <2> QED
    BY <2>1, <2>3, <2>4, <2>5 DEF Pings
<1> QED
  BY <1>7, <1>8, <1>9, <1>10, <1>12, <1>16

\* The first of the shortest round trips is one of them, and none is shorter.
LEMMA MinRTTIsLeast ==
  ASSUME NEW q \in Seq(Samples), Len(q) # 0
  PROVE  minRTT(q) \in Range(q) /\ \A t \in Range(q) : minRTT(q).cyc <= t.cyc
<1>1. Len(q) \in Nat /\ DOMAIN q = 1 .. Len(q)
  OBVIOUS
<1>2. \A i \in 1 .. Len(q) : q[i].cyc \in Nat
  BY TscAssumption
<1> DEFINE C == {q[i].cyc : i \in 1 .. Len(q)}
           I == {i \in DOMAIN q : \A j \in DOMAIN q : q[i].cyc <= q[j].cyc}
<1>3. C \subseteq Nat
  BY <1>2
<1>4. q[1].cyc \in C
  BY <1>1
<1>5. Min(C) \in C /\ \A y \in C : Min(C) <= y
  <2> HIDE DEF C
  <2> QED
    BY <1>3, <1>4, MinIsLeast
<1>6. PICK i \in 1 .. Len(q) : q[i].cyc = Min(C)
  BY <1>5
<1>7. i \in I
  BY <1>1, <1>5, <1>6
<1>8. I \subseteq Nat
  BY <1>1
<1>9. Min(I) \in I
  <2> HIDE DEF I
  <2> QED
    BY <1>7, <1>8, MinIsLeast
<1>10. PICK k \in 1 .. Len(q) : k = Min(I) /\ \A j \in 1 .. Len(q) : q[k].cyc <= q[j].cyc
  BY <1>1, <1>9
<1>11. minRTT(q) = q[k]
  BY <1>10 DEF minRTT
<1> QED
  BY <1>1, <1>10, <1>11 DEF Range

\* A slave answers, with the shortest of its round trips if it was the sender.
LEMMA AnswerInv == ASSUME NEW s \in Slaves PROVE TscInv /\ (EndSending(s) \/ EndServing(s)) => TscInv'
<1> SUFFICES ASSUME TscInv, EndSending(s) \/ EndServing(s) PROVE TscInv'
  OBVIOUS
<1> USE DEF TscInv, masterVars
<1>0. /\ UNCHANGED <<mpc, slaves, waiting, pair, pairs, nr_iterpm, regreq, router, accept, ping, pong,
                    cmd, port, RTTs, asked>>
      /\ spc' = [spc EXCEPT ![s] = "command"]
  BY DEF EndSending, EndServing
<1>1. spc[s] \in {"send", "serve"} /\ Busy(s) /\ spc[s] \in Bound /\ spc[s] # "recv"
  BY DEF EndSending, EndServing, Busy, Bound
<1>2. PICK e \in Endpoints : e = self(s)
  BY <1>1, SelfFacts
<1>3. e \in waiting /\ cmd[e] = Nothing /\ res[e] = Nothing /\ Ours(asked[s])
  BY <1>1, <1>2 DEF Talk
<1>4. PICK b \in BOOLEAN : /\ res' = [res EXCEPT ![e] = result(s, b)]
                           /\ b => spc[s] = "send" /\ Len(RTTs[s]) = asked[s].iter
  <2>1. CASE EndSending(s)
    BY <2>1, <1>2 DEF EndSending
  <2>2. CASE EndServing(s)
    BY <2>2, <1>2 DEF EndServing
  <2> QED
    BY <2>1, <2>2
<1>5. /\ result(s, b).kind = "result" /\ result(s, b).sender = b
      /\ b => result(s, b).sample = minRTT(RTTs[s])
  BY DEF result, MSG_measure_result
<1>6. /\ DOMAIN res' = Endpoints /\ res'[e] = result(s, b)
      /\ \A d \in Endpoints : d # e => res'[d] = res[d]
  BY <1>4 DEF TscTypeOK
<1>7. /\ spc' \in [Slaves -> Bound \cup {"register", "accept"}] /\ spc'[s] = "command"
      /\ \A t \in Slaves : t # s => spc'[t] = spc[t]
  BY <1>0 DEF TscTypeOK, Bound
<1>8. TscTypeOK'
  BY <1>0, <1>6, <1>7 DEF TscTypeOK
<1>9. spc'[s] \in Bound /\ ~Busy(s)'
  BY <1>7 DEF Bound, Busy
<1>10. Registering'
  BY <1>0, <1>1, <1>7, <1>9, RegisteringKept
<1>11. Roster' /\ Exchange'
  BY <1>0, RosterKept, ExchangeKept
<1>12. Measured'
  BY <1>0, <1>7 DEF Measured
<1>13. \A t \in Slaves : t # s /\ spc[t] \in Bound => self(t) # e /\ self(t) \in Endpoints
  BY <1>1, <1>2, SelfDiffers, SelfFacts
<1>14. \A t \in Slaves : self(t)' = self(t)
  BY <1>0 DEF self
<1>15. \A c : Ours(c)' = Ours(c)
  BY <1>0 DEF Ours
<1>16. Talk'
  <2>1. \A d \in Endpoints : cmd[d] # Nothing =>
          /\ d \in waiting /\ res'[d] = Nothing
          /\ IF mpc = "collect" THEN Ours(cmd[d]) ELSE cmd[d].kind = "finish"
    BY <1>3, <1>6 DEF Talk
  <2>2. \A d \in Endpoints : res'[d] # Nothing => d \in waiting
    BY <1>3, <1>6 DEF Talk
  <2>3. ASSUME NEW d \in Endpoints, res'[d].kind = "result"
        PROVE  \E t \in Slaves : spc'[t] = "command" /\ self(t) = d
    <3>1. CASE d = e
      BY <3>1, <1>2, <1>7
    <3>2. CASE d # e
      <4>1. PICK t \in Slaves : spc[t] = "command" /\ self(t) = d
        BY <2>3, <3>2, <1>6 DEF Talk
      <4> QED
        BY <4>1, <1>7
    <3> QED
      BY <3>1, <3>2
  <2>4. ASSUME NEW t \in Slaves, Busy(t)'
        PROVE  /\ mpc = "collect" /\ self(t) \in waiting /\ Ours(asked[t])
               /\ cmd[self(t)] = Nothing /\ res'[self(t)] = Nothing
               /\ self(t) = IF spc'[t] = "serve" THEN pair.to ELSE pair.from
    <3>1. t # s /\ spc'[t] = spc[t]
      BY <2>4, <1>7, <1>9
    <3>2. Busy(t) /\ spc[t] \in Bound
      BY <2>4, <3>1 DEF Busy, Bound
    <3>3. self(t) # e /\ self(t) \in Endpoints
      BY <3>1, <3>2, <1>13
    <3> QED
      BY <3>1, <3>2, <3>3, <1>6 DEF Talk
  <2> QED
    BY <1>0, <1>14, <1>15, <2>1, <2>2, <2>3, <2>4 DEF Talk
<1>17. Pings'
  <2>1. \A t \in Slaves : spc[t] = "recv" => spc'[t] = "recv"
    BY <1>1, <1>7
  <2>2. \A h \in Hosts : \A i \in 1 .. Len(ping[h]) : ping[h][i] \in Slaves
    BY DEF TscTypeOK
  <2> QED
    BY <1>0, <2>1, <2>2 DEF Pings
<1>18. ShortestReported'
  <2> SUFFICES ASSUME NEW t \in Slaves, port[t] # 0,
                      res'[self(t)].kind = "result", res'[self(t)].sender
               PROVE  /\ res'[self(t)].sample \in Range(RTTs[t]) /\ Len(RTTs[t]) = asked[t].iter
                      /\ \A r \in Range(RTTs[t]) : res'[self(t)].sample.cyc <= r.cyc
    BY <1>0, <1>14 DEF ShortestReported
  <2>1. CASE t = s
    <3>1. b /\ res'[self(t)].sample = minRTT(RTTs[s])
      BY <2>1, <1>2, <1>5, <1>6
    <3>2. RTTs[s] \in Seq(Samples) /\ Len(RTTs[s]) # 0 /\ Len(RTTs[s]) = asked[s].iter
      BY <3>1, <1>3, <1>4 DEF Measured, Ours
    <3> QED
      BY <2>1, <3>1, <3>2, MinRTTIsLeast
  <2>2. CASE t # s
    <3>1. spc[t] \in Bound
      BY DEF Registering
    <3>2. res'[self(t)] = res[self(t)]
      BY <2>2, <3>1, <1>6, <1>13
    <3> QED
      BY <3>2 DEF ShortestReported
  <2> QED
    BY <2>1, <2>2
<1> QED
  BY <1>8, <1>10, <1>11, <1>12, <1>16, <1>17, <1>18

\* Every step of the master and of the slaves keeps the invariant.
LEMMA TscStepInv ==
  ASSUME IsFiniteSet(Slaves) PROVE TscInv /\ [TscNext]_tscVars => TscInv'
<1> SUFFICES ASSUME TscInv, [TscNext]_tscVars PROVE TscInv'
  OBVIOUS
<1>1. CASE MasterStep
  BY <1>1, TurnsInv, EndSessionInv, RequestInv, CollectInv, RecvFinishedInv, SendFinishInv, RegistrationInv
  DEF MasterStep
<1>2. ASSUME NEW s \in Slaves, SlaveStep(s) PROVE TscInv'
  BY <1>2, RegisterInv, ArriveInv, RegisteredInv, MeasureInv, FinishInv, SendPingInv, RecvPongInv,
     ServePingInv, AnswerInv DEF SlaveStep
<1>3. CASE UNCHANGED tscVars
  <2> USE <1>3 DEF TscInv, tscVars, masterVars, slaveVars, netVars
  <2>1. TscTypeOK' /\ Measured'
    BY DEF TscTypeOK, Measured
  <2>2. Registering'
    BY DEF Registering
  <2>3. Roster' /\ Exchange' /\ Talk' /\ Pings' /\ ShortestReported'
    BY RosterKept, ExchangeKept, TalkKept, PingsKept, ShortKept
  <2> QED
    BY <2>1, <2>2, <2>3
<1> QED
  BY <1>1, <1>2, <1>3 DEF TscNext

\* The invariant keeps the pairs apart: who serves has the address of the
\* receiver, who waits for a reply that of the sender.
LEMMA TscInvApart == TscInv => PairsKeptApart
<1> SUFFICES ASSUME TscInv PROVE OneReceiver /\ OwnPing
  BY DEF PairsKeptApart
<1> USE DEF TscInv
<1>1. OneReceiver
  <2> SUFFICES ASSUME NEW s \in Slaves, NEW t \in Slaves, spc[s] = "serve", spc[t] = "serve" PROVE s = t
    BY DEF OneReceiver
  <2>1. self(s) = pair.to /\ self(t) = pair.to
    BY DEF Talk, Busy
  <2> QED
    BY <2>1, SelfDiffers DEF Bound
<1>2. OwnPing
  <2> SUFFICES ASSUME NEW h \in Hosts, NEW i \in DOMAIN ping[h]
               PROVE  pair # Nothing /\ h = pair.to[1] /\ self(ping[h][i]) = pair.from
    BY DEF OwnPing
  <2>1. ping[h] \in Seq(Slaves)
    BY DEF TscTypeOK
  <2>2. i \in 1 .. Len(ping[h]) /\ ping[h][i] \in Slaves
    BY <2>1
  <2>3. spc[ping[h][i]] = "recv" /\ h = pair.to[1]
    BY <2>2 DEF Pings
  <2>4. mpc = "collect" /\ self(ping[h][i]) = pair.from
    BY <2>2, <2>3 DEF Talk, Busy
  <2>5. pair # Nothing
    BY <2>4 DEF Exchange, Nothing
  <2> QED
    BY <2>3, <2>4, <2>5
<1> QED
  BY <1>1, <1>2

\* Two slaves of a host never receive at the same time, and none stamps a request
\* of another pair, for every number of slaves, hosts, sessions and iterations
\* (tsc_slave.cpp, measure_tsc_rtt; tsc_master.cpp, slave_registration).
THEOREM TscPairsApart == ASSUME IsFiniteSet(Slaves) PROVE TscSpec => []PairsKeptApart
<1>1. TscInit => TscInv
  BY TscInitInv
<1>2. TscInv /\ [TscNext]_tscVars => TscInv'
  BY TscStepInv
<1>3. TscInv => PairsKeptApart
  BY TscInvApart
<1> QED
  BY <1>1, <1>2, <1>3, PTL DEF TscSpec

\* What a slave sends to the master is the shortest of the round trips it was asked
\* for (tsc_slave.cpp, measure_tsc_rtt and get_commands).
THEOREM TscShortest == ASSUME IsFiniteSet(Slaves) PROVE TscSpec => []ShortestReported
<1>1. TscInit => TscInv
  BY TscInitInv
<1>2. TscInv /\ [TscNext]_tscVars => TscInv'
  BY TscStepInv
<1>3. TscInv => ShortestReported
  BY DEF TscInv
<1> QED
  BY <1>1, <1>2, <1>3, PTL DEF TscSpec

-----------------------------------------------------------------------------
(* ShortestPrinted for every number of messages and every size of a bulk.  *)
(* It is not inductive: that slave 1 ends with NrIter round trips needs    *)
(* that no message is lost between the two, and that a reply stamp lies in *)
(* its round trip needs what a message carries at every place.             *)

\* A message on its way there, and on its way back.
Message == [start : Int, reply : Int]
Stamping == mode = "sync" \/ tsc

PairTypeOK ==
  /\ mode \in {"sync", "async", "multi"} /\ tsc \in BOOLEAN /\ bulk_sz \in Int
  /\ clock \in Nat \ {0} /\ clock <= MaxClock + 1
  /\ pc1 \in {"open", "loop", "recv", "send", "poll", "done", "failed"}
  /\ pc1r \in {"recv", "none", "done"}
  /\ sent_ctr \in Nat /\ recv_ctr \in Nat /\ to_send \in Int /\ to_recv \in Int
  /\ req \in Seq(Message) /\ rep \in Seq(Message)
  /\ min_nsec \in Int /\ min_reply \in Int /\ samples \subseteq Int \X Int \X Int

\* Where the two threads of slave 1 can be.
Places ==
  /\ mode = "sync" => pc1 \in {"loop", "recv", "done"}
  /\ mode = "async" => pc1 \in {"open", "loop", "send", "poll", "done", "failed"}
  /\ mode = "multi" => pc1 \in {"open", "loop", "send", "done", "failed"}
  /\ mode = "multi" => (pc1r = "none" <=> pc1 = "failed")
  /\ mode # "multi" => pc1r = "none"

\* No more messages are sent than asked for, and each is on its way or received.
Conserved ==
  /\ sent_ctr <= NrIter
  /\ pc1 = "send" => sent_ctr + to_send <= NrIter
  /\ mode # "sync" => sent_ctr = recv_ctr + Len(req) + Len(rep)
  /\ mode = "sync" => sent_ctr = recv_ctr + (IF pc1 = "recv" THEN 1 ELSE 0)
  /\ mode = "sync" /\ pc1 = "done" => sent_ctr = NrIter
  /\ mode = "async" /\ pc1 = "done" => recv_ctr >= NrIter
  /\ mode = "multi" /\ pc1r = "done" => recv_ctr >= NrIter

\* What the messages carry; a start of 0 tells slave 2 to stop.
Carried ==
  /\ \A i \in 1 .. Len(req) :
       /\ req[i].start \in Int /\ req[i].start <= clock
       /\ req[i].start >= IF mode = "sync" THEN 0 ELSE 1
  /\ \A i \in 1 .. Len(rep) :
       /\ rep[i].start >= 1 /\ rep[i].start <= clock
       /\ Stamping => rep[i].start <= rep[i].reply /\ rep[i].reply <= clock

\* The shortest so far is a round trip made, with its stamp.
Shortest ==
  /\ recv_ctr = 0 => min_nsec = LLONG_MAX
  /\ \A y \in samples : min_nsec <= y[1]
  /\ recv_ctr # 0 => \E x \in samples :
       /\ min_nsec = x[1] /\ min_reply = x[3]
       /\ Stamping => x[2] <= min_reply /\ min_reply <= x[2] + x[1]

PairInv == PairTypeOK /\ Places /\ Conserved /\ Carried /\ Shortest

\* Nothing has been sent at the start.
LEMMA PairInitInv == PairInit => PairInv
<1> SUFFICES ASSUME PairInit PROVE PairInv
  OBVIOUS
<1> USE PairAssumption DEF PairInit, Slave1Init, Slave2Init
<1>1. PairTypeOK
  <2>1. req \in Seq(Message) /\ rep \in Seq(Message)
    OBVIOUS
  <2> QED
    BY <2>1 DEF PairTypeOK, LLONG_MAX
<1>2. Places /\ Conserved /\ Carried
  BY DEF Places, Conserved, Carried
<1>3. Shortest
  BY DEF Shortest
<1> QED
  BY <1>1, <1>2, <1>3 DEF PairInv

\* A round trip is taken into account.
LEMMA ObserveShortest ==
  ASSUME PairInv, rep # <<>>, observe(Head(rep)), UNCHANGED <<options, clock>>, recv_ctr' = recv_ctr + 1
  PROVE  /\ Shortest' /\ min_nsec' \in Int /\ min_reply' \in Int /\ samples' \subseteq Int \X Int \X Int
<1> USE DEF PairInv
<1>1. rep \in Seq(Message)
  BY DEF PairTypeOK
<1>2. Head(rep) \in Message /\ Head(rep) = rep[1] /\ Len(rep) \in Nat \ {0}
  BY <1>1, HeadTail
<1>3. PICK m \in Message : m = Head(rep)
  BY <1>2
<1>4. 1 \in 1 .. Len(rep)
  BY <1>2
<1>5. /\ m.start >= 1 /\ m.start <= clock
      /\ Stamping => m.start <= m.reply /\ m.reply <= clock
  BY <1>2, <1>3, <1>4 DEF Carried
<1>6. m.start \in Int /\ m.reply \in Int
  BY DEF Message
<1>7. PICK n \in Int : n = clock - m.start
  BY <1>6 DEF PairTypeOK
<1>8. n < LLONG_MAX
  BY <1>5, <1>6, <1>7, PairAssumption DEF PairTypeOK, LLONG_MAX
<1>9. /\ samples' = samples \cup {<<n, m.start, m.reply>>}
      /\ min_nsec' = IF n < min_nsec THEN n ELSE min_nsec
      /\ min_reply' = IF n < min_nsec THEN m.reply ELSE min_reply
  BY <1>3, <1>7 DEF observe, shorter
<1>10. PICK z \in Int \X Int \X Int : z = <<n, m.start, m.reply>>
  BY <1>6
<1>11. z[1] = n /\ z[2] = m.start /\ z[3] = m.reply
  BY <1>10
<1>12. min_nsec' \in Int /\ min_reply' \in Int /\ samples' \subseteq Int \X Int \X Int
  BY <1>6, <1>9, <1>10 DEF PairTypeOK
<1>13. min_nsec \in Int /\ (\A y \in samples : y[1] \in Int)
  BY DEF PairTypeOK
<1>14. \A y \in samples' : min_nsec' <= y[1]
  <2>1. \A y \in samples' : y \in samples \/ y = z
    BY <1>9, <1>10
  <2>2. min_nsec' <= n /\ min_nsec' <= min_nsec
    BY <1>9, <1>13
  <2> QED
    BY <2>1, <2>2, <1>11, <1>12, <1>13 DEF Shortest
<1>15. recv_ctr' # 0
  BY DEF PairTypeOK
<1>16. Stamping' = Stamping
  BY DEF Stamping, options
<1>17. \E x \in samples' :
         /\ min_nsec' = x[1] /\ min_reply' = x[3]
         /\ Stamping => x[2] <= min_reply' /\ min_reply' <= x[2] + x[1]
  <2>1. CASE n < min_nsec
    <3>1. z \in samples' /\ min_nsec' = z[1] /\ min_reply' = z[3]
      BY <2>1, <1>9, <1>10, <1>11
    <3>2. Stamping => z[2] <= min_reply' /\ min_reply' <= z[2] + z[1]
      <4>1. min_reply' = m.reply /\ z[2] + z[1] = clock
        BY <2>1, <1>6, <1>7, <1>9, <1>11 DEF PairTypeOK
      <4> QED
        BY <4>1, <1>5, <1>11
    <3> QED
      BY <3>1, <3>2
  <2>2. CASE ~(n < min_nsec)
    <3>1. recv_ctr # 0
      BY <2>2, <1>8 DEF Shortest
    <3>2. min_nsec' = min_nsec /\ min_reply' = min_reply
      BY <2>2, <1>9
    <3>3. PICK x \in samples : /\ min_nsec = x[1] /\ min_reply = x[3]
                               /\ Stamping => x[2] <= min_reply /\ min_reply <= x[2] + x[1]
      BY <3>1 DEF Shortest
    <3>4. x \in samples'
      BY <1>9
    <3> QED
      BY <3>2, <3>3, <3>4
  <2> QED
    BY <2>1, <2>2
<1> QED
  BY <1>12, <1>14, <1>15, <1>16, <1>17 DEF Shortest

\* What is left of the replies when one is received.
LEMMA TakeReply ==
  ASSUME PairInv, rep # <<>>, rep' = Tail(rep), UNCHANGED <<options, clock, req>>
  PROVE  Carried' /\ rep' \in Seq(Message) /\ Len(rep') = Len(rep) - 1 /\ Len(rep) \in Nat
<1> USE DEF PairInv
<1>1. rep \in Seq(Message)
  BY DEF PairTypeOK
<1>2. /\ Tail(rep) \in Seq(Message) /\ Len(Tail(rep)) = Len(rep) - 1 /\ Len(rep) \in Nat \ {0}
      /\ \A i \in 1..Len(Tail(rep)) : Tail(rep)[i] = rep[i + 1]
  BY <1>1, HeadTail
<1>3. \A i \in 1 .. Len(rep') : i + 1 \in 1 .. Len(rep) /\ rep'[i] = rep[i + 1]
  BY <1>2
<1>4. Stamping' = Stamping /\ mode' = mode
  BY DEF Stamping, options
<1>5. Carried'
  BY <1>3, <1>4 DEF Carried
<1> QED
  BY <1>2, <1>5

\* Slave 2 returns a request, with a stamp if it gives one.
LEMMA PassOn ==
  ASSUME PairInv, req # <<>>, req' = Tail(req), UNCHANGED <<options, clock>>,
         rep' = Append(rep, IF Stamping THEN [Head(req) EXCEPT !.reply = clock] ELSE Head(req)),
         Head(req).start # 0
  PROVE  /\ Carried' /\ req' \in Seq(Message) /\ rep' \in Seq(Message)
         /\ Len(req') + Len(rep') = Len(req) + Len(rep)
<1> USE DEF PairInv
<1>1. req \in Seq(Message) /\ rep \in Seq(Message)
  BY DEF PairTypeOK
<1>2. /\ Tail(req) \in Seq(Message) /\ Len(Tail(req)) = Len(req) - 1 /\ Len(req) \in Nat \ {0}
      /\ \A i \in 1..Len(Tail(req)) : Tail(req)[i] = req[i + 1]
      /\ Head(req) \in Message /\ Head(req) = req[1]
  BY <1>1, HeadTail
<1>3. \A i \in 1 .. Len(req') : i + 1 \in 1 .. Len(req) /\ req'[i] = req[i + 1]
  BY <1>2
<1>4. PICK m \in Message : m = IF Stamping THEN [Head(req) EXCEPT !.reply = clock] ELSE Head(req)
  <2>1. clock \in Int
    BY DEF PairTypeOK
  <2>2. [Head(req) EXCEPT !.reply = clock] \in Message
    BY <1>2, <2>1 DEF Message
  <2> QED
    BY <1>2, <2>2
<1>5. m.start = Head(req).start /\ (Stamping => m.reply = clock) /\ m.start \in Int
  BY <1>2, <1>4 DEF Message
<1>6. 1 \in 1 .. Len(req)
  BY <1>2
<1>7. m.start >= 1 /\ m.start <= clock
  BY <1>2, <1>5, <1>6 DEF Carried
<1>8. rep' = Append(rep, m)
  BY <1>4
<1>9. /\ rep' \in Seq(Message) /\ Len(rep') = Len(rep) + 1 /\ rep'[Len(rep) + 1] = m
      /\ \A j \in 1 .. Len(rep) : rep'[j] = rep[j]
  BY <1>1, <1>8, SeqAppend
<1>10. \A k \in 1 .. Len(rep') : k \in 1 .. Len(rep) \/ k = Len(rep) + 1
  BY <1>1, <1>9
<1>11. Stamping' = Stamping /\ mode' = mode
  BY DEF Stamping, options
<1>12. clock \in Int
  BY DEF PairTypeOK
<1>13. Carried'
  <2>1. \A i \in 1 .. Len(rep') :
          /\ rep'[i].start >= 1 /\ rep'[i].start <= clock
          /\ Stamping => rep'[i].start <= rep'[i].reply /\ rep'[i].reply <= clock
    BY <1>5, <1>7, <1>9, <1>10, <1>12 DEF Carried
  <2> QED
    BY <1>3, <1>11, <2>1 DEF Carried
<1> QED
  BY <1>1, <1>2, <1>9, <1>13

\* Slave 1 sends a message.
LEMMA SendOne ==
  ASSUME PairInv, UNCHANGED <<options, clock, rep>>, NEW m \in Message, req' = Append(req, m),
         m.start = clock \/ (mode = "sync" /\ m.start = 0)
  PROVE  Carried' /\ req' \in Seq(Message) /\ Len(req') = Len(req) + 1 /\ Len(req) \in Nat
<1> USE DEF PairInv
<1>1. req \in Seq(Message) /\ Len(req) \in Nat
  BY DEF PairTypeOK
<1>2. /\ req' \in Seq(Message) /\ Len(req') = Len(req) + 1 /\ req'[Len(req) + 1] = m
      /\ \A j \in 1 .. Len(req) : req'[j] = req[j]
  BY <1>1, SeqAppend
<1>3. \A k \in 1 .. Len(req') : k \in 1 .. Len(req) \/ k = Len(req) + 1
  BY <1>1, <1>2
<1>4. Stamping' = Stamping /\ mode' = mode
  BY DEF Stamping, options
<1>5. Carried'
  BY <1>2, <1>3, <1>4 DEF Carried, PairTypeOK
<1> QED
  BY <1>1, <1>2, <1>5

\* Every step of the two programs keeps the invariant.
LEMMA PairStepInv == PairInv /\ [PairNext]_pairVars => PairInv'
<1> SUFFICES ASSUME PairInv, [PairNext]_pairVars PROVE PairInv'
  OBVIOUS
<1> USE PairAssumption DEF PairInv, options, counters, minima
<1>0. UNCHANGED <<options, clock, req, rep>> => Carried'
  BY DEF Carried, Stamping
<1>1. UNCHANGED <<options, minima, recv_ctr>> => Shortest'
  BY DEF Shortest, Stamping
<1>2. CASE Tick
  <2>1. PairTypeOK' /\ Places' /\ Conserved'
    BY <1>2 DEF Tick, PairTypeOK, Places, Conserved
  <2>2. Carried'
    <3>1. clock <= clock' /\ clock \in Int /\ clock' \in Int
      BY <1>2 DEF Tick, PairTypeOK
    <3>2. UNCHANGED <<req, rep, mode, tsc>>
      BY <1>2 DEF Tick
    <3>3. \A i \in 1 .. Len(rep) : rep[i].start \in Int /\ rep[i].reply \in Int
      <4>1. \A i \in 1 .. Len(rep) : rep[i] \in Message
        BY DEF PairTypeOK
      <4> QED
        BY <4>1 DEF Message
    <3> QED
      BY <3>1, <3>2, <3>3 DEF Carried, Stamping
  <2> QED
    BY <1>1, <1>2, <2>1, <2>2 DEF Tick
<1>3. CASE async_open
  <2>1. PairTypeOK' /\ Places' /\ Conserved'
    BY <1>3 DEF async_open, PairTypeOK, Places, Conserved
  <2> QED
    BY <1>0, <1>1, <1>3, <2>1 DEF async_open
<1>4. CASE SyncSend
  <2>1. PICK m \in Message : /\ req' = Append(req, m)
                             /\ m.start = clock \/ (mode = "sync" /\ m.start = 0)
    <3>1. CASE sent_ctr < NrIter
      <4>1. stamped \in Message /\ stamped.start = clock /\ req' = Append(req, stamped)
        BY <1>4, <3>1 DEF SyncSend, stamped, Message, Unstamped, PairTypeOK
      <4> QED
        BY <4>1
    <3>2. CASE ~(sent_ctr < NrIter)
      <4> DEFINE m == [start |-> 0, reply |-> Unstamped]
      <4>1. m \in Message /\ m.start = 0 /\ mode = "sync" /\ req' = Append(req, m)
        BY <1>4, <3>2 DEF SyncSend, Message, Unstamped, PairTypeOK
      <4> QED
        BY <4>1
    <3> QED
      BY <3>1, <3>2
  <2>2. Carried' /\ req' \in Seq(Message)
    BY <1>4, <2>1, SendOne DEF SyncSend
  <2>3. PairTypeOK' /\ Places' /\ Conserved'
    BY <1>4, <2>2 DEF SyncSend, PairTypeOK, Places, Conserved
  <2> QED
    BY <1>1, <1>4, <2>2, <2>3 DEF SyncSend
<1>5. CASE SyncRecv
  <2>1. /\ Carried' /\ rep' \in Seq(Message)
    BY <1>5, TakeReply DEF SyncRecv
  <2>2. Shortest' /\ min_nsec' \in Int /\ min_reply' \in Int /\ samples' \subseteq Int \X Int \X Int
    BY <1>5, ObserveShortest DEF SyncRecv
  <2>3. PairTypeOK' /\ Places' /\ Conserved'
    BY <1>5, <2>1, <2>2 DEF SyncRecv, PairTypeOK, Places, Conserved
  <2> QED
    BY <2>1, <2>2, <2>3
<1>6. CASE AsyncLoop
  <2>1. sent_ctr < NrIter => bulk(NrIter - sent_ctr) \in Int /\ sent_ctr + bulk(NrIter - sent_ctr) <= NrIter
    BY DEF bulk, fail_fast, PairTypeOK
  <2>2. PairTypeOK' /\ Places' /\ Conserved'
    BY <1>6, <2>1 DEF AsyncLoop, PairTypeOK, Places, Conserved, received_all
  <2> QED
    BY <1>0, <1>1, <1>6, <2>2 DEF AsyncLoop
<1>7. CASE AsyncSend
  <2>1. PICK m \in Message : m = stamped /\ m.start = clock
    <3>1. stamped.start = clock
      BY DEF stamped
    <3>2. stamped \in Message
      BY DEF stamped, Message, Unstamped, PairTypeOK
    <3> QED
      BY <3>1, <3>2
  <2>2. Carried' /\ req' \in Seq(Message) /\ Len(req') = Len(req) + 1 /\ Len(req) \in Nat
    BY <1>7, <2>1, SendOne DEF AsyncSend
  <2>3. PairTypeOK' /\ Places'
    BY <1>7, <2>2 DEF AsyncSend, PairTypeOK, Places
  <2>4. Conserved'
    <3>1. Len(rep) \in Nat
      BY DEF PairTypeOK
    <3> QED
      BY <1>7, <2>2, <3>1 DEF AsyncSend, PairTypeOK, Places, Conserved
  <2> QED
    BY <1>1, <1>7, <2>2, <2>3, <2>4 DEF AsyncSend
<1>8. CASE AsyncSent
  <2>1. bulk(NrIter - recv_ctr) \in Int
    BY DEF bulk, fail_fast, PairTypeOK
  <2>2. PairTypeOK' /\ Places' /\ Conserved'
    BY <1>8, <2>1 DEF AsyncSent, PairTypeOK, Places, Conserved
  <2> QED
    BY <1>0, <1>1, <1>8, <2>2 DEF AsyncSent
<1>9. CASE AsyncPoll
  <2>0. pc1' \in {"poll", "loop"} /\ pc1 = "poll" /\ mode = "async"
    BY <1>9 DEF AsyncPoll, Places, PairTypeOK
  <2>1. CASE rep = <<>>
    <3>1. recv_ctr' = recv_ctr /\ to_recv' = to_recv /\ UNCHANGED <<rep, minima>>
      BY <1>9, <2>1 DEF AsyncPoll, polled, PairTypeOK
    <3>2. PairTypeOK' /\ Places' /\ Conserved'
      BY <1>9, <2>0, <3>1 DEF AsyncPoll, PairTypeOK, Places, Conserved
    <3> QED
      BY <1>0, <1>1, <1>9, <3>1, <3>2 DEF AsyncPoll
  <2>2. CASE rep # <<>>
    <3>1. /\ recv_ctr' = recv_ctr + 1 /\ to_recv' = to_recv - 1
          /\ observe(Head(rep)) /\ rep' = Tail(rep) /\ UNCHANGED <<options, clock, req>>
      BY <1>9, <2>2 DEF AsyncPoll, polled
    <3>2. Carried' /\ rep' \in Seq(Message) /\ Len(rep') = Len(rep) - 1 /\ Len(rep) \in Nat
      BY <2>2, <3>1, TakeReply
    <3>3. Shortest' /\ min_nsec' \in Int /\ min_reply' \in Int /\ samples' \subseteq Int \X Int \X Int
      BY <2>2, <3>1, ObserveShortest
    <3>4. PairTypeOK' /\ Places'
      BY <1>9, <2>0, <3>1, <3>2, <3>3 DEF AsyncPoll, PairTypeOK, Places
    <3>5. Conserved'
      <4>1. Len(req) \in Nat
        BY DEF PairTypeOK
      <4>2. sent_ctr' = sent_ctr /\ pc1r' = pc1r /\ mode' = "async"
        BY <1>9, <2>0, <3>1 DEF AsyncPoll
      <4> QED
        BY <2>0, <3>1, <3>2, <4>1, <4>2 DEF PairTypeOK, Conserved
    <3> QED
      BY <3>2, <3>3, <3>4, <3>5
  <2> QED
    BY <2>1, <2>2
<1>10. CASE RecvThread
  <2>0. mode = "multi"
    BY <1>10 DEF RecvThread, Places
  <2>1. CASE received_all
    <3>1. PairTypeOK' /\ Places' /\ Conserved'
      BY <1>10, <2>0, <2>1 DEF RecvThread, PairTypeOK, Places, Conserved, received_all
    <3> QED
      BY <1>0, <1>1, <1>10, <2>1, <3>1 DEF RecvThread
  <2>2. CASE ~received_all
    <3>1. /\ rep # <<>> /\ recv_ctr' = recv_ctr + 1 /\ pc1r' = pc1r
          /\ observe(Head(rep)) /\ rep' = Tail(rep) /\ UNCHANGED <<options, clock, req>>
      BY <1>10, <2>2 DEF RecvThread
    <3>2. Carried' /\ rep' \in Seq(Message) /\ Len(rep') = Len(rep) - 1 /\ Len(rep) \in Nat
      BY <3>1, TakeReply
    <3>3. Shortest' /\ min_nsec' \in Int /\ min_reply' \in Int /\ samples' \subseteq Int \X Int \X Int
      BY <3>1, ObserveShortest
    <3>4. PairTypeOK' /\ Places'
      BY <1>10, <3>1, <3>2, <3>3 DEF RecvThread, PairTypeOK, Places
    <3>5. Conserved'
      <4>1. Len(req) \in Nat
        BY DEF PairTypeOK
      <4> QED
        BY <1>10, <2>0, <3>1, <3>2, <4>1 DEF RecvThread, PairTypeOK, Conserved
    <3> QED
      BY <3>2, <3>3, <3>4, <3>5
  <2> QED
    BY <2>1, <2>2
<1>11. CASE Slave2Open
  <2>1. PairTypeOK' /\ Places' /\ Conserved'
    BY <1>11 DEF Slave2Open, PairTypeOK, Places, Conserved
  <2> QED
    BY <1>0, <1>1, <1>11, <2>1 DEF Slave2Open
<1>12. CASE do_bulk_receive
  <2>0. mode = "sync" /\ Stamping
    BY <1>12 DEF do_bulk_receive, Stamping
  <2>1. CASE Head(req).start = 0
    <3>0. req \in Seq(Message) /\ req # <<>>
      BY <1>12 DEF do_bulk_receive, PairTypeOK
    <3>1. /\ Tail(req) \in Seq(Message) /\ Len(Tail(req)) = Len(req) - 1 /\ Len(req) \in Nat \ {0}
          /\ \A i \in 1..Len(Tail(req)) : Tail(req)[i] = req[i + 1]
      BY <3>0, HeadTail
    <3>2. req' = Tail(req) /\ rep' = rep
      BY <1>12, <2>1 DEF do_bulk_receive
    <3>3. \A i \in 1 .. Len(req') : i + 1 \in 1 .. Len(req) /\ req'[i] = req[i + 1]
      BY <3>1, <3>2
    <3>4. Carried'
      BY <1>12, <3>2, <3>3 DEF do_bulk_receive, Carried, Stamping
    <3>5. PairTypeOK' /\ Places' /\ Conserved'
      BY <1>12, <2>0, <3>1, <3>2 DEF do_bulk_receive, PairTypeOK, Places, Conserved
    <3> QED
      BY <1>1, <1>12, <3>4, <3>5 DEF do_bulk_receive
  <2>2. CASE Head(req).start # 0
    <3>1. Carried' /\ req' \in Seq(Message) /\ rep' \in Seq(Message)
      BY <1>12, <2>0, <2>2, PassOn DEF do_bulk_receive
    <3>2. PairTypeOK' /\ Places' /\ Conserved'
      BY <1>12, <2>0, <3>1 DEF do_bulk_receive, PairTypeOK, Places, Conserved
    <3> QED
      BY <1>1, <1>12, <3>1, <3>2 DEF do_bulk_receive
  <2> QED
    BY <2>1, <2>2
<1>13. CASE dealer_router_receive \/ async_recv_and_send
  <2>0. /\ mode # "sync" /\ req # <<>> /\ req' = Tail(req)
        /\ rep' = Append(rep, IF tsc THEN [Head(req) EXCEPT !.reply = clock] ELSE Head(req))
        /\ UNCHANGED <<options, clock, pc1, pc1r, pc2, counters, minima>>
    BY <1>13 DEF dealer_router_receive, async_recv_and_send
  <2>1. Stamping = tsc
    BY <2>0 DEF Stamping, PairTypeOK
  <2>2. Head(req).start # 0
    <3>1. req \in Seq(Message)
      BY DEF PairTypeOK
    <3>2. Head(req) = req[1] /\ 1 \in 1 .. Len(req)
      BY <2>0, <3>1
    <3> QED
      BY <2>0, <3>2 DEF Carried
  <2>3. /\ Carried' /\ req' \in Seq(Message) /\ rep' \in Seq(Message)
        /\ Len(req') + Len(rep') = Len(req) + Len(rep)
    BY <2>0, <2>1, <2>2, PassOn
  <2>4. PairTypeOK' /\ Places'
    BY <2>0, <2>3 DEF PairTypeOK, Places
  <2>5. Conserved'
    <3>1. Len(req) \in Nat /\ Len(rep) \in Nat /\ Len(req') \in Nat /\ Len(rep') \in Nat
      BY <2>3 DEF PairTypeOK
    <3> QED
      BY <2>0, <2>3, <3>1 DEF Conserved, PairTypeOK
  <2> QED
    BY <1>1, <2>0, <2>3, <2>4, <2>5
<1>14. CASE UNCHANGED pairVars
  <2>1. PairTypeOK' /\ Places' /\ Conserved'
    BY <1>14 DEF pairVars, PairTypeOK, Places, Conserved
  <2> QED
    BY <1>0, <1>1, <1>14, <2>1 DEF pairVars
<1> QED
  BY <1>2, <1>3, <1>4, <1>5, <1>6, <1>7, <1>8, <1>9, <1>10, <1>11, <1>12, <1>13, <1>14
  DEF PairNext, Slave1, Slave2

\* Slave 1 ends with all the round trips it was asked for, and prints the shortest,
\* with a reply stamp taken during it, for every number of messages, every size of a
\* bulk and in all three modes (tsc_slave_1.cpp, tsc_slave_2.cpp).
THEOREM PairShortest == PairSpec => []ShortestPrinted
<1>1. PairInit => PairInv
  BY PairInitInv
<1>2. PairInv /\ [PairNext]_pairVars => PairInv'
  BY PairStepInv
<1>3. PairInv => ShortestPrinted
  <2> SUFFICES ASSUME PairInv, ended PROVE recv_ctr = NrIter /\ Shortest /\ PairTypeOK
    BY PairAssumption DEF ShortestPrinted, Shortest, PairTypeOK, Stamping
  <2> USE PairAssumption DEF PairInv, ended
  <2>1. Len(req) \in Nat /\ Len(rep) \in Nat
    BY DEF PairTypeOK
  <2>2. recv_ctr >= NrIter
    BY DEF PairTypeOK, Places, Conserved
  <2>3. recv_ctr <= sent_ctr /\ sent_ctr <= NrIter
    BY <2>1 DEF PairTypeOK, Conserved
  <2> QED
    BY <2>2, <2>3 DEF PairTypeOK
<1> QED
  BY <1>1, <1>2, <1>3, PTL DEF PairSpec
=============================================================================
