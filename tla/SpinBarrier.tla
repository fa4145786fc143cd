---------------------------- MODULE SpinBarrier ----------------------------
(***************************************************************************)
(* The busy-waiting barrier of the frequency tools (armfreq/barrier.cpp):  *)
(* every thread counts its own calls of barrier_wait, and waits until the  *)
(* counters of all threads have reached its own.  It is used over and over *)
(* without being reset.                                                    *)
(***************************************************************************)
EXTENDS Naturals

CONSTANTS
  nr_threads,   \* argument of barrier_init
  MaxWaits      \* bound: calls of barrier_wait by one thread

ASSUME BarrierAssumption == nr_threads \in Nat \ {0} /\ MaxWaits \in Nat

VARIABLES
  ctr,        \* the counter of each thread
  my_level,   \* barrier_wait's local variables: the counter as read back,
  thr,        \* and the thread whose counter is looked at
  waitpc,     \* each thread: "out", "counted" or "waiting"
  passed      \* history: calls of barrier_wait that have returned

barrierVars == <<ctr, my_level, thr, waitpc, passed>>
BarrierThreads == 0 .. nr_threads - 1

\* barrier_init
BarrierInit ==
  /\ ctr = [t \in BarrierThreads |-> 0] /\ my_level = [t \in BarrierThreads |-> 0]
  /\ thr = [t \in BarrierThreads |-> 0] /\ waitpc = [t \in BarrierThreads |-> "out"]
  /\ passed = [t \in BarrierThreads |-> 0]

\* barrier_wait: the atomic increment,
Count(t) ==
  /\ waitpc[t] = "out" /\ ctr[t] < MaxWaits
  /\ ctr' = [ctr EXCEPT ![t] = @ + 1]
  /\ waitpc' = [waitpc EXCEPT ![t] = "counted"]
  /\ UNCHANGED <<my_level, thr, passed>>

\* the load that follows it,
ReadBack(t) ==
  /\ waitpc[t] = "counted"
  /\ my_level' = [my_level EXCEPT ![t] = ctr[t]]
  /\ thr' = [thr EXCEPT ![t] = 0]
  /\ waitpc' = [waitpc EXCEPT ![t] = "waiting"]
  /\ UNCHANGED <<ctr, passed>>

\* Variant: threads that entered one call before are let go.
behind_one(t, u) == ctr[u] + 1 < my_level[t]

behind(t, u) == ctr[u] < my_level[t]

\* a turn of the loop over the threads, once its own loop has ended,
Look(t) ==
  /\ waitpc[t] = "waiting" /\ thr[t] < nr_threads
  /\ ~behind(t, thr[t])
  /\ thr' = [thr EXCEPT ![t] = @ + 1]
  /\ UNCHANGED <<ctr, my_level, waitpc, passed>>

\* and the return.
Return(t) ==
  /\ waitpc[t] = "waiting" /\ thr[t] = nr_threads
  /\ waitpc' = [waitpc EXCEPT ![t] = "out"]
  /\ passed' = [passed EXCEPT ![t] = @ + 1]
  /\ UNCHANGED <<ctr, my_level, thr>>

BarrierStep(t) == Count(t) \/ ReadBack(t) \/ Look(t) \/ Return(t)
BarrierNext == \E t \in BarrierThreads : BarrierStep(t)
BarrierSpec == BarrierInit /\ [][BarrierNext]_barrierVars

-----------------------------------------------------------------------------
\* No call of barrier_wait returns before every thread has made as many calls, although
\* a fast thread may already be in its next call while a slow one still looks at the
\* counters of this one (barrier.h: "Busy-wait until all participating threads arrived
\* at the barrier").
ArrivedFirst == \A t, u \in BarrierThreads : passed[t] <= ctr[u]
=============================================================================
