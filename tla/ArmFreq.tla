------------------------------ MODULE ArmFreq ------------------------------
(***************************************************************************)
(* armfreq: one thread per core measures the frequency of its cycle        *)
(* counter, and all of them print when all have measured                   *)
(* (armfreq/clock_test.cpp).  What is measured does not matter here.       *)
(***************************************************************************)
EXTENDS SpinBarrier

CONSTANT Iteration    \* option -i

ASSUME ArmAssumption == Iteration \in Nat

VARIABLES
  infinite,       \* option -f
  armpc,          \* each thread_f: "open", "measure", "barrier", "print", "spins",
                  \* "done"; "exit" once the process has exited
  measure_list,   \* measurements in each thread's list
  printed         \* and in its file

armOnly == <<infinite, armpc, measure_list, printed>>
armVars == <<barrierVars, armOnly>>

\* main
ArmInit ==
  /\ BarrierInit
  /\ infinite \in BOOLEAN
  /\ armpc = [t \in BarrierThreads |-> "open"]
  /\ measure_list = [t \in BarrierThreads |-> 0] /\ printed = [t \in BarrierThreads |-> 0]

goto(t, place) == armpc' = [armpc EXCEPT ![t] = place]

\* set_log_file_as of a thread: without an IP address or a file the process exits.
ArmLog(t) ==
  /\ armpc[t] = "open"
  /\ \/ goto(t, IF infinite THEN "spins" ELSE "measure")
     \/ armpc' = [u \in BarrierThreads |-> "exit"]
  /\ UNCHANGED <<barrierVars, infinite, measure_list, printed>>

Measure(t) ==
  /\ armpc[t] = "measure" /\ measure_list[t] < Iteration
  /\ measure_list' = [measure_list EXCEPT ![t] = @ + 1]
  /\ UNCHANGED <<barrierVars, infinite, armpc, printed>>

printsAt == "barrier"

Measured(t) ==
  /\ armpc[t] = "measure" /\ measure_list[t] = Iteration
  /\ goto(t, printsAt)
  /\ UNCHANGED <<barrierVars, infinite, measure_list, printed>>

ArmBarrier(t) ==
  /\ armpc[t] = "barrier" /\ passed[t] = 0
  /\ BarrierStep(t)
  /\ UNCHANGED armOnly

ArmPassed(t) ==
  /\ armpc[t] = "barrier" /\ passed[t] = 1
  /\ goto(t, "print")
  /\ UNCHANGED <<barrierVars, infinite, measure_list, printed>>

print_test_info(t) ==
  /\ armpc[t] = "print" /\ printed[t] < measure_list[t]
  /\ printed' = [printed EXCEPT ![t] = @ + 1]
  /\ UNCHANGED <<barrierVars, infinite, armpc, measure_list>>

ArmDone(t) ==
  /\ armpc[t] = "print" /\ printed[t] = measure_list[t]
  /\ goto(t, "done")
  /\ UNCHANGED <<barrierVars, infinite, measure_list, printed>>

ArmThread(t) ==
  \/ ArmLog(t) \/ Measure(t) \/ Measured(t) \/ ArmBarrier(t) \/ ArmPassed(t)
  \/ print_test_info(t) \/ ArmDone(t)
ArmNext == \E t \in BarrierThreads : ArmThread(t)

-----------------------------------------------------------------------------
\* Unless it is told to run for ever, armfreq ends: no thread is left in the barrier
\* (clock_test.cpp, main: join).
ArmEnds == ~infinite ~> (\A t \in BarrierThreads : armpc[t] \in {"done", "exit"})
=============================================================================
