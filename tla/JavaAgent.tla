----------------------------- MODULE JavaAgent -----------------------------
(***************************************************************************)
(* The sampling thread of the Java agent (java_agent/JavaAgentHandler.cpp). *)
(* The flag that stops it lives on the heap: installAgentHandler allocates  *)
(* it, the thread frees it, and the shutdown hook that every                *)
(* JavaAgentHandler_CP registers (java_agent/JavaAgentHandler_CP.java) sets *)
(* it through uninstallAgentHandler.                                        *)
(***************************************************************************)
EXTENDS Naturals, Sequences

CONSTANTS
  Hooks,       \* the shutdown hooks, one for each JavaAgentHandler_CP
  GCs,         \* names of the JVM's garbage collectors
  MaxSamples   \* bound: samples taken

\* jagent.java makes one JavaAgentHandler_CP.
ASSUME OneHook == \A g, h \in Hooks : g = h

ASSUME AgentAssumption == MaxSamples \in Nat /\ Hooks # {} /\ GCs # {}

VARIABLES
  stopThread,  \* the pointer: "null" or "flag"
  heap,        \* the flag it points to: "none", "false", "true" or "freed"
  tpc, hpc,    \* the sampling thread, and each hook
  fetched,     \* what gc_sampler returned: collectors still to log
  rows, taken, \* rows logged, and history: samples begun
  touchedFreed \* history: the freed flag has been read or written

agentVars == <<stopThread, heap, tpc, hpc, fetched, rows, taken, touchedFreed>>

AgentInit ==
  /\ stopThread = "null" /\ heap = "none"
  /\ tpc = "none" /\ hpc = [h \in Hooks |-> "idle"]
  /\ fetched = {} /\ rows = 0 /\ taken = 0 /\ touchedFreed = FALSE

\* The channel is opened, the flag allocated and cleared, the thread started.
installAgentHandler ==
  /\ tpc = "none" /\ \A h \in Hooks : hpc[h] = "idle"
  /\ stopThread' = "flag" /\ heap' = "false" /\ tpc' = "test"
  /\ UNCHANGED <<hpc, fetched, rows, taken, touchedFreed>>

\* Variant: the thread takes one sample and ends.
goesOn_once == taken = 0

goesOn == heap # "true"

\* The loop's condition.  gc_sampler, when it holds, asks every collector.
SampleTest ==
  /\ tpc = "test"
  /\ touchedFreed' = (touchedFreed \/ heap = "freed")
  /\ \/ /\ goesOn /\ taken < MaxSamples
        /\ tpc' = "log" /\ fetched' = GCs /\ taken' = taken + 1
     \/ /\ ~goesOn
        /\ tpc' = "free" /\ UNCHANGED <<fetched, taken>>
  /\ UNCHANGED <<stopThread, heap, hpc, rows>>

\* A row for each collector: split returns three elements for each of them.
SampleLog ==
  /\ tpc = "log"
  /\ \E g \in fetched : fetched' = fetched \ {g}
  /\ rows' = rows + 1
  /\ tpc' = IF fetched' = {} THEN "test" ELSE "log"
  /\ UNCHANGED <<stopThread, heap, hpc, taken, touchedFreed>>

\* The end of sampling_thread, in two steps.
FreeFlag ==
  /\ tpc = "free"
  /\ heap' = "freed" /\ tpc' = "forget"
  /\ UNCHANGED <<stopThread, hpc, fetched, rows, taken, touchedFreed>>

ForgetFlag ==
  /\ tpc = "forget"
  /\ stopThread' = "null" /\ tpc' = "done"
  /\ UNCHANGED <<heap, hpc, fetched, rows, taken, touchedFreed>>

\* uninstallAgentHandler: test the pointer, then write through it.
HookTest(h) ==
  /\ hpc[h] = "idle"
  /\ hpc' = [hpc EXCEPT ![h] = IF stopThread # "null" THEN "store" ELSE "done"]
  /\ UNCHANGED <<stopThread, heap, tpc, fetched, rows, taken, touchedFreed>>

HookStore(h) ==
  /\ hpc[h] = "store"
  /\ heap' = IF heap = "freed" THEN "freed" ELSE "true"
  /\ touchedFreed' = (touchedFreed \/ heap = "freed")
  /\ hpc' = [hpc EXCEPT ![h] = "done"]
  /\ UNCHANGED <<stopThread, tpc, fetched, rows, taken>>

AgentThread == SampleTest \/ SampleLog \/ FreeFlag \/ ForgetFlag
AgentHook(h) == HookTest(h) \/ HookStore(h)
AgentNext == installAgentHandler \/ AgentThread \/ \E h \in Hooks : AgentHook(h)
AgentSpec == AgentInit /\ [][AgentNext]_agentVars

-----------------------------------------------------------------------------
\* With the one handler of jagent, the flag is freed only after its last use: the
\* hook's write, which comes after its test of the pointer, is what lets the thread
\* free it (JavaAgentHandler.cpp, sampling_thread and uninstallAgentHandler).
FlagOutlivesUse == ~touchedFreed
=============================================================================
