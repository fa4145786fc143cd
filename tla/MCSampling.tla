----------------------------- MODULE MCSampling -----------------------------
(***************************************************************************)
(* The channels that need no compression thread, for TLC: those whose       *)
(* blocks go from the caller to the IO thread, those that write from within *)
(* the call, the periodic counter, and the arithmetic they use.  A          *)
(* behaviour is one of them at work and leaves the variables of the others  *)
(* alone.                                                                   *)
(***************************************************************************)
EXTENDS BufferPipeline, SamplingHandlers, PeriodicCounter

\* At the limits of the formats.
MCNumbers ==
  {0, 7, -7, 12, 999, 1000, -1000, 12345, 123456, 1234567, -654321, 1000000000} \cup
  {1, 59, 60, 61, 119, 3599, 3600, 3601, 3661, 86399, 86400, 86401, 90061, 172799, 172800}

\* A period that is refused, one that divides by zero, and a good one.
MCPeriods == {-1, 0, 2}

\* One that is negative: the handlers take it for a large number.
MCTuples == {-3, 6}

\* One that is not a power of two, one a double rounds to one, and a negative one that is
\* rounded to one as a word.
MCArgValues == {0, 2, 3, 4, 9, -1}

\* A list for each handler that takes one, one that lowers X and Y together, and one of
\* which only Y is good.
MCArgLists == {<<1, 3>>, <<2, 3, 4>>, <<2, 2, 2>>, <<2, 5, 2>>}

MCLiterals == {[number |-> 2, postfix |-> "KB"], [number |-> 2, postfix |-> "x"],
               [number |-> -1, postfix |-> ""]}

VARIABLE part

mcVars == <<vars, samplingVars, pcVars, timeVars, part>>

MCInit ==
  /\ part \in {"buffered", "sampling", "periodic", "time"}
  /\ Init /\ SamplingInit /\ PeriodicInit /\ TimeInit
  /\ part # "sampling" => h_type = "NULLH"
  /\ part # "time" => clock = ts(0, 0) /\ inc = ts(0, 0) /\ printed = 0

MCNext ==
  \/ part = "buffered" /\ Next /\ UNCHANGED <<samplingVars, pcVars, timeVars, part>>
  \/ part = "sampling" /\ SamplingNext /\ UNCHANGED <<vars, pcVars, timeVars, part>>
  \/ part = "periodic" /\ PeriodicNext /\ UNCHANGED <<vars, samplingVars, timeVars, part>>
  \/ part = "time" /\ TimeNext /\ UNCHANGED <<vars, samplingVars, pcVars, part>>

MCSpec == MCInit /\ [][MCNext]_mcVars
=============================================================================
