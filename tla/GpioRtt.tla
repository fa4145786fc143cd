------------------------------ MODULE GpioRtt ------------------------------
(***************************************************************************)
(* Round-trip times over GPIO pins (handlers/gpiortt_handler.cpp): two     *)
(* boards, each with one GPIORTT channel, joined by four wires.  On the    *)
(* master board a thread answers every change of the client's line; on the *)
(* client board logTS changes the line and spins until the answer comes.   *)
(* Both meet at a barrier first.  Lines and barriers reverse their sense,  *)
(* so that no pin has to return to low between two uses.  Nothing resets   *)
(* the pins when a process ends: they start at the levels an earlier run   *)
(* has left.                                                               *)
(***************************************************************************)
EXTENDS Integers, FiniteSets

CONSTANT MaxTuples   \* bound: tuples logged by the client

ASSUME GpioAssumption == MaxTuples \in Nat

Boards == {"master", "client"}
Pins == {"PIN_LINE_M", "PIN_LINE_C", "PIN_BARR_M", "PIN_BARR_C"}
outputs(b) == IF b = "master" THEN {"PIN_LINE_M", "PIN_BARR_M"}
                              ELSE {"PIN_LINE_C", "PIN_BARR_C"}

VARIABLES
  handler_f, \* handler_f of the channel: "gpio", or "null" once it is closed
  args,     \* the next argument setArgGPIORTTHandler sets; 3: all are set
  pin,      \* the level of each wire
  sense,    \* barr_c, barr_m, line_c, line_m of each closure, by pin
  server_thread, \* GPIORTTHandler_server on the master: its place
  client,   \* the application's thread on the client: its place
  tuples,   \* history: tuples logged since the pins of both boards are set up,
  answers   \* and signals the master has answered since the first of these

gpioVars == <<handler_f, args, pin, sense, server_thread, client, tuples, answers>>

\* initGPIORTTHandler on both boards, whatever the levels of the wires.
GpioInit ==
  /\ handler_f = [b \in Boards |-> "gpio"] /\ args = [b \in Boards |-> 0]
  /\ pin \in [Pins -> 0..1]
  /\ sense = [b \in Boards |-> [p \in Pins |-> 0]]
  /\ server_thread = "none" /\ client = "idle" /\ tuples = 0 /\ answers = 0

\* Variant: the sense is not reversed.
keep_line(n) == n

\* Sense reversal, of the level to wait for next at the barrier and on the lines.
reverse_barrier(n) == 1 - n
reverse_line(n) == 1 - n

\* A pin is driven by toggling it.
flip(n) == 1 - n

\* initGPIO: the board drives its two pins, low.
initGPIO(b) == [p \in Pins |-> IF p \in outputs(b) THEN 0 ELSE pin[p]]

\* A check of an argument fails, or the device cannot be mapped: the channel is
\* closed and the arguments left are not set.
SetArgFails(b) ==
  /\ handler_f[b] = "gpio" /\ args[b] < 3
  /\ b = "client" => client = "idle"
  /\ handler_f' = [handler_f EXCEPT ![b] = "null"]
  /\ args' = [args EXCEPT ![b] = 3]
  /\ pin' \in IF args[b] = 2 THEN {pin, initGPIO(b)} ELSE {pin}
  /\ UNCHANGED <<sense, server_thread, client, tuples, answers>>

\* Arguments 0 and 1: CPU and frequency (checkGovernerStatus,
\* checkMaxFrequency and checkPMUAvailability found them set up).
SetArgCPU(b) ==
  /\ handler_f[b] = "gpio" /\ args[b] < 2
  /\ args' = [args EXCEPT ![b] = @ + 1]
  /\ UNCHANGED <<handler_f, pin, sense, server_thread, client, tuples, answers>>

\* Argument 2 on the master: a thread is created.
SetArgMaster ==
  /\ handler_f["master"] = "gpio" /\ args["master"] = 2
  /\ args' = [args EXCEPT !["master"] = 3]
  /\ pin' = initGPIO("master")
  /\ server_thread' = "start"
  /\ handler_f' \in {handler_f, [handler_f EXCEPT !["master"] = "null"]}
  /\ UNCHANGED <<sense, client, tuples, answers>>

\* Argument 2 on the client: the pins are set up, then the master is told.
SetArgClient ==
  /\ handler_f["client"] = "gpio" /\ args["client"] = 2 /\ client = "idle"
  /\ pin' = initGPIO("client")
  /\ client' = "signal"
  /\ UNCHANGED <<handler_f, args, sense, server_thread, tuples, answers>>

ClientBarrier ==
  /\ client = "signal"
  /\ sense' = [sense EXCEPT !["client"]["PIN_BARR_C"] = reverse_barrier(@),
                             !["client"]["PIN_BARR_M"] = reverse_barrier(@)]
  /\ pin' = [pin EXCEPT !["PIN_BARR_C"] = flip(@)]
  /\ client' = "barrier"
  /\ UNCHANGED <<handler_f, args, server_thread, tuples, answers>>

ClientPasses ==
  /\ client = "barrier" /\ pin["PIN_BARR_M"] = sense["client"]["PIN_BARR_M"]
  /\ client' = "ready"
  /\ args' = [args EXCEPT !["client"] = 3]
  /\ UNCHANGED <<handler_f, pin, sense, server_thread, tuples, answers>>

\* GPIORTTHandler_client: the line is changed, then watched.
ClientSignal ==
  /\ client = "ready" /\ handler_f["client"] = "gpio" /\ tuples < MaxTuples
  /\ sense' = [sense EXCEPT !["client"]["PIN_LINE_C"] = reverse_line(@),
                             !["client"]["PIN_LINE_M"] = reverse_line(@)]
  /\ pin' = [pin EXCEPT !["PIN_LINE_C"] = flip(@)]
  /\ client' = "wait"
  /\ UNCHANGED <<handler_f, args, server_thread, tuples, answers>>

ClientLogs ==
  /\ client = "wait" /\ pin["PIN_LINE_M"] = sense["client"]["PIN_LINE_M"]
  /\ client' = "ready"
  /\ tuples' = IF server_thread = "none" THEN tuples ELSE tuples + 1
  /\ answers' = IF tuples = 0 THEN 0 ELSE answers
  /\ UNCHANGED <<handler_f, args, pin, sense, server_thread>>

-----------------------------------------------------------------------------
\* The thread may fail to set its affinity; it closes the channel and ends.
ServerFails ==
  /\ server_thread = "start"
  /\ server_thread' = "done"
  /\ handler_f' = [handler_f EXCEPT !["master"] = "null"]
  /\ UNCHANGED <<args, pin, sense, client, tuples, answers>>

GpioServerStart ==
  /\ server_thread = "start"
  /\ sense' = [sense EXCEPT !["master"]["PIN_BARR_C"] = reverse_barrier(@)]
  /\ server_thread' = "barrier"
  /\ UNCHANGED <<handler_f, args, pin, client, tuples, answers>>

\* The client is there: let it go, and wait for its first signal.
ServerPasses ==
  /\ server_thread = "barrier" /\ pin["PIN_BARR_C"] = sense["master"]["PIN_BARR_C"]
  /\ sense' = [sense EXCEPT !["master"]["PIN_BARR_M"] = reverse_barrier(@),
                             !["master"]["PIN_LINE_C"] = reverse_line(@),
                             !["master"]["PIN_LINE_M"] = reverse_line(@)]
  /\ pin' = [pin EXCEPT !["PIN_BARR_M"] = flip(@)]
  /\ server_thread' = "line"
  /\ UNCHANGED <<handler_f, args, client, tuples, answers>>

ServerAnswers ==
  /\ server_thread = "line" /\ pin["PIN_LINE_C"] = sense["master"]["PIN_LINE_C"]
  /\ pin' = [pin EXCEPT !["PIN_LINE_M"] = flip(@)]
  /\ sense' = [sense EXCEPT !["master"]["PIN_LINE_C"] = reverse_line(@),
                             !["master"]["PIN_LINE_M"] = reverse_line(@)]
  /\ answers' = answers + 1
  /\ UNCHANGED <<handler_f, args, server_thread, client, tuples>>

-----------------------------------------------------------------------------
GpioServer == GpioServerStart \/ ServerPasses \/ ServerAnswers
GpioClient == SetArgClient \/ ClientBarrier \/ ClientPasses \/ ClientLogs

GpioNext ==
  \/ (\E b \in Boards : SetArgFails(b) \/ SetArgCPU(b))
  \/ SetArgMaster \/ ClientSignal \/ ServerFails
  \/ GpioServer \/ GpioClient

GpioFairness == WF_gpioVars(GpioServer) /\ WF_gpioVars(GpioClient)
GpioSpec == GpioInit /\ [][GpioNext]_gpioVars /\ GpioFairness

-----------------------------------------------------------------------------
\* The client leaves the barrier only after the master's thread has left it
\* (gpiortt_handler.cpp:246, "Wait for server to get ready").
BarrierMeets == client \in {"ready", "wait"} => server_thread = "line"

\* From the first tuple on that the client logs with the pins of both boards set up, every
\* tuple in its log stands for one signal and one answer: the master never answers a
\* signal that was not given, or one twice, and no tuple is logged without an answer of
\* its own.  Each board knows the other only by the level of two wires, which an earlier
\* run may have left at any level: the tuples before may be wrong, and one side may have
\* left the barrier before the other came (GPIORTTHandler_client, GPIORTTHandler_server).
BoardsInStep ==
  tuples > 0 => answers = tuples - 1 \/ (client = "wait" /\ answers = tuples)

\* A logTS on the client returns, if the master's thread runs.
LogReturns ==
  (client = "wait" /\ server_thread \in {"barrier", "line"}) ~> (client = "ready")
=============================================================================
