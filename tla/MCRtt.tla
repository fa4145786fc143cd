------------------------------- MODULE MCRtt -------------------------------
(***************************************************************************)
(* The stand-alone programs around the library, for TLC: the three ways of *)
(* measuring round-trip times, the logger of clock errors, the converter   *)
(* of logs, the thread of the Java agent, the barrier and armfreq.  They   *)
(* share nothing: a behaviour runs one of them and leaves the variables of *)
(* the others alone.                                                       *)
(***************************************************************************)
EXTENDS TscSession, TscPair, GpioRtt, NtpLogger, LogConverter, JavaAgent, ArmFreq

CONSTANTS s1, s2, s3, h1, h2, c1, c2, hook

\* Two slaves on one host and one on another.
MCHostOf == s1 :> h1 @@ s2 :> h1 @@ s3 :> h2

\* The shortest in cycles is not the shortest in nanoseconds.
MCSamples == {[cyc |-> 1, ns |-> 2], [cyc |-> 2, ns |-> 1]}

\* Fail-fast, and a bulk that does not divide the number of messages.
MCBulks == {-1, 2}

\* Logs that are empty, whole, cut off, damaged, in a format the converter leaves
\* alone, or unreadable.
MCItem(k, d) == [kind |-> k, data |-> d]
MCLog(f, items) == [fmt |-> f, items |-> items, readable |-> TRUE]
MCOriginals ==
  LET rec(k) == MCItem("record", <<k>>)
      part == MCItem("part", <<>>)
      b1 == MCItem("block", <<1, 2>>)
      b2 == MCItem("block", <<3>>)
      bad == MCItem("bad", <<3>>)
      whole == <<rec(1), rec(2)>>
  IN {MCLog("b", <<>>), MCLog("b", whole), MCLog("b", Append(whole, part)),
      MCLog("z", <<b1, b2>>), MCLog("z", <<b1, part>>), MCLog("l", <<b1, bad>>),
      MCLog("l", <<b2>>), MCLog("y", whole),
      [fmt |-> "b", items |-> whole, readable |-> FALSE],
      [fmt |-> "z", items |-> <<b1>>, readable |-> FALSE]}

VARIABLE program

rttVars == <<tscVars, pairVars, gpioVars, ntpVars, convVars, agentVars, armVars, program>>

\* The programs that do not run stay in one initial state.
RttInit ==
  /\ program \in {"tsc", "pair", "gpio", "ntp", "converter", "agent", "barrier",
                  "armfreq"}
  /\ TscInit /\ (program # "tsc" => nonstop = FALSE /\ iteration = 1)
  /\ PairInit /\ (program # "pair" => mode = "sync")
  /\ GpioInit /\ (program # "gpio" => \A p \in Pins : pin[p] = 0)
  /\ NtpInit /\ (program # "ntp" => ~periodic /\ ntp_interval = 1 /\ ntp_iteration = 0
                                     /\ time = 0)
  /\ ConvInit /\ (program # "converter" =>
                     ~given /\ writable /\ original = [c \in Channels |-> MCLog("b", <<>>)])
  /\ AgentInit
  /\ ArmInit /\ (program # "armfreq" => ~infinite)

OnlyTsc(A) == /\ program = "tsc" /\ A
              /\ UNCHANGED <<pairVars, gpioVars, ntpVars, convVars, agentVars, armVars, program>>
OnlyPair(A) == /\ program = "pair" /\ A
               /\ UNCHANGED <<tscVars, gpioVars, ntpVars, convVars, agentVars, armVars, program>>
OnlyGpio(A) == /\ program = "gpio" /\ A
               /\ UNCHANGED <<tscVars, pairVars, ntpVars, convVars, agentVars, armVars, program>>
OnlyNtp(A) == /\ program = "ntp" /\ A
              /\ UNCHANGED <<tscVars, pairVars, gpioVars, convVars, agentVars, armVars, program>>
OnlyConv(A) == /\ program = "converter" /\ A
               /\ UNCHANGED <<tscVars, pairVars, gpioVars, ntpVars, agentVars, armVars, program>>
OnlyAgent(A) == /\ program = "agent" /\ A
                /\ UNCHANGED <<tscVars, pairVars, gpioVars, ntpVars, convVars, armVars, program>>

OnlyArm(A) == /\ program = "armfreq" /\ A
              /\ UNCHANGED <<tscVars, pairVars, gpioVars, ntpVars, convVars, agentVars,
                             program>>
OnlyBarrier(A) == /\ program = "barrier" /\ A
                  /\ UNCHANGED <<tscVars, pairVars, gpioVars, ntpVars, convVars,
                                 agentVars, armOnly, program>>

RttNext == \/ OnlyTsc(TscNext) \/ OnlyPair(PairNext) \/ OnlyGpio(GpioNext)
           \/ OnlyNtp(NtpNext) \/ OnlyConv(ConvNext) \/ OnlyAgent(AgentNext)
           \/ OnlyArm(ArmNext) \/ OnlyBarrier(BarrierNext)

\* The fairness of the specifications: the scheduler runs every process and every
\* thread, and the clock ntplogd reads advances.
RttSpec ==
  /\ RttInit /\ [][RttNext]_rttVars
  /\ WF_rttVars(OnlyTsc(MasterStep))
  /\ \A s \in Slaves : WF_rttVars(OnlyTsc(SlaveStep(s)))
  /\ WF_rttVars(OnlyPair(Slave1)) /\ WF_rttVars(OnlyPair(RecvThread))
  /\ WF_rttVars(OnlyPair(Slave2))
  /\ WF_rttVars(OnlyGpio(GpioServer)) /\ WF_rttVars(OnlyGpio(GpioClient))
  /\ WF_rttVars(OnlyNtp(NtpStep)) /\ WF_rttVars(OnlyNtp(NtpTick))
  /\ WF_rttVars(OnlyConv(ConvStep))
  /\ \A t \in BarrierThreads : WF_rttVars(OnlyArm(ArmThread(t)))

\* The line that is reported of a pair of hosts is the shortest of its round trips, and
\* there is one for every pair (tsc_master.cpp, tsc_slave.cpp, tsc_slave_1.cpp).
ShortestKept == EveryPairReported /\ ShortestReported /\ ShortestPrinted

\* Nobody waits for ever for another thread, process or board: a logTS over GPIO
\* returns, and each program ends, unless it was told to go on or cannot open what it
\* needs (gpiortt_handler.cpp, tsc_slave_1.cpp, core.cpp, btoa_converter.cpp,
\* clock_test.cpp).
ProgramsEnd ==
  /\ LogReturns
  /\ program = "pair" => PairEnds
  /\ NtpEnds
  /\ program = "converter" => ConverterEnds
  /\ program = "armfreq" => ArmEnds
=============================================================================
