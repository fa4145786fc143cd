------------------------------- MODULE MCApi -------------------------------
(***************************************************************************)
(* Opening channels, for TLC: the configuration service with the fox        *)
(* channels, the registry of a process's channels, and its status log.  A   *)
(* behaviour is one of them at work and leaves the variables of the others  *)
(* alone.                                                                   *)
(***************************************************************************)
EXTENDS ConfigService, ChannelRegistry, StatusLog, TLC

CONSTANTS n1, n2, n3, t1, t2, l1, l2

K(s) == [ch_name |-> s]
E(s, h, nr) == [pattern |-> K(s), h_type |-> h, nr_parameters |-> nr]

\* Two start nodes; two end nodes; an end node without a start node, a channel with
\* two entries, and one with none.
MCDeployments ==
  LET D(a, b, c) == n1 :> K(a) @@ n2 :> K(b) @@ n3 :> K(c)
  IN {D("fox_start", "fox_start", "fox_end"), D("fox_start", "fox_end", "fox_end"),
      D("fox_end", "downsample", "nothing")}

\* The second table's name is not its own.
MCTables ==
  << [table_name |-> "t0",
      entries |-> << E("fox_start", "FOX_START", 0), E("fox_end", "FOX_END", 5),
                     E("downsample", "DOWNSAMPLE", 1), E("downsample", "DOWNSAMPLE", 2),
                     E("downsample", "IDENTITY", 0) >>],
     [table_name |-> "t1", entries |-> << E(".*", "NULLH", 0) >>],
     [table_name |-> "t1", entries |-> << >>] >>

\* Two tuples in a row on one end node are enough to take one echo for another.
MCTuples == n1 :> 1 @@ n2 :> 2 @@ n3 :> 1

MCParameters == [DOWNSAMPLE |-> {1}, IDENTITY |-> {}, FOX_START |-> {}, FOX_END |-> {5}]

VARIABLE part

apiVars == <<confVars, regVars, logVars, part>>

ApiInit ==
  /\ part \in {"config", "registry", "log"}
  /\ ConfInit /\ RegInit /\ LogInit
  /\ part # "config" => cnf = NoOption /\ key[n1] = K("fox_end")

OnlyConf(A) == part = "config" /\ A /\ UNCHANGED <<regVars, logVars, part>>
OnlyReg(A) == part = "registry" /\ A /\ UNCHANGED <<confVars, logVars, part>>
OnlyLog(A) == part = "log" /\ A /\ UNCHANGED <<confVars, regVars, part>>

ApiNext == OnlyConf(ConfNext) \/ OnlyReg(RegNext) \/ OnlyLog(LogNext)

\* The fairness of the specifications.
ApiSpec ==
  /\ ApiInit /\ [][ApiNext]_apiVars
  /\ WF_apiVars(OnlyConf(ServerStep))
  /\ \A n \in Nodes : /\ WF_apiVars(OnlyConf(Opening(n)))
                      /\ WF_apiVars(OnlyConf(FoxEndLog(n)))
                      /\ WF_apiVars(OnlyConf(ReceiverStep(n)))
  /\ \A t \in Threads : SF_apiVars(OnlyReg(RegStep(t)))

\* openChannel returns, with an open or a defect channel, unless the server never
\* serves or a second start node has ended it (channels.cpp, openChannel).
NetOpenReturns ==
  <>(\/ \A n \in Nodes : cpc[n] \in {"open", "echo", "shut", "defect"}
     \/ server \in {"failed", "ended"} \/ part # "config")

\* No node is stuck in a call: openChannel over the server and logTS over the other
\* node return (channels.cpp, fox_end_handler.cpp).
NodesServed == NetOpenReturns /\ FoxLogReturns
=============================================================================
