----------------------------- MODULE TscSession -----------------------------
(***************************************************************************)
(* Round-trip times between all pairs of hosts: one tsc_master and its     *)
(* tsc_slaves (tsc/tsc_master.cpp, tsc/tsc_slave.cpp).                      *)
(*                                                                         *)
(* A session: the slaves register, the master gives each a command port,   *)
(* asks the slaves of every ordered pair to measure, collects the results  *)
(* and tells every slave that the session is finished, whereupon it        *)
(* registers again.  ZeroMQ is external: a message to an endpoint waits at *)
(* the sender until somebody binds it, and what a socket has not handed to *)
(* its program is gone when the socket is closed.  Identities drawn at     *)
(* random are taken to differ.                                             *)
(***************************************************************************)
EXTENDS Naturals, Sequences, FiniteSets, SequencesExt, FiniteSetsExt

CONSTANTS
  Slaves,       \* slave programs
  Hosts,        \* IP addresses
  HostOf,       \* the host each slave runs on
  nr_slaves,    \* option -n of the master
  FirstPort,    \* tsc_command_default_port
  Samples,      \* what a round trip can measure: its cycles and nanoseconds
  UserIter,     \* option -m: iterations per measurement
  DefaultIter,  \* the 100 iterations of the last sessions
  LastSessions, \* the 6 below which they are used
  UINT,         \* number of values of a uint32_t
  MaxSessions   \* bound: sessions of one behaviour

ASSUME TscAssumption ==
  /\ HostOf \in [Slaves -> Hosts]
  /\ Samples \subseteq [cyc : Nat, ns : Nat]
  /\ nr_slaves \in Nat /\ FirstPort \in Nat \ {0}
  /\ UserIter \in Nat \ {0} /\ DefaultIter \in Nat \ {0}
  /\ LastSessions \in Nat /\ UINT \in Nat \ {0} /\ MaxSessions \in Nat

VARIABLES
  mpc, iteration, nonstop, nr_iterpm, \* master: place, and its options
  slaves,         \* registered endpoints, in the order of registration
  pairs, pair,    \* pairs still to measure, and the current one
  waiting,        \* endpoints that owe the master an answer
  results,        \* measResultList
  report,         \* the minrtt log of the last session
  spc, port, RTTs,\* slaves: place, command port, round trips measured
  asked,          \* the request a slave works on
  regreq, router, accept, \* registration: requests on their way, arrived, answers
  cmd, res,       \* command sockets: request and answer by endpoint
  ping, pong,     \* measurement: requests by host, replies by slave
  wanted, held    \* history: sessions asked for, and held

masterVars == <<mpc, iteration, nonstop, nr_iterpm, slaves, pairs, pair, waiting,
           results, report>>
slaveVars == <<spc, port, RTTs, asked>>
netVars  == <<regreq, router, accept, cmd, res, ping, pong>>
tscVars == <<masterVars, slaveVars, netVars, wanted, held>>

Nothing == [kind |-> "none"]

\* The command to measure: which slave sends, to which, and how often.
MSG_measure_req(from, to, iter) ==
  [kind |-> "measure", from |-> from, to |-> to, iter |-> iter]

\* The answer to it; the round trip is the sender's.
MSG_measure_result(from, to, sends, sample) ==
  [kind |-> "result", from |-> from, to |-> to, sender |-> sends, sample |-> sample]

Ports == FirstPort .. FirstPort + Cardinality(Slaves) - 1
Endpoints == Hosts \X Ports

\* The address a slave compares with those of a request.
self(s) == <<HostOf[s], port[s]>>

\* main of a slave.
SlaveInit ==
  /\ spc = [s \in Slaves |-> "register"] /\ port = [s \in Slaves |-> 0]
  /\ RTTs = [s \in Slaves |-> <<>>] /\ asked = [s \in Slaves |-> Nothing]

\* main: without --periodic one session unless -i says otherwise; periodic
\* without -i runs for ever.
TscInit ==
  /\ \E periodic \in BOOLEAN, i \in 0 .. MaxSessions :
       /\ nonstop = (periodic /\ i = 0)
       /\ iteration = IF ~periodic /\ i = 0 THEN 1 ELSE i
       /\ wanted = IF i = 0 THEN 1 ELSE i
  /\ mpc = "start" /\ nr_iterpm = UserIter /\ held = 0
  /\ slaves = <<>> /\ pairs = {} /\ pair = Nothing /\ waiting = {}
  /\ results = {} /\ report = <<>>
  /\ SlaveInit
  /\ regreq = {} /\ router = <<>> /\ accept = [s \in Slaves |-> 0]
  /\ cmd = [e \in Endpoints |-> Nothing] /\ res = [e \in Endpoints |-> Nothing]
  /\ ping = [h \in Hosts |-> <<>>] /\ pong = [s \in Slaves |-> FALSE]

-----------------------------------------------------------------------------
(* The master. *)

checkTerminate == ~nonstop /\ iteration = 0

\* A new turn of main's loop: the registration socket is bound.
StartSession ==
  /\ mpc = "start" /\ ~checkTerminate
  /\ held < MaxSessions
  /\ mpc' = "registration"
  /\ slaves' = <<>> /\ report' = <<>>
  /\ UNCHANGED <<iteration, nonstop, nr_iterpm, pairs, pair, waiting, results,
                 slaveVars, netVars, wanted, held>>

MasterEnds ==
  /\ mpc = "start" /\ checkTerminate
  /\ mpc' = "done"
  /\ UNCHANGED <<iteration, nonstop, nr_iterpm, slaves, pairs, pair, waiting,
                 results, report, slaveVars, netVars, wanted, held>>

\* The lowest port, from the first, that no slave of this host has.
availablePort(h) == Min({p \in Ports : ~Contains(slaves, <<h, p>>)})

\* One turn of the loop of slave_registration.
slave_registration ==
  /\ mpc = "registration" /\ Len(slaves) < nr_slaves
  /\ router # <<>>
  /\ LET s == Head(router)
         p == availablePort(HostOf[s])
     IN /\ accept' = [accept EXCEPT ![s] = p]
        /\ slaves' = Append(slaves, <<HostOf[s], p>>)
  /\ router' = Tail(router)
  /\ UNCHANGED <<mpc, iteration, nonstop, nr_iterpm, pairs, pair, waiting,
                 results, report, slaveVars, regreq, cmd, res, ping, pong, wanted, held>>

\* Variant: no way back.
pairs_once == {<<slaves[i], slaves[j]>> : i \in {1}, j \in DOMAIN slaves \ {1}}

\* Every ordered pair of slaves.
all_pairs == {p \in Range(slaves) \X Range(slaves) : p[1] # p[2]}

\* The registration socket closes, and the pairs to measure are listed.
ListPairs ==
  /\ mpc = "registration" /\ Len(slaves) >= nr_slaves
  /\ router' = <<>>
  /\ pairs' = all_pairs
  /\ mpc' = "request"
  /\ UNCHANGED <<iteration, nonstop, nr_iterpm, slaves, pair, waiting, results,
                 report, slaveVars, regreq, accept, cmd, res, ping, pong, wanted, held>>

\* The order of the pairs is that of a hash map.
request_measurement ==
  /\ mpc = "request"
  /\ \E p \in pairs :
       /\ pairs' = pairs \ {p}
       /\ pair' = [kind |-> "pair", from |-> p[1], to |-> p[2]]
       /\ waiting' = {p[1], p[2]}
       /\ cmd' = [e \in Endpoints |->
                    IF e \in {p[1], p[2]}
                    THEN MSG_measure_req(p[1], p[2], nr_iterpm)
                    ELSE cmd[e]]
  /\ mpc' = "collect"
  /\ UNCHANGED <<iteration, nonstop, nr_iterpm, slaves, results, report, slaveVars,
                 regreq, router, accept, res, ping, pong, wanted, held>>

\* Variant: the next pair is asked after the first of the two answers.
firstAnswered(e) == e \in waiting

\* Both slaves of the pair have answered when e does.
bothAnswered(e) == waiting = {e}

\* A result of one of the two slaves; the receiving one has none to add.
CollectResult(e) ==
  /\ mpc = "collect" /\ res[e].kind = "result"
  /\ res' = [res EXCEPT ![e] = Nothing]
  /\ waiting' = waiting \ {e}
  /\ results' = IF res[e].sender
                THEN results \cup {[from |-> res[e].from, to |-> res[e].to,
                                    rtt |-> res[e].sample.ns,
                                    cyc |-> res[e].sample.cyc]}
                ELSE results
  /\ mpc' = IF bothAnswered(e) THEN "request" ELSE mpc
  /\ UNCHANGED <<iteration, nonstop, nr_iterpm, slaves, pairs, pair, report, slaveVars,
                 regreq, router, accept, cmd, ping, pong, wanted, held>>

\* One slave after the other is told and answers.
SendFinish ==
  /\ mpc = "request" /\ pairs = {} /\ slaves # <<>>
  /\ \E i \in DOMAIN slaves :
       /\ slaves' = RemoveAt(slaves, i)
       /\ cmd' = [cmd EXCEPT ![slaves[i]] = [kind |-> "finish"]]
       /\ waiting' = {slaves[i]}
  /\ mpc' = "finish"
  /\ UNCHANGED <<iteration, nonstop, nr_iterpm, pairs, pair, results, report, slaveVars,
                 regreq, router, accept, res, ping, pong, wanted, held>>

RecvFinished(e) ==
  /\ mpc = "finish" /\ res[e].kind # "none" /\ e \in waiting
  /\ res' = [res EXCEPT ![e] = Nothing]
  /\ waiting' = {}
  /\ mpc' = "request"
  /\ UNCHANGED <<iteration, nonstop, nr_iterpm, slaves, pairs, pair, results, report,
                 slaveVars, regreq, router, accept, cmd, ping, pong, wanted, held>>

\* Variant: the number of sessions left is not counted down.
undecremented(n) == n

\* uint32_t arithmetic.
decrement(n) == (n + UINT - 1) % UINT

\* The results are sorted by round-trip time and written; the session ends.
EndSession ==
  /\ mpc = "request" /\ pairs = {} /\ slaves = <<>>
  /\ report' = SetToSortSeq(results, LAMBDA a, b : a.rtt < b.rtt)
  /\ results' = {}
  /\ iteration' = decrement(iteration)
  /\ nr_iterpm' = IF iteration' <= LastSessions THEN DefaultIter ELSE nr_iterpm
  /\ mpc' = "sleep"
  /\ held' = held + 1
  /\ pair' = Nothing
  /\ UNCHANGED <<nonstop, slaves, pairs, waiting, slaveVars, netVars, wanted>>

\* The time of the interval is over.
BudgetEnd ==
  /\ mpc = "sleep"
  /\ mpc' = "start"
  /\ UNCHANGED <<iteration, nonstop, nr_iterpm, slaves, pairs, pair, waiting,
                 results, report, slaveVars, netVars, wanted, held>>

-----------------------------------------------------------------------------
(* A slave. *)

register_to_master(s) ==
  /\ spc[s] = "register"
  /\ regreq' = regreq \cup {s}
  /\ spc' = [spc EXCEPT ![s] = "accept"]
  /\ UNCHANGED <<masterVars, port, RTTs, asked, router, accept, cmd, res, ping, pong,
                 wanted, held>>

\* External: the request reaches the master's socket.
Arrive(s) ==
  /\ s \in regreq /\ mpc = "registration"
  /\ regreq' = regreq \ {s}
  /\ router' = Append(router, s)
  /\ UNCHANGED <<masterVars, slaveVars, accept, cmd, res, ping, pong, wanted, held>>

\* The slave binds the port it was given.
Registered(s) ==
  /\ spc[s] = "accept" /\ accept[s] # 0
  /\ port' = [port EXCEPT ![s] = accept[s]]
  /\ accept' = [accept EXCEPT ![s] = 0]
  /\ spc' = [spc EXCEPT ![s] = "command"]
  /\ UNCHANGED <<masterVars, RTTs, asked, regreq, router, cmd, res, ping, pong, wanted, held>>

isServer(s, c) == c.from = self(s)

\* A command: to send (isServer), to receive, or to finish.
get_commands(s) ==
  LET e == self(s)
      c == cmd[e]
  IN /\ spc[s] = "command" /\ c # Nothing
     /\ cmd' = [cmd EXCEPT ![e] = Nothing]
     /\ IF c.kind = "finish"
        THEN /\ res' = [res EXCEPT ![e] = [kind |-> "finished"]]
             /\ spc' = [spc EXCEPT ![s] = "register"]
             /\ port' = [port EXCEPT ![s] = 0]
             /\ asked' = [asked EXCEPT ![s] = Nothing]
             /\ RTTs' = [RTTs EXCEPT ![s] = <<>>]
        ELSE /\ asked' = [asked EXCEPT ![s] = c]
             /\ RTTs' = [RTTs EXCEPT ![s] = <<>>]
             /\ spc' = [spc EXCEPT ![s] = IF isServer(s, c) THEN "send" ELSE "serve"]
             /\ UNCHANGED <<res, port>>
     /\ UNCHANGED <<masterVars, regreq, router, accept, ping, pong, wanted, held>>

\* measure_tsc_rtt, sending side: the request goes to the measurement port of
\* the other host.
SendPing(s) ==
  /\ spc[s] = "send" /\ Len(RTTs[s]) < asked[s].iter
  /\ ping' = [ping EXCEPT ![asked[s].to[1]] = Append(@, s)]
  /\ spc' = [spc EXCEPT ![s] = "recv"]
  /\ UNCHANGED <<masterVars, port, RTTs, asked, regreq, router, accept, cmd, res, pong,
                 wanted, held>>

RecvPong(s) ==
  /\ spc[s] = "recv" /\ pong[s]
  /\ pong' = [pong EXCEPT ![s] = FALSE]
  /\ \E t \in Samples : RTTs' = [RTTs EXCEPT ![s] = Append(@, t)]
  /\ spc' = [spc EXCEPT ![s] = "send"]
  /\ UNCHANGED <<masterVars, port, asked, regreq, router, accept, cmd, res, ping, wanted, held>>

\* The first round trip of those that took the fewest cycles.
minRTT(q) == q[Min({i \in DOMAIN q : \A j \in DOMAIN q : q[i].cyc <= q[j].cyc})]

\* What get_commands sends back after measure_tsc_rtt.
result(s, sends) ==
  MSG_measure_result(asked[s].from, asked[s].to, sends,
                     IF sends THEN minRTT(RTTs[s]) ELSE Nothing)

EndSending(s) ==
  /\ spc[s] = "send" /\ Len(RTTs[s]) = asked[s].iter
  /\ res' = [res EXCEPT ![self(s)] = result(s, TRUE)]
  /\ spc' = [spc EXCEPT ![s] = "command"]
  /\ UNCHANGED <<masterVars, port, RTTs, asked, regreq, router, accept, cmd, ping, pong,
                 wanted, held>>

served(s) == Len(RTTs[s]) = asked[s].iter

\* Receiving side: one turn of the loop that stamps and returns requests.
ServePing(s) ==
  /\ spc[s] = "serve" /\ ~served(s)
  /\ ping[HostOf[s]] # <<>>
  /\ ping' = [ping EXCEPT ![HostOf[s]] = Tail(@)]
  /\ pong' = [pong EXCEPT ![Head(ping[HostOf[s]])] = TRUE]
  /\ RTTs' = [RTTs EXCEPT ![s] = Append(@, Nothing)]
  /\ UNCHANGED <<masterVars, spc, port, asked, regreq, router, accept, cmd, res, wanted, held>>

EndServing(s) ==
  /\ spc[s] = "serve" /\ served(s)
  /\ res' = [res EXCEPT ![self(s)] = result(s, FALSE)]
  /\ spc' = [spc EXCEPT ![s] = "command"]
  /\ UNCHANGED <<masterVars, port, RTTs, asked, regreq, router, accept, cmd, ping, pong,
                 wanted, held>>

-----------------------------------------------------------------------------
MasterStep ==
  \/ MasterEnds \/ slave_registration \/ ListPairs \/ request_measurement
  \/ (\E e \in Endpoints : CollectResult(e) \/ RecvFinished(e))
  \/ SendFinish \/ EndSession \/ BudgetEnd \/ StartSession

SlaveStep(s) ==
  \/ register_to_master(s) \/ Arrive(s) \/ Registered(s) \/ get_commands(s)
  \/ SendPing(s) \/ RecvPong(s) \/ EndSending(s) \/ ServePing(s) \/ EndServing(s)

TscNext == MasterStep \/ \E s \in Slaves : SlaveStep(s)

TscFairness == WF_tscVars(MasterStep) /\ \A s \in Slaves : WF_tscVars(SlaveStep(s))
TscSpec == TscInit /\ [][TscNext]_tscVars /\ TscFairness

-----------------------------------------------------------------------------
\* All slaves of a host bind the same measurement port: two that receive at
\* the same time would fail in bind.
OneReceiver ==
  \A s, t \in Slaves :
    spc[s] = "serve" /\ spc[t] = "serve" /\ HostOf[s] = HostOf[t] => s = t

\* A request that waits at a host is from the sender of the pair that is being
\* measured: no slave stamps the request of an earlier or later pair.
OwnPing ==
  \A h \in Hosts : \A i \in DOMAIN ping[h] :
    /\ pair # Nothing /\ h = pair.to[1]
    /\ self(ping[h][i]) = pair.from

\* The log of a session has one line for each ordered pair of its slaves, the
\* shortest round trip first.
EveryPairReported ==
  mpc = "sleep" =>
    /\ Len(report) = nr_slaves * (nr_slaves - 1)
    /\ \A i, j \in DOMAIN report : i < j =>
         /\ <<report[i].from, report[i].to>> # <<report[j].from, report[j].to>>
         /\ report[i].rtt <= report[j].rtt

\* A result travelling to the master is one of the round trips its slave made,
\* and none took fewer cycles.
ShortestReported ==
  \A s \in {t \in Slaves : port[t] # 0} :
    LET r == res[self(s)]
    IN r.kind = "result" /\ r.sender =>
         /\ r.sample \in Range(RTTs[s]) /\ Len(RTTs[s]) = asked[s].iter
         /\ \A t \in Range(RTTs[s]) : r.sample.cyc <= t.cyc

\* What a slave measures is its own pair's: it never shares the port, and never stamps
\* another pair's request (tsc_slave.cpp, measure_tsc_rtt).
PairsKeptApart == OneReceiver /\ OwnPing

\* Every session that starts comes to its end.
SessionEnds == (mpc = "registration") ~> (mpc = "sleep")

\* The master ends, after exactly as many sessions as its options say.
HeldAsAsked == (mpc = "registration" /\ ~nonstop) ~> (mpc = "done" /\ held = wanted)

\* The master gets through every session; it holds those it was asked for and ends, and
\* never ends if it was asked to go on, although `iteration' is counted down below zero
\* then (tsc_master.cpp, main).
SessionsHeld == SessionEnds /\ HeldAsAsked /\ [](nonstop => mpc # "done")
=============================================================================
