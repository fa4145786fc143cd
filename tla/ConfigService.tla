--------------------------- MODULE ConfigService ---------------------------
(***************************************************************************)
(* The configuration server (config_server.cpp, parser.cpp,                 *)
(* fox_config_server.cpp), openChannel with NET_CONF as its client          *)
(* (channels.cpp, net_conf.cpp), and the fox channels it brings together:   *)
(* an end node sends each of its tuples to the start node and waits for the *)
(* echo (fox_end_handler.cpp), the start node's thread stamps it, echoes it *)
(* and logs it (fox_start_handler.cpp).  Each node opens one channel.       *)
(*                                                                         *)
(* A start node asks the server twice: first as every channel does, without *)
(* parameters, then with its address.  An address stands for its node.      *)
(***************************************************************************)
EXTENDS Integers, Sequences, FiniteSets

CONSTANTS
  Nodes,
  Fields,         \* what an entry is matched on: ch_name, ch_dotted_quad, ...
  Deployments,    \* which channel each node opens: Nodes -> [Fields -> values]
  AnyPattern,     \* the pattern ".*"
  conf_tables,    \* sequence of [table_name, entries]
  Options,        \* the --cnf options, NoOption among them
  NoOption,
  Parameters,     \* handler type -> the parameter counts its parm_handler_f takes
  FOX_END_RETRY,
  Identities,     \* what initFoxEndHandler may draw
  Unset,          \* an address nobody has stored
  MaxFoxTuples    \* bound: tuples a node logs, for each node

ASSUME ConfigAssumption ==
  /\ Unset \notin Nodes /\ NoOption \in Options
  /\ FOX_END_RETRY \in Nat /\ MaxFoxTuples \in [Nodes -> Nat]
  /\ \A d \in Deployments : DOMAIN d = Nodes /\ \A n \in Nodes : DOMAIN d[n] = Fields
  /\ \A t \in DOMAIN conf_tables : DOMAIN conf_tables[t].entries \subseteq Nat

VARIABLES
  server,         \* "off", "up", "failed" (no table), "ended"
  cnf, cf_tbl,    \* the option; index of the table served, 0 for none
  foxStartInfo,   \* [isSet, at]
  key,            \* the channel each node opens
  cpc,            \* the node's place in openChannel and logTS
  request, reply, \* messages between a node and the server; <<>> for none
  handler,        \* the handler type the node was told
  par,            \* [nr, at]: par[0], and the address in par[1..5]
  index,          \* retries of initFoxEndHandler
  logf_open,      \* is the channel's log file open
  receiver,       \* does a node run FoxStartReceiver
  stamped,        \* the tuple [from, tuple] it has echoed and not logged; or <<>>
  peer,           \* identity -> the end node the ROUTER socket knows by it
  identity,       \* the identity of each end node
  arrived,        \* tuples sent to the start node
  echoed,         \* echo on its way to an end node; <<>> for none
  foxTuple,       \* the tuple an end node logs
  startLog,       \* what the start node's log file holds: [from, tuple]
  endLog,         \* what an end node's holds: [tuple, echo]
  unlogged        \* history: tuples received while the log file was not open

serverVars == <<server, cnf, cf_tbl, foxStartInfo>>
openVars == <<key, cpc, request, reply, handler, par, index, logf_open>>
foxVars == <<receiver, stamped, peer, identity, arrived, echoed, foxTuple, startLog,
             endLog, unlogged>>
confVars == <<serverVars, openVars, foxVars>>

ConfInit ==
  /\ server = "off" /\ cnf \in Options /\ cf_tbl = 0
  /\ foxStartInfo = [isSet |-> FALSE, at |-> Unset]
  /\ key \in Deployments
  /\ cpc = [n \in Nodes |-> "closed"]
  /\ request = [n \in Nodes |-> <<>>] /\ reply = [n \in Nodes |-> <<>>]
  /\ handler = [n \in Nodes |-> "NET_CONF"]
  /\ par = [n \in Nodes |-> [nr |-> 0, at |-> Unset]]
  /\ index = [n \in Nodes |-> 0] /\ logf_open = [n \in Nodes |-> FALSE]
  /\ receiver = [n \in Nodes |-> FALSE] /\ stamped = [n \in Nodes |-> <<>>]
  /\ peer = [i \in Identities |-> Unset] /\ identity = [n \in Nodes |-> Unset]
  /\ arrived = {} /\ echoed = [n \in Nodes |-> <<>>]
  /\ foxTuple = [n \in Nodes |-> 0]
  /\ startLog = <<>> /\ endLog = [n \in Nodes |-> <<>>] /\ unlogged = {}

-----------------------------------------------------------------------------
(* The server: the table. *)

tablesNamed(s) == {t \in DOMAIN conf_tables : conf_tables[t].table_name = s}

\* setConfigTable and setDefaultConfigTable: the table of the name asked for, or
\* the first one; its name must be its own.
selected ==
  IF cnf = NoOption
  THEN IF conf_tables = <<>> THEN {} ELSE tablesNamed(conf_tables[1].table_name)
  ELSE tablesNamed(cnf)

ServerStart ==
  /\ server = "off"
  /\ IF Cardinality(selected) = 1
     THEN server' = "up" /\ cf_tbl' = CHOOSE t \in selected : TRUE
     ELSE server' = "failed" /\ cf_tbl' = 0
  /\ UNCHANGED <<cnf, foxStartInfo, openVars, foxVars>>

match(str, expr) == expr = AnyPattern \/ str = expr

matching(k) ==
  LET entries == conf_tables[cf_tbl].entries
  IN {e \in DOMAIN entries : \A f \in Fields : match(k[f], entries[e].pattern[f])}

\* The loop of lookupConfig leaves with the first entry that matches.
line(k) == CHOOSE e \in matching(k) : \A d \in matching(k) : e <= d

-----------------------------------------------------------------------------
(* The server: replies.  A reply is [err, h_type, nr, at].                  *)

Reply(err, h, nr, at) == [err |-> err, h_type |-> h, nr |-> nr, at |-> at]

\* Variant: the first request of a start node, without its address, sets isSet.
complete_always(req) == TRUE

complete(req) == req.nr = 5

taken == foxStartInfo.isSet

makeFoxStartReply(req, entry) ==
  IF taken
  THEN [out |-> Reply("ERR_FOX_MULTIPE_START_NODE", "FOX_START", 0, Unset),
        info |-> foxStartInfo]
  ELSE [out |-> Reply("ok", "FOX_START", entry.nr_parameters, Unset),
        info |-> [isSet |-> complete(req), at |-> req.at]]

makeFoxEndReply ==
  IF foxStartInfo.isSet THEN Reply("ok", "FOX_END", 5, foxStartInfo.at)
  ELSE Reply("ERR_FOX_START_NOT_SET", "FOX_END", 0, Unset)

\* lookupConfig: the reply, and foxStartInfo after it.
lookupConfig(n) ==
  LET k == key[n]
      entry == conf_tables[cf_tbl].entries[line(k)]
      keep(out) == [out |-> out, info |-> foxStartInfo]
  IN IF matching(k) = {} THEN keep(Reply("ERR_CONF_NOT_FOUND", "NULLH", 0, Unset))
     ELSE IF entry.h_type = "FOX_START" THEN makeFoxStartReply(request[n], entry)
     ELSE IF entry.h_type = "FOX_END" THEN keep(makeFoxEndReply)
     ELSE keep(Reply("ok", entry.h_type, entry.nr_parameters, Unset))

\* One pass of the loop in main: one request, its reply; a second start node ends
\* the server.
Serve(n) ==
  /\ server = "up" /\ request[n] # <<>>
  /\ LET found == lookupConfig(n)
     IN /\ foxStartInfo' = found.info
        /\ reply' = [reply EXCEPT ![n] = found.out]
        /\ server' = IF found.out.err = "ERR_FOX_MULTIPE_START_NODE" THEN "ended"
                     ELSE server
  /\ request' = [request EXCEPT ![n] = <<>>]
  /\ UNCHANGED <<cnf, cf_tbl, key, cpc, handler, par, index, logf_open, foxVars>>

-----------------------------------------------------------------------------
(* openChannel with NET_CONF. *)

cgoto(n, l) == cpc' = [cpc EXCEPT ![n] = l]

\* getConfigFromServer up to its receive: par goes out with the request.
Ask(n, p, l) ==
  /\ par' = [par EXCEPT ![n] = p]
  /\ request' = [request EXCEPT ![n] = p]
  /\ cgoto(n, l)

openChannelNet(n) ==
  /\ cpc[n] = "closed"
  /\ Ask(n, [nr |-> 0, at |-> Unset], "asked")
  /\ UNCHANGED <<serverVars, key, reply, handler, index, logf_open, foxVars>>

\* getConfigFromServer from its receive on: whether it returns true, and what it
\* leaves in *h and *par.
answered(n) == reply[n].err \in {"ok", "ERR_FOX_START_NOT_SET"}
newHandler(n) == IF answered(n) THEN reply[n].h_type ELSE handler[n]
newPar(n) == IF reply[n].err = "ok" THEN [nr |-> reply[n].nr, at |-> reply[n].at]
             ELSE par[n]

\* Variant: the loop does not count its passes.
retried_uncounted(n) == index[n]

retried(n) == index[n] + 1
exhausted(n) == index[n] = FOX_END_RETRY

\* Where openChannel goes after the first reply: the initialisation of the handler.
initHandler(n) ==
  LET h == newHandler(n) p == newPar(n)
  IN IF ~answered(n) THEN "defect"
     ELSE IF h = "FOX_START" THEN "initFoxStart"
     ELSE IF h # "FOX_END" THEN "init"
     ELSE IF p.nr = 0 /\ ~exhausted(n) THEN "retry" ELSE "connect"

Received(n) ==
  /\ cpc[n] = "asked" /\ reply[n] # <<>>
  /\ reply' = [reply EXCEPT ![n] = <<>>]
  /\ handler' = [handler EXCEPT ![n] = newHandler(n)]
  /\ par' = [par EXCEPT ![n] = newPar(n)]
  /\ cgoto(n, initHandler(n))
  /\ UNCHANGED <<serverVars, key, request, index, logf_open, foxVars>>

\* initFoxStartHandler: the node's address goes to the server.
initFoxStart(n) ==
  /\ cpc[n] = "initFoxStart"
  /\ Ask(n, [nr |-> 5, at |-> n], "registered")
  /\ UNCHANGED <<serverVars, key, reply, handler, index, logf_open, foxVars>>

\* ... and with the reply the receiver thread starts; without it the channel is a
\* defect one, whose openChannel returns false.
FoxStartThread(n) ==
  /\ cpc[n] = "registered" /\ reply[n] # <<>>
  /\ reply' = [reply EXCEPT ![n] = <<>>]
  /\ par' = [par EXCEPT ![n] = newPar(n)]
  /\ IF answered(n)
     THEN receiver' = [receiver EXCEPT ![n] = TRUE] /\ cgoto(n, "init")
     ELSE cgoto(n, "defect") /\ UNCHANGED receiver
  /\ UNCHANGED <<serverVars, key, request, handler, index, logf_open, stamped, peer,
                 identity, arrived, echoed, foxTuple, startLog, endLog, unlogged>>

\* The loop of initFoxEndHandler: sleep and ask again.
Retry(n) ==
  /\ cpc[n] = "retry"
  /\ Ask(n, par[n], "asked")
  /\ index' = [index EXCEPT ![n] = retried(n)]
  /\ UNCHANGED <<serverVars, key, reply, handler, logf_open, foxVars>>

\* initFoxEndHandler after its loop: the socket is connected to whatever par holds,
\* under an identity drawn at random.  A ROUTER knows a peer by its identity and
\* ignores a second one of the same.
Connect(n) ==
  /\ cpc[n] = "connect"
  /\ \E i \in Identities :
       /\ identity' = [identity EXCEPT ![n] = i]
       /\ peer' = IF par[n].at # Unset /\ peer[i] = Unset THEN [peer EXCEPT ![i] = n]
                  ELSE peer
  /\ cgoto(n, "init")
  /\ UNCHANGED <<serverVars, key, request, reply, handler, par, index, logf_open,
                 receiver, stamped, arrived, echoed, foxTuple, startLog, endLog,
                 unlogged>>

\* The rest of openChannel: the log file, which may fail to open; then the handler
\* takes the parameters, if there are any.
OpenLog(n) ==
  /\ cpc[n] = "init"
  /\ \E opened \in BOOLEAN :
       /\ logf_open' = [logf_open EXCEPT ![n] = opened]
       /\ cgoto(n, IF opened /\ (par[n].nr > 0 => par[n].nr \in Parameters[handler[n]])
                   THEN "open" ELSE "defect")
  /\ UNCHANGED <<serverVars, key, request, reply, handler, par, index, foxVars>>

-----------------------------------------------------------------------------
(* The fox handlers. *)

\* FoxEndHandler up to its receive.
FoxEndSend(n) ==
  /\ cpc[n] = "open" /\ handler[n] = "FOX_END" /\ foxTuple[n] < MaxFoxTuples[n]
  /\ foxTuple' = [foxTuple EXCEPT ![n] = @ + 1]
  /\ arrived' = arrived \cup {[from |-> n, tuple |-> foxTuple'[n]]}
  /\ cgoto(n, "echo")
  /\ UNCHANGED <<serverVars, key, request, reply, handler, par, index, logf_open,
                 receiver, stamped, peer, identity, echoed, startLog, endLog, unlogged>>

\* Variant: the echo is sent without the identity that came with the tuple.
echoTo_any(m, n) == cpc[n] = "echo"

echoTo(m, n) == n = m.from

listening(s) == receiver[s]

\* FoxStartReceiver: receive, stamp, echo.
FoxEcho(s) ==
  /\ listening(s) /\ stamped[s] = <<>>
  /\ \E m \in arrived, n \in Nodes :
       /\ par[m.from].at = s /\ peer[identity[m.from]] = m.from
       /\ echoTo(m, n)
       /\ arrived' = arrived \ {m}
       /\ stamped' = [stamped EXCEPT ![s] = m]
       /\ echoed' = [echoed EXCEPT ![n] = m]
  /\ UNCHANGED <<serverVars, openVars, receiver, peer, identity, foxTuple, startLog,
                 endLog, unlogged>>

records(m) == <<m>>

\* ... and log.  What is written to a stream that is not open is lost.
FoxStartLog(s) ==
  /\ stamped[s] # <<>>
  /\ stamped' = [stamped EXCEPT ![s] = <<>>]
  /\ IF logf_open[s]
     THEN startLog' = startLog \o records(stamped[s]) /\ UNCHANGED unlogged
     ELSE unlogged' = unlogged \cup {stamped[s]} /\ UNCHANGED startLog
  /\ UNCHANGED <<serverVars, openVars, receiver, peer, identity, arrived, echoed,
                 foxTuple, endLog>>

\* FoxStartHandler: a tuple the start node's own application logs.
FoxStartHandler(s) ==
  /\ cpc[s] = "open" /\ handler[s] = "FOX_START" /\ foxTuple[s] < MaxFoxTuples[s]
  /\ foxTuple' = [foxTuple EXCEPT ![s] = @ + 1]
  /\ startLog' = Append(startLog, [from |-> s, tuple |-> foxTuple'[s]])
  /\ UNCHANGED <<serverVars, openVars, receiver, stamped, peer, identity, arrived,
                 echoed, endLog, unlogged>>

\* closeChannel on the start node: the file closes, its thread goes on.
FoxStartClose(s) ==
  /\ cpc[s] = "open" /\ handler[s] = "FOX_START"
  /\ logf_open' = [logf_open EXCEPT ![s] = FALSE]
  /\ cgoto(s, "shut")
  /\ UNCHANGED <<serverVars, key, request, reply, handler, par, index, foxVars>>

\* FoxEndHandler from its receive on.
FoxEndLog(n) ==
  /\ cpc[n] = "echo" /\ echoed[n] # <<>>
  /\ endLog' = [endLog EXCEPT ![n] =
                  Append(@, [tuple |-> foxTuple[n], echo |-> echoed[n]])]
  /\ echoed' = [echoed EXCEPT ![n] = <<>>]
  /\ cgoto(n, "open")
  /\ UNCHANGED <<serverVars, key, request, reply, handler, par, index, logf_open,
                 receiver, stamped, peer, identity, arrived, foxTuple, startLog,
                 unlogged>>

-----------------------------------------------------------------------------
ServerStep == ServerStart \/ \E n \in Nodes : Serve(n)

Opening(n) ==
  \/ openChannelNet(n) \/ Received(n) \/ initFoxStart(n) \/ FoxStartThread(n)
  \/ Retry(n) \/ Connect(n) \/ OpenLog(n)

ReceiverStep(s) == FoxEcho(s) \/ FoxStartLog(s)

ConfNext ==
  \/ ServerStep
  \/ \E n \in Nodes : \/ Opening(n) \/ FoxEndSend(n) \/ FoxEndLog(n)
                      \/ FoxStartHandler(n) \/ FoxStartClose(n) \/ ReceiverStep(n)

\* The server, the receiver thread, and a thread inside openChannel or
\* FoxEndHandler go on; whether the application logs another tuple is its choice.
ConfSpec ==
  /\ ConfInit /\ [][ConfNext]_confVars
  /\ WF_confVars(ServerStep)
  /\ \A n \in Nodes : /\ WF_confVars(Opening(n)) /\ WF_confVars(FoxEndLog(n))
                      /\ WF_confVars(ReceiverStep(n))

-----------------------------------------------------------------------------
\* At most one node receives tuples, though a start node makes two requests and
\* those of two nodes may alternate (fox_config_server.cpp, makeFoxStartReply).
OneStartNode == Cardinality({n \in Nodes : receiver[n]}) <= 1

\* The address the server hands to an end node is that of a node that has registered
\* as the start node; the request a start node makes before it knows its address
\* must not be taken for it (fox_config_server.cpp, makeFoxEndReply).
EndAddress ==
  \A n \in Nodes :
    handler[n] = "FOX_END" /\ par[n].nr = 5 =>
      /\ par[n].at \in Nodes /\ handler[par[n].at] = "FOX_START"
      /\ receiver[par[n].at] \/ cpc[par[n].at] = "registered"

\* A channel that is not a fox channel is configured by an entry that matches and
\* no entry before it does (parser.cpp, lookupConfig).
FirstEntryWins ==
  \A n \in Nodes :
    cpc[n] = "open" /\ handler[n] \notin {"FOX_START", "FOX_END"} =>
      \E e \in matching(key[n]) :
        LET entry == conf_tables[cf_tbl].entries[e]
        IN /\ \A d \in 1 .. e - 1 : d \notin matching(key[n])
           /\ entry.h_type = handler[n] /\ entry.nr_parameters = par[n].nr

\* What openChannel gets from the server is what the table and the nodes that
\* registered before say, however requests interleave (parser.cpp,
\* fox_config_server.cpp).
ConfiguredRight == FirstEntryWins /\ OneStartNode /\ EndAddress

\* The round trip an end node logs for a tuple is that tuple's, although it never
\* looks at what comes back (fox_end_handler.cpp, FoxEndHandler).
EchoOwn ==
  \A n \in Nodes : \A i \in DOMAIN endLog[n] :
    endLog[n][i].echo = [from |-> n, tuple |-> endLog[n][i].tuple]

\* Every round trip an end node has logged is in the start node's log exactly once,
\* unless the thread is about to write it or received it before openChannel had
\* opened the file or after closeChannel (fox_start_handler.cpp, FoxStartReceiver).
RoundTripsLogged ==
  \A n \in Nodes : \A i \in DOMAIN endLog[n] :
    LET m == [from |-> n, tuple |-> endLog[n][i].tuple]
        places == {j \in DOMAIN startLog : startLog[j] = m}
    IN IF m \in unlogged \/ \E s \in Nodes : stamped[s] = m THEN places = {}
       ELSE Cardinality(places) = 1

\* The two logs of a round trip tell of the same tuple, once each (fox_end_handler.cpp,
\* fox_start_handler.cpp).
LogsAgree == EchoOwn /\ RoundTripsLogged

\* logTS on an end node returns, if the node has the start node's address and its
\* identity to itself (fox_end_handler.cpp, FoxEndHandler).
FoxLogReturns ==
  \A n \in Nodes :
    (cpc[n] = "echo" /\ par[n].at # Unset /\ peer[identity[n]] = n) ~> (cpc[n] = "open")
=============================================================================
