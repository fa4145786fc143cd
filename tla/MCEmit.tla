------------------------------- MODULE MCEmit -------------------------------
(***************************************************************************)
(* The emitter for TLC: a behaviour either streams tuples from a generator *)
(* to a TCP channel, or fetches them over ZeroMQ channels.                  *)
(***************************************************************************)
EXTENDS TupleStream, ZmqChannel

VARIABLE part

mcEmitVars == <<streamVars, zmqVars, part>>

\* Pills are asked for with byte tuples always, and with string tuples in some
\* behaviours.
EmitInit ==
  /\ part \in {"stream", "zmq"}
  /\ StreamInit /\ ZmqInit
  /\ pill_dur \in IF source = "bytes" THEN {1} ELSE IF source = "str" THEN {0, 1} ELSE {0}
  /\ part # "stream" => source = "self" /\ slag = 0
  /\ part # "zmq" => \A c \in ZChannels : zkind[c] = "plain"

OnlyStream(A) == part = "stream" /\ A /\ UNCHANGED <<zmqVars, part>>
OnlyZmq(A) == part = "zmq" /\ A /\ UNCHANGED <<streamVars, part>>

EmitNext == OnlyStream(StreamNext) \/ OnlyZmq(ZmqNext)

\* The fairness of the two specifications.
EmitSpec ==
  /\ EmitInit /\ [][EmitNext]_mcEmitVars
  /\ WF_mcEmitVars(OnlyStream(Tick)) /\ WF_mcEmitVars(OnlyStream(Load))
  /\ WF_mcEmitVars(OnlyStream(mt_recvStr))
  /\ \A t \in Threads : /\ WF_mcEmitVars(OnlyStream(EmitThread(t)))
                        /\ WF_mcEmitVars(OnlyStream(ClientThread(t)))
  /\ WF_mcEmitVars(OnlyZmq(process = "up" /\ TimerThread))
  /\ \A c \in ZChannels : WF_mcEmitVars(OnlyZmq(process = "up" /\ Fetch(c)))

\* An application that keeps calling recvStr gets every tuple of every thread
\* (mt_recvStr moves on to the next queue after a failed read too), and one that fetches
\* a bucket gets it, tuples or not (emit.cpp, cloud_profiler.i).
FetchersServed == (part = "stream" => AllReturned) /\ FetchReturns
=============================================================================
