------------------------------ MODULE TscPair ------------------------------
(***************************************************************************)
(* Round-trip times between two hosts without a master: tsc_slave_1 sends  *)
(* stamped messages and tsc_slave_2 returns them (tsc/tsc_slave_1.cpp,     *)
(* tsc/tsc_slave_2.cpp).  Both programs are started in the same mode:      *)
(*   sync    REQ/REP, one message at a time, and a last one that says stop; *)
(*   async   DEALER/ROUTER from one thread, in bulks or fail-fast;          *)
(*   multi   a sending and a receiving thread with a socket each.           *)
(* One clock serves both hosts.  Messages keep their order (ZeroMQ).        *)
(***************************************************************************)
EXTENDS Integers, Sequences, FiniteSets, SequencesExt, FiniteSetsExt

CONSTANTS
  NrIter,   \* option -i: messages to send
  Bulks,    \* values of --b_size; -1 is the default, fail-fast
  MaxClock  \* bound: last value of the clock

ASSUME PairAssumption == NrIter \in Nat \ {0} /\ Bulks \subseteq Int /\ MaxClock \in Nat

VARIABLES
  mode, bulk_sz, tsc,  \* the options
  clock,
  pc1, pc1r, pc2,      \* slave 1 (its sending thread), its receiving thread, slave 2
  sent_ctr, recv_ctr,
  to_send, to_recv,    \* what is left of the bulk, to send and to receive
  req, rep,            \* messages on their way there and back
  min_nsec, min_reply, \* what slave 1 will print
  samples              \* history: every round trip, with the stamp of its reply

pairVars == <<mode, bulk_sz, tsc, clock, pc1, pc1r, pc2, sent_ctr, recv_ctr, to_send,
              to_recv, req, rep, min_nsec, min_reply, samples>>
options == <<mode, bulk_sz, tsc>>
counters == <<sent_ctr, recv_ctr, to_send, to_recv>>
minima == <<min_nsec, min_reply, samples>>

LLONG_MAX == MaxClock + 1
Unstamped == -1    \* TSC_msg::reply_cyc as it happened to be

\* main of slave 2: it binds its socket and answers, with a stamp if -t is given.
Slave2Init ==
  /\ tsc \in BOOLEAN /\ (mode = "sync" => ~tsc)
  /\ pc2 = (IF mode = "multi" THEN "open" ELSE "recv") /\ req = <<>> /\ rep = <<>>

\* main of slave 1: it connects and starts sending.
Slave1Init ==
  /\ bulk_sz \in Bulks /\ (mode = "sync" => bulk_sz = -1)
  /\ pc1 = IF mode = "sync" THEN "loop" ELSE "open"
  /\ pc1r = IF mode = "multi" THEN "recv" ELSE "none"
  /\ sent_ctr = 0 /\ recv_ctr = 0 /\ to_send = 0 /\ to_recv = 0
  /\ min_nsec = LLONG_MAX /\ min_reply = 0 /\ samples = {}

PairInit ==
  /\ mode \in {"sync", "async", "multi"} /\ clock = 1
  /\ Slave1Init /\ Slave2Init

fail_fast == bulk_sz = -1

Tick == /\ clock < MaxClock
        /\ clock' = clock + 1
        /\ UNCHANGED <<options, pc1, pc1r, pc2, counters, req, rep, minima>>

-----------------------------------------------------------------------------
(* Slave 1. *)

\* The threads of slave 1 need an identity for their DEALER socket; without random
\* numbers the process exits (async_send_and_recv, async_send).
async_open ==
  /\ pc1 = "open"
  /\ \/ pc1' = "loop" /\ UNCHANGED pc1r
     \/ pc1' = "failed" /\ pc1r' = "none"
  /\ UNCHANGED <<options, clock, pc2, counters, req, rep, minima>>

stamped == [start |-> clock, reply |-> Unstamped]

shorter(nsec) == nsec < min_nsec

\* The shortest round trip so far and the stamp of its reply.
observe(m) ==
  LET cur_nsec == clock - m.start
  IN /\ samples' = samples \cup {<<cur_nsec, m.start, m.reply>>}
     /\ min_nsec' = IF shorter(cur_nsec) THEN cur_nsec ELSE min_nsec
     /\ min_reply' = IF shorter(cur_nsec) THEN m.reply ELSE min_reply

\* do_bulk_sync_send_and_recv: send, wait for the reply, and after the last one
\* tell slave 2 to stop (a start time of 0).
SyncSend ==
  /\ mode = "sync" /\ pc1 = "loop"
  /\ req' = Append(req, IF sent_ctr < NrIter THEN stamped
                        ELSE [start |-> 0, reply |-> Unstamped])
  /\ sent_ctr' = IF sent_ctr < NrIter THEN sent_ctr + 1 ELSE sent_ctr
  /\ pc1' = IF sent_ctr < NrIter THEN "recv" ELSE "done"
  /\ UNCHANGED <<options, clock, pc1r, pc2, recv_ctr, to_send, to_recv, rep, minima>>

SyncRecv ==
  /\ mode = "sync" /\ pc1 = "recv" /\ rep # <<>>
  /\ observe(Head(rep))
  /\ rep' = Tail(rep) /\ recv_ctr' = recv_ctr + 1
  /\ pc1' = "loop"
  /\ UNCHANGED <<options, clock, pc1r, pc2, sent_ctr, to_send, to_recv, req>>

\* The size of the next bulk, of n messages left.
bulk(n) == IF fail_fast THEN 1 ELSE IF n >= bulk_sz THEN bulk_sz ELSE n

\* Variant: one reply too many is awaited.
received_more == recv_ctr > NrIter

received_all == recv_ctr >= NrIter

\* The head of the loop of do_bulk_async_send_and_recv and of
\* do_bulk_async_send, which does not receive.
AsyncLoop ==
  /\ mode # "sync" /\ pc1 = "loop"
  /\ IF IF mode = "async" THEN received_all ELSE sent_ctr >= NrIter
     THEN pc1' = "done" /\ UNCHANGED to_send
     ELSE /\ to_send' = IF sent_ctr < NrIter THEN bulk(NrIter - sent_ctr) ELSE 0
          /\ pc1' = "send"
  /\ UNCHANGED <<options, clock, pc1r, pc2, sent_ctr, recv_ctr, to_recv, req, rep, minima>>

AsyncSend ==
  /\ pc1 = "send" /\ to_send > 0
  /\ req' = Append(req, stamped)
  /\ sent_ctr' = sent_ctr + 1 /\ to_send' = to_send - 1
  /\ UNCHANGED <<options, clock, pc1, pc1r, pc2, recv_ctr, to_recv, rep, minima>>

\* The bulk is sent: collect as many replies, or go on.
AsyncSent ==
  /\ pc1 = "send" /\ to_send <= 0
  /\ IF mode = "async"
     THEN pc1' = "poll" /\ to_recv' = bulk(NrIter - recv_ctr)
     ELSE pc1' = "loop" /\ UNCHANGED to_recv
  /\ UNCHANGED <<options, clock, pc1r, pc2, sent_ctr, recv_ctr, to_send, req, rep, minima>>

polled == IF rep # <<>> THEN 1 ELSE 0

\* One poll; without a bulk there is one only, whether or not it finds a reply.
AsyncPoll ==
  /\ pc1 = "poll"
  /\ recv_ctr' = recv_ctr + polled /\ to_recv' = to_recv - polled
  /\ IF rep # <<>> THEN observe(Head(rep)) /\ rep' = Tail(rep)
     ELSE UNCHANGED <<rep, minima>>
  /\ pc1' = IF ~fail_fast /\ to_recv' > 0 THEN pc1 ELSE "loop"
  /\ UNCHANGED <<options, clock, pc1r, pc2, sent_ctr, to_send, req>>

\* do_bulk_async_recv, the thread with the receiving socket.
RecvThread ==
  /\ pc1r = "recv"
  /\ IF received_all
     THEN pc1r' = "done" /\ UNCHANGED <<rep, recv_ctr, minima>>
     ELSE /\ rep # <<>>
          /\ observe(Head(rep))
          /\ rep' = Tail(rep) /\ recv_ctr' = recv_ctr + 1
          /\ UNCHANGED pc1r
  /\ UNCHANGED <<options, clock, pc1, pc2, sent_ctr, to_send, to_recv, req>>

-----------------------------------------------------------------------------
(* Slave 2.  Requests are returned as they come, stamped on the way. *)

\* With a socket of its own to return them it needs an identity too.
Slave2Open ==
  /\ pc2 = "open"
  /\ pc2' \in {"recv", "failed"}
  /\ UNCHANGED <<options, clock, pc1, pc1r, counters, req, rep, minima>>

\* do_bulk_receive ends on the message that says so.
do_bulk_receive ==
  /\ mode = "sync" /\ pc2 = "recv" /\ req # <<>>
  /\ req' = Tail(req)
  /\ IF Head(req).start = 0
     THEN pc2' = "done" /\ UNCHANGED rep
     ELSE pc2' = pc2 /\ rep' = Append(rep, [Head(req) EXCEPT !.reply = clock])
  /\ UNCHANGED <<options, clock, pc1, pc1r, counters, minima>>

\* dealer_router_receive returns on the same socket.
dealer_router_receive ==
  /\ mode = "async" /\ req # <<>>
  /\ req' = Tail(req)
  /\ rep' = Append(rep, IF tsc THEN [Head(req) EXCEPT !.reply = clock] ELSE Head(req))
  /\ UNCHANGED <<options, clock, pc1, pc1r, pc2, counters, minima>>

\* async_recv_and_send returns on a socket of its own.
async_recv_and_send ==
  /\ mode = "multi" /\ pc2 = "recv" /\ req # <<>>
  /\ req' = Tail(req)
  /\ rep' = Append(rep, IF tsc THEN [Head(req) EXCEPT !.reply = clock] ELSE Head(req))
  /\ UNCHANGED <<options, clock, pc1, pc1r, pc2, counters, minima>>

-----------------------------------------------------------------------------
Slave1 == async_open \/ SyncSend \/ SyncRecv \/ AsyncLoop \/ AsyncSend \/ AsyncSent
          \/ AsyncPoll
Slave2 == Slave2Open \/ do_bulk_receive \/ dealer_router_receive \/ async_recv_and_send

PairNext == Tick \/ Slave1 \/ RecvThread \/ Slave2
PairFairness == WF_pairVars(Slave1) /\ WF_pairVars(RecvThread) /\ WF_pairVars(Slave2)
PairSpec == PairInit /\ [][PairNext]_pairVars /\ PairFairness

-----------------------------------------------------------------------------
ended == pc1 = "done" /\ pc1r # "recv"

\* What slave 1 prints: the shortest of NrIter round trips, and a reply stamp
\* that was taken during that round trip.
ShortestPrinted ==
  ended =>
    /\ recv_ctr = NrIter
    /\ \E x \in samples :
         /\ min_nsec = x[1] /\ min_reply = x[3]
         /\ \A y \in samples : x[1] <= y[1]
         /\ mode = "sync" \/ tsc => x[2] <= min_reply /\ min_reply <= x[2] + x[1]

\* Unless one of the two cannot open its socket, slave 1 ends, and in the synchronous
\* mode slave 2 too.
PairEnds == <>("failed" \in {pc1, pc2} \/ (ended /\ (mode = "sync" => pc2 = "done")))
=============================================================================
