----------------------------- MODULE TupleStream -----------------------------
(***************************************************************************)
(* The tuple emitter (cpp_emit/emit.cpp): a data generator with one thread *)
(* and one PUSH socket per client, the client's receiving threads and      *)
(* their queues, and recvStr, which the application calls in a loop        *)
(* (cp_test/cp_cppsink.cpp).  A self-feeding channel has no generator and  *)
(* no sockets: its threads fill the queues.                                *)
(*                                                                         *)
(* Tuples are loaded before the threads start.  A thread sends             *)
(* per_ms_throughput tuples per time budget, pausing after each, replays    *)
(* its tuples when it has sent the last, and stops when emit_dur is over;  *)
(* poison pills follow for pill_dur.  Time is one clock; a polling loop    *)
(* ends at any reading of the clock that is late enough.  ZeroMQ is        *)
(* external: reliable and in order, and send blocks while there is no peer. *)
(* A local that will be written before it is read again holds 0.           *)
(***************************************************************************)
EXTENDS Integers, Sequences, FiniteSets, SequencesExt

CONSTANTS
  nr_threads, per_sec_throughput, emit_dur, tup_idx_offset,
  Slags, PillDurs, \* values of the options slag and pill_dur
  NANO_S_PER_S, MILLI_S_PER_S, POLL_ENQUEUE_OVERHEAD, QUEUE_SIZE,
  MaxTime         \* bound: readings of the clock

ASSUME StreamAssumption ==
  /\ nr_threads \in Nat \ {0} /\ per_sec_throughput \in Nat \ {0}
  /\ emit_dur \in Nat \ {0} /\ PillDurs \subseteq Nat /\ tup_idx_offset \in Nat
  /\ Slags \subseteq Nat /\ POLL_ENQUEUE_OVERHEAD \in Nat
  /\ MILLI_S_PER_S \in Nat \ {0} /\ NANO_S_PER_S \in Nat \ {0}
  /\ QUEUE_SIZE \in Nat \ {0} /\ MaxTime \in Nat

Threads == 0 .. nr_threads - 1
TIME_BUDGET == NANO_S_PER_S \div MILLI_S_PER_S
Pill == -1
init == -2

VARIABLES
  source,     \* what feeds the queues: loaded bytes, strings, or the process itself
  slag, pill_dur, time,
  remaining, iter, thr_id, \* loadOneTuple: tuples and place still to fill
  arrays, pills,           \* tuples and pills of each thread
  epc,        \* emitting threads: place,
  passed,     \*   barriers reached,
  sending,    \*   what is being sent: tuples or pills,
  next,       \*   iterator, and tuples sent in this budget,
  inBudget, cur, emitEnd, budgetEnd, TS_END,
  sock,       \* messages on their way to each client thread
  cpc, str,   \* client threads: place, and the string to enqueue
  queue,      \* spsc queues
  q_idx,      \* recvStr: the static index
  emitted, got \* history: what each thread emitted and what recvStr returned of it

settings == <<source, slag, pill_dur>>
loadVars == <<remaining, iter, thr_id, arrays, pills>>
emitVars == <<epc, passed, sending, next, inBudget, cur, emitEnd, budgetEnd, TS_END>>
clientVars == <<cpc, str>>
streamVars == <<settings, time, loadVars, emitVars, sock, clientVars, queue, q_idx,
                emitted, got>>

replay_size == per_sec_throughput * emit_dur

\* openTCPChannel starts a client for every address.
ClientInit ==
  /\ sock = [t \in Threads |-> <<>>]
  /\ cpc = [t \in Threads |-> IF source = "self" THEN "none" ELSE "connect"]
  /\ str = [t \in Threads |-> 0]

\* initDGSender, openTCPChannel and openSelfFeedChannel.
StreamInit ==
  /\ source \in {"bytes", "str", "self"} /\ time = 0
  /\ slag \in Slags /\ pill_dur \in PillDurs
  /\ remaining = replay_size * nr_threads /\ iter = 0 /\ thr_id = 0
  /\ arrays = [t \in Threads |-> <<>>] /\ pills = [t \in Threads |-> <<>>]
  /\ epc = [t \in Threads |-> IF source = "self" THEN "check" ELSE "load"]
  /\ passed = [t \in Threads |-> 0] /\ sending = [t \in Threads |-> "tuples"]
  /\ next = [t \in Threads |-> 1] /\ inBudget = [t \in Threads |-> 0]
  /\ cur = [t \in Threads |-> 0] /\ emitEnd = [t \in Threads |-> 0]
  /\ budgetEnd = [t \in Threads |-> 0] /\ TS_END = [t \in Threads |-> 0]
  /\ ClientInit
  /\ queue = [t \in Threads |-> <<>>] /\ q_idx = 0
  /\ emitted = [t \in Threads |-> <<>>] /\ got = [t \in Threads |-> <<>>]

\* Beyond the bound time passes only for a thread that polls for it.
Tick ==
  /\ \/ time < MaxTime
     \/ \E t \in Threads : \/ epc[t] = "pace" /\ time < emitEnd[t]
                           \/ epc[t] = "resync" /\ time < budgetEnd[t]
  /\ \A t \in Threads : epc[t] \in {"emit", "pace", "resync", "pills", "done"}
  /\ time' = time + 1
  /\ UNCHANGED <<settings, loadVars, emitVars, sock, clientVars, queue, q_idx, emitted,
                 got>>

-----------------------------------------------------------------------------
(* Loading. *)

lastOfThread == replay_size - iter = 1

loadOneTuple ==
  /\ source = "bytes" /\ remaining > 0
  /\ arrays' = [arrays EXCEPT ![thr_id] =
                  Append(@, replay_size * nr_threads - remaining)]
  /\ remaining' = remaining - 1
  /\ iter' = IF lastOfThread THEN 0 ELSE iter + 1
  /\ thr_id' = IF lastOfThread THEN thr_id + 1 ELSE thr_id
  /\ UNCHANGED <<settings, time, pills, emitVars, sock, clientVars, queue, q_idx,
                 emitted, got>>

\* prepare_replays of every thread.
loadAllStrTuples ==
  /\ source = "str" /\ remaining > 0
  /\ arrays' = [t \in Threads |->
                  [i \in 1 .. replay_size |-> t * replay_size + tup_idx_offset + i - 1]]
  /\ remaining' = 0
  /\ UNCHANGED <<settings, time, iter, thr_id, pills, emitVars, sock, clientVars, queue,
                 q_idx, emitted, got>>

\* Pills are bytes: the threads that send strings have none.
loadPoisonPills ==
  /\ source = "bytes" /\ remaining = 0 /\ pills[0] = <<>>
  /\ \A t \in Threads : epc[t] = "load"
  /\ pills' = [t \in Threads |-> Append(pills[t], Pill)]
  /\ UNCHANGED <<settings, time, remaining, iter, thr_id, arrays, emitVars, sock,
                 clientVars, queue, q_idx, emitted, got>>

runDGSender ==
  /\ source # "self" /\ remaining = 0
  /\ \A t \in Threads : epc[t] = "load"
  /\ epc' = [t \in Threads |-> "init"]
  /\ UNCHANGED <<settings, time, loadVars, passed, sending, next, inBudget, cur,
                 emitEnd, budgetEnd, TS_END, sock, clientVars, queue, q_idx, emitted,
                 got>>

-----------------------------------------------------------------------------
(* mt_emitScheduler and mt_selfFeeder. *)

\* The first message: blocks until the client has connected.
SendInit(t) ==
  /\ epc[t] = "init" /\ cpc[t] # "connect"
  /\ sock' = [sock EXCEPT ![t] = Append(@, init)]
  /\ passed' = [passed EXCEPT ![t] = 1]
  /\ epc' = [epc EXCEPT ![t] = "barrier"]
  /\ UNCHANGED <<settings, time, loadVars, sending, next, inBudget, cur, emitEnd,
                 budgetEnd, TS_END, clientVars, queue, q_idx, emitted, got>>

\* pthread_barrier_wait: every thread has reached barrier k.
barrierOpen(k) == \A t \in Threads : passed[t] >= k

PassFirst(t) ==
  /\ epc[t] = "barrier" /\ passed[t] = 1 /\ barrierOpen(1)
  /\ epc' = [epc EXCEPT ![t] = "check"]
  /\ UNCHANGED <<settings, time, loadVars, passed, sending, next, inBudget, cur,
                 emitEnd, budgetEnd, TS_END, sock, clientVars, queue, q_idx, emitted,
                 got>>

zmq_overhead == IF source = "self" THEN 0 ELSE POLL_ENQUEUE_OVERHEAD

per_ms_throughput ==
  IF source = "self" \/ per_sec_throughput > MILLI_S_PER_S
  THEN per_sec_throughput \div MILLI_S_PER_S
  ELSE per_sec_throughput

budget_per_emission == NANO_S_PER_S \div per_sec_throughput
residue_per_emission == budget_per_emission - (zmq_overhead + slag)

\* The loop of one thread starts at this reading of the clock.
Start(t, dur) ==
  /\ TS_END' = [TS_END EXCEPT ![t] = time + dur * NANO_S_PER_S]
  /\ cur' = [cur EXCEPT ![t] = time]
  /\ budgetEnd' = [budgetEnd EXCEPT ![t] = time]
  /\ next' = [next EXCEPT ![t] = 1]
  /\ inBudget' = [inBudget EXCEPT ![t] = 0]

\* A throughput that cannot be reached ends the process.
CheckBudget(t) ==
  /\ epc[t] = "check"
  /\ IF residue_per_emission < 0
     THEN /\ epc' = [u \in Threads |-> "exit"]
          /\ UNCHANGED <<passed, next, inBudget, cur, budgetEnd, TS_END>>
     ELSE IF source = "self"
     THEN /\ epc' = [epc EXCEPT ![t] = "emit"] /\ Start(t, emit_dur)
          /\ UNCHANGED passed
     ELSE /\ epc' = [epc EXCEPT ![t] = "barrier"]
          /\ passed' = [passed EXCEPT ![t] = 2]
          /\ UNCHANGED <<next, inBudget, cur, budgetEnd, TS_END>>
  /\ UNCHANGED <<settings, time, loadVars, sending, emitEnd, sock, clientVars, queue,
                 q_idx, emitted, got>>

PassSecond(t) ==
  /\ epc[t] = "barrier" /\ passed[t] = 2 /\ barrierOpen(2)
  /\ epc' = [epc EXCEPT ![t] = "emit"]
  /\ Start(t, emit_dur)
  /\ UNCHANGED <<settings, time, loadVars, passed, sending, emitEnd, sock, clientVars,
                 queue, q_idx, emitted, got>>

vec(t) == IF sending[t] = "pills" THEN pills[t] ELSE arrays[t]

\* One turn of the inner loop up to its polling.  A self-feeder makes its tuples,
\* and spins while the queue is full.
Emit(t) ==
  LET x == IF source = "self" THEN Len(emitted[t]) ELSE vec(t)[next[t]]
  IN /\ epc[t] = "emit" /\ inBudget[t] < per_ms_throughput
     /\ IF source = "self"
        THEN /\ Len(queue[t]) < QUEUE_SIZE
             /\ queue' = [queue EXCEPT ![t] = Append(@, x)] /\ UNCHANGED <<sock, next>>
        ELSE /\ sock' = [sock EXCEPT ![t] = Append(@, x)] /\ UNCHANGED queue
             /\ next' = [next EXCEPT ![t] = IF @ = Len(vec(t)) THEN 1 ELSE @ + 1]
     /\ emitted' = [emitted EXCEPT ![t] = Append(@, x)]
     /\ inBudget' = [inBudget EXCEPT ![t] = @ + 1]
     /\ emitEnd' = [emitEnd EXCEPT ![t] = cur[t] + residue_per_emission]
     /\ epc' = [epc EXCEPT ![t] = "pace"]
     /\ UNCHANGED <<settings, time, loadVars, passed, sending, cur, budgetEnd, TS_END,
                    clientVars, q_idx, got>>

\* per-emit-polling
Pace(t) ==
  /\ epc[t] = "pace" /\ time >= emitEnd[t]
  /\ cur' = [cur EXCEPT ![t] = time]
  /\ emitEnd' = [emitEnd EXCEPT ![t] = 0]
  /\ epc' = [epc EXCEPT ![t] = "emit"]
  /\ UNCHANGED <<settings, time, loadVars, passed, sending, next, inBudget, budgetEnd,
                 TS_END, sock, clientVars, queue, q_idx, emitted, got>>

\* Variant: the budget is counted from the end of the last emission.
nextBudget_drift(t) == cur[t]

nextBudget(t) == budgetEnd[t] + TIME_BUDGET

BudgetSent(t) ==
  /\ epc[t] = "emit" /\ inBudget[t] >= per_ms_throughput
  /\ budgetEnd' = [budgetEnd EXCEPT ![t] = nextBudget(t)]
  /\ cur' = [cur EXCEPT ![t] = 0]
  /\ epc' = [epc EXCEPT ![t] = "resync"]
  /\ UNCHANGED <<settings, time, loadVars, passed, sending, next, inBudget, emitEnd,
                 TS_END, sock, clientVars, queue, q_idx, emitted, got>>

\* Polling for re-synchronizing, and the end of the loop.
Resync(t) ==
  /\ epc[t] = "resync" /\ time >= budgetEnd[t]
  /\ cur' = [cur EXCEPT ![t] = IF time < TS_END[t] THEN time ELSE 0]
  /\ budgetEnd' = [budgetEnd EXCEPT ![t] = IF time < TS_END[t] THEN @ ELSE 0]
  /\ TS_END' = [TS_END EXCEPT ![t] = IF time < @ THEN @ ELSE 0]
  /\ inBudget' = [inBudget EXCEPT ![t] = 0]
  /\ epc' = [epc EXCEPT ![t] =
               CASE time < TS_END[t] -> "emit"
                 [] time >= TS_END[t] /\ source # "self" /\ sending[t] = "tuples"
                      /\ pill_dur > 0 -> "pills"
                 [] OTHER -> "done"]
  /\ UNCHANGED <<settings, time, loadVars, passed, sending, next, emitEnd, sock,
                 clientVars, queue, q_idx, emitted, got>>

\* A thread without pills follows the null pointer of an empty vector.
StartPills(t) ==
  /\ epc[t] = "pills"
  /\ IF pills[t] = <<>>
     THEN /\ epc' = [u \in Threads |-> "exit"]
          /\ UNCHANGED <<sending, next, inBudget, cur, budgetEnd, TS_END>>
     ELSE /\ epc' = [epc EXCEPT ![t] = "emit"]
          /\ sending' = [sending EXCEPT ![t] = "pills"]
          /\ Start(t, pill_dur)
  /\ UNCHANGED <<settings, time, loadVars, passed, emitEnd, sock, clientVars, queue,
                 q_idx, emitted, got>>

-----------------------------------------------------------------------------
(* mt_client, one thread per address. *)

Connect(t) ==
  /\ cpc[t] = "connect"
  /\ cpc' = [cpc EXCEPT ![t] = "init"]
  /\ UNCHANGED <<settings, time, loadVars, emitVars, sock, str, queue, q_idx, emitted,
                 got>>

\* Variant: the first message is left for the loop.
dropInit_kept(q) == q

dropInit(q) == Tail(q)

\* The first message is read and dropped.
RecvInit(t) ==
  /\ cpc[t] = "init" /\ sock[t] # <<>>
  /\ sock' = [sock EXCEPT ![t] = dropInit(@)]
  /\ cpc' = [cpc EXCEPT ![t] = "recv"]
  /\ UNCHANGED <<settings, time, loadVars, emitVars, str, queue, q_idx, emitted, got>>

RecvTuple(t) ==
  /\ cpc[t] = "recv" /\ sock[t] # <<>>
  /\ str' = [str EXCEPT ![t] = Head(sock[t])]
  /\ sock' = [sock EXCEPT ![t] = Tail(@)]
  /\ cpc' = [cpc EXCEPT ![t] = "push"]
  /\ UNCHANGED <<settings, time, loadVars, emitVars, queue, q_idx, emitted, got>>

\* push is repeated until it finds room.
Push(t) ==
  /\ cpc[t] = "push" /\ Len(queue[t]) < QUEUE_SIZE
  /\ queue' = [queue EXCEPT ![t] = Append(@, str[t])]
  /\ cpc' = [cpc EXCEPT ![t] = "recv"]
  /\ str' = [str EXCEPT ![t] = 0]
  /\ UNCHANGED <<settings, time, loadVars, emitVars, sock, q_idx, emitted, got>>

-----------------------------------------------------------------------------
\* Variant: the index is not advanced.
next_q_same(i) == i

\* The queue that mt_recvStr reads next, after a failed read too.
next_q(i) == CASE nr_threads = 1 -> 0
               [] nr_threads = 2 -> 1 - i
               [] OTHER -> IF i + 1 = nr_threads THEN 0 ELSE i + 1

\* One turn of the loop of mt_recvStr.
mt_recvStr ==
  /\ \A t \in Threads : epc[t] # "exit"
  /\ q_idx' = next_q(q_idx)
  /\ IF queue[q_idx] = <<>> THEN UNCHANGED <<queue, got>>
     ELSE /\ got' = [got EXCEPT ![q_idx] = Append(@, Head(queue[q_idx]))]
          /\ queue' = [queue EXCEPT ![q_idx] = Tail(@)]
  /\ UNCHANGED <<settings, time, loadVars, emitVars, sock, clientVars, emitted>>

-----------------------------------------------------------------------------
Load == loadOneTuple \/ loadAllStrTuples \/ loadPoisonPills \/ runDGSender

EmitThread(t) ==
  \/ SendInit(t) \/ PassFirst(t) \/ CheckBudget(t) \/ PassSecond(t) \/ Emit(t)
  \/ Pace(t) \/ BudgetSent(t) \/ Resync(t) \/ StartPills(t)

ClientThread(t) == Connect(t) \/ RecvInit(t) \/ RecvTuple(t) \/ Push(t)

StreamNext ==
  \/ Tick \/ Load \/ mt_recvStr
  \/ \E t \in Threads : EmitThread(t) \/ ClientThread(t)

StreamFairness ==
  /\ WF_streamVars(Tick) /\ WF_streamVars(Load) /\ WF_streamVars(mt_recvStr)
  /\ \A t \in Threads : WF_streamVars(EmitThread(t)) /\ WF_streamVars(ClientThread(t))

StreamSpec == StreamInit /\ [][StreamNext]_streamVars /\ StreamFairness

-----------------------------------------------------------------------------
\* The loader gives every thread its share, consecutive tuples in order
\* (loadOneTuple counts threads and tuples by itself).
LoadedEvenly ==
  source # "self" /\ remaining = 0 =>
    LET offset == IF source = "str" THEN tup_idx_offset ELSE 0
    IN \A t \in Threads : arrays[t] =
         [i \in 1 .. replay_size |-> t * replay_size + offset + i - 1]

\* No tuple is sent before every client has connected: the threads start together.
StartTogether ==
  (\E t \in Threads : emitted[t] # <<>>) =>
    source = "self" \/ \A t \in Threads : cpc[t] # "connect" /\ passed[t] = 2

\* The places of the tuples, as against pills, in what a thread has sent.
tuplesSent(t) == {i \in 1 .. Len(emitted[t]) : emitted[t][i] # Pill}

\* No thread emits more than per_sec_throughput tuples for each second of
\* emit_dur, however its polling loops are delayed; so none is sent twice.
AtRate == \A t \in Threads : Cardinality(tuplesSent(t)) <= replay_size

\* What the client thread has in hand, and what is on its way to it: until it has
\* read the first message, that one comes before the tuples.
inHand(t) == IF cpc[t] = "push" THEN <<str[t]>> ELSE <<>>
onTheWay(t) == IF cpc[t] = "init" /\ sock[t] # <<>> THEN Tail(sock[t]) ELSE sock[t]

\* Of every thread, recvStr has returned a prefix of what the thread sent, in
\* order; the rest is in the queue, with the client, or on its way.
InOrderOnce ==
  \A t \in Threads : emitted[t] = ((got[t] \o queue[t]) \o inHand(t)) \o onTheWay(t)

\* An application that keeps calling recvStr gets every tuple of every thread.
AllReturned ==
  <>((\A t \in Threads : epc[t] = "done" /\ got[t] = emitted[t])
     \/ \A t \in Threads : epc[t] = "exit")

\* From the generator's vectors to recvStr no tuple is lost, repeated, overtaken or given
\* to another thread (emit.cpp, loadOneTuple to mt_recvStr).
StreamIntact == LoadedEvenly /\ InOrderOnce

\* The threads start together and none runs ahead of its rate (emit.cpp,
\* mt_emitScheduler).
OnSchedule == StartTogether /\ AtRate
=============================================================================
