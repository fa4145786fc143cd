--------------------------- MODULE BufferPipeline ---------------------------
(***************************************************************************)
(* The buffered logging pipeline: handlers/buffer_id_handler.cpp,          *)
(* handlers/io_thread/{block_data,io_thread,cleanup}.cpp and               *)
(* handlers/compression_thread/comp_thread.cpp.                            *)
(*                                                                         *)
(* The thread that owns a channel fills blocks with log entries.  A full   *)
(* block goes to the compression threads (compressed channels) or straight *)
(* to the IO thread; the emptied block comes back through the channel's    *)
(* single-producer/single-consumer ring.  The IO thread puts compressed    *)
(* blocks back into block_id order before it writes them.  The threads are *)
(* created by the first channel that needs them and stop when the shared   *)
(* channel counters say so; the exit and signal handlers close every       *)
(* channel and rely on that.                                               *)
(*                                                                         *)
(* One step is one access to shared state (or a run of private ones).  A   *)
(* thread is named by the channel whose opening created it.                *)
(***************************************************************************)
EXTENDS Integers, Sequences, SequencesExt

CONSTANTS
  Chans,            \* the channels the program opens, each at most once
  Compressed,       \* those opened as BUFFER_IDENTITY_COMP
  Tsc,              \* those opened with a *_TSC log format
  Unopenable,       \* those whose log file cannot be opened
  NUM_BUFFER_BLOCK,
  BUFFER_BLOCK_SIZE,
  RETURN_QUEUE_SIZE,
  COMPRESS_QUEUE_SIZE,
  IO_QUEUE_SIZE,
  COMP_THREAD_NUM,
  MaxLogs,          \* bound on the logTS calls per channel
  Races,            \* the schedules allowed on top of the well-behaved ones
  NULL

(***************************************************************************)
(* Races names what the surrounding program and the scheduler may do:      *)
(*   "overlap"     channels are opened while others are being closed, or   *)
(*                 after that;                                             *)
(*   "async_exit"  exit() or a signal comes while other threads are inside *)
(*                 the library;                                            *)
(*   "loop_test"   comp_thread_created changes between the two loads of    *)
(*                 it in the IO thread's loop condition;                   *)
(*   "return_push" two compression threads push to one return ring at the  *)
(*                 same time: nothing in sendBackBlockUntilSuccess keeps   *)
(*                 them apart, and the ring is made for one producer.      *)
(***************************************************************************)
RaceNames == {"overlap", "async_exit", "loop_test", "return_push"}

ASSUME SetsAssumption ==
  /\ Compressed \subseteq Chans
  /\ Tsc \subseteq Chans
  /\ Unopenable \subseteq Chans
  /\ Races \subseteq RaceNames
  /\ NULL \notin Chans
  /\ NULL \notin Chans \X (1..NUM_BUFFER_BLOCK)

ASSUME SizesAssumption ==
  /\ NUM_BUFFER_BLOCK \in Nat \ {0}
  /\ BUFFER_BLOCK_SIZE \in Nat \ {0}
  /\ RETURN_QUEUE_SIZE \in Nat /\ RETURN_QUEUE_SIZE > NUM_BUFFER_BLOCK
  /\ COMPRESS_QUEUE_SIZE \in Nat \ {0}
  /\ IO_QUEUE_SIZE \in Nat \ {0}
  /\ COMP_THREAD_NUM \in Nat \ {0}
  /\ MaxLogs \in Nat

VARIABLES
  \* buffer_closure, and the thread that uses the channel
  pc, handler_f, block, block_cnt, first_logging,
  closing,              \* how far a closeChannel call on the channel has come
  closer,               \* "owner" or "exit": who runs that call
  \* block_data
  block_id, data, close_file,
  \* the channel's spsc_queue: slots, read index, write index
  slots, ridx, widx,
  compression_queue, io_queue,
  \* the shared counters and flags
  num_buf_ch, num_buf_comp_ch, io_thread_created, comp_thread_created,
  stop_io_thread, buffer_write_thread, quick_term,
  \* runCompThread: place, loop it is in, block, copy, loaded write index
  cpc, cphase, cblk, new_block, cw,
  \* runIOThread: place, loop it is in, block, argument of flushBlockInQueues
  ipc, iphase, idata, terminate,
  \* per channel: order of compressed blocks, and the log file
  next_block, pending, file, ch_logf,
  \* cleanUpAtNormalExit / cleanUpAtAbnormalExit, and the process
  xpc, xmode, xthr, proc,
  \* history: the tuples handed to logTS, grouped by the block they went to,
  \* and who was given each block last
  log, logged, holder

chanVars  == <<pc, handler_f, block, block_cnt, first_logging>>
closeVars == <<closing, closer>>
blockVars == <<block_id, data, close_file>>
ringVars  == <<slots, ridx, widx>>
queueVars == <<compression_queue, io_queue>>
ctlVars   == <<num_buf_ch, num_buf_comp_ch, io_thread_created,
               comp_thread_created, stop_io_thread, buffer_write_thread,
               quick_term>>
compVars  == <<cpc, cphase, cblk, new_block, cw>>
ioVars    == <<ipc, iphase, idata, terminate>>
fileVars  == <<next_block, pending, file, ch_logf>>
exitVars  == <<xpc, xmode, xthr, proc>>
histVars  == <<log, logged, holder>>

vars == <<chanVars, closeVars, blockVars, ringVars, queueVars, ctlVars,
          compVars, ioVars, fileVars, exitVars, histVars>>

-----------------------------------------------------------------------------
(* Values.                                                                 *)

Blocks      == Chans \X (1..NUM_BUFFER_BLOCK)
BlocksOf(c) == {c} \X (1..NUM_BUFFER_BLOCK)
CompThreads == Chans \X (1..COMP_THREAD_NUM)
IOThreads   == Chans
RingSlots   == 0..RETURN_QUEUE_SIZE    \* spsc_queue keeps one slot free

\* What the IO queue carries: a pointer to a block of the channel, or the
\* copy a compression thread allocated (whose blk is never dereferenced).
Item == [compress : BOOLEAN, ch : Chans, blk : Blocks \cup {NULL},
         block_id : Nat, data : Seq(Nat), close_file : BOOLEAN]

RawItem(b) == [compress |-> FALSE, ch |-> b[1], blk |-> b, block_id |-> 0,
               data |-> <<>>, close_file |-> FALSE]

\* Variant: the block is emptied before it is compressed.
CompressedCopy_emptied(b) ==
  [compress |-> TRUE, ch |-> b[1], blk |-> NULL, block_id |-> block_id[b],
   data |-> <<>>, close_file |-> close_file[b]]

\* block_data(const block_data& ref), with the payload compressed from ref
CompressedCopy(b) ==
  [compress |-> TRUE, ch |-> b[1], blk |-> NULL, block_id |-> block_id[b],
   data |-> data[b], close_file |-> close_file[b]]

Opening == {"new", "io", "iostore", "count", "comp", "init"}

\* Number of a channel's log chunks that bypass the blocks: the first tuple
\* of a TSC channel is written by the caller.
Direct(c) == IF c \in Tsc THEN 1 ELSE 0

-----------------------------------------------------------------------------
(* boost::lockfree::spsc_queue, as far as the code uses it.                *)

\* Variant: the index does not wrap.
next_index_unwrapped(i) == i + 1

next_index(i) == IF i = RETURN_QUEUE_SIZE THEN 0 ELSE i + 1

ring_full(c)  == next_index(widx[c]) = ridx[c]
ring_empty(c) == ridx[c] = widx[c]

\* Variant: the slot is filled and never published.
sendBackBlock_unpublished(c, b) ==
  /\ ~ring_full(c)
  /\ slots' = [slots EXCEPT ![c] = [@ EXCEPT ![widx[c]] = b]]
  /\ UNCHANGED <<ridx, widx, holder>>

\* push by a lone producer
sendBackBlock(c, b) ==
  /\ ~ring_full(c)
  /\ slots' = [slots EXCEPT ![c] = [@ EXCEPT ![widx[c]] = b]]
  /\ widx' = [widx EXCEPT ![c] = next_index(@)]
  /\ holder' = [holder EXCEPT ![b] = "ring"]
  /\ UNCHANGED ridx

-----------------------------------------------------------------------------
Init ==
  /\ pc = [c \in Chans |-> "new"]
  /\ handler_f = [c \in Chans |-> "none"]
  /\ block = [c \in Chans |-> NULL]
  /\ block_cnt = [c \in Chans |-> 0]
  /\ first_logging = [c \in Chans |-> TRUE]
  /\ closing = [c \in Chans |-> "no"]
  /\ closer = [c \in Chans |-> "none"]
  /\ block_id = [b \in Blocks |-> 0]
  /\ data = [b \in Blocks |-> <<>>]
  /\ close_file = [b \in Blocks |-> FALSE]
  /\ slots = [c \in Chans |-> [i \in RingSlots |-> NULL]]
  /\ ridx = [c \in Chans |-> 0]
  /\ widx = [c \in Chans |-> 0]
  /\ compression_queue = <<>>
  /\ io_queue = <<>>
  /\ num_buf_ch = 0
  /\ num_buf_comp_ch = 0
  /\ io_thread_created = FALSE
  /\ comp_thread_created = FALSE
  /\ stop_io_thread = 0
  /\ buffer_write_thread = NULL
  /\ quick_term = FALSE
  /\ cpc = [t \in CompThreads |-> "unborn"]
  /\ cphase = [t \in CompThreads |-> "loop"]
  /\ cblk = [t \in CompThreads |-> NULL]
  /\ new_block = [t \in CompThreads |-> NULL]
  /\ cw = [t \in CompThreads |-> 0]
  /\ ipc = [g \in IOThreads |-> "unborn"]
  /\ iphase = [g \in IOThreads |-> "loop"]
  /\ idata = [g \in IOThreads |-> NULL]
  /\ terminate = [g \in IOThreads |-> FALSE]
  /\ next_block = [c \in Chans |-> 0]
  /\ pending = [c \in Chans |-> <<>>]
  /\ file = [c \in Chans |-> <<>>]
  /\ ch_logf = [c \in Chans |-> "none"]
  /\ xpc = "no"
  /\ xmode = "none"
  /\ xthr = NULL
  /\ proc = "run"
  /\ log = [c \in Chans |-> <<>>]
  /\ logged = [c \in Chans |-> 0]
  /\ holder = [b \in Blocks |-> "none"]

-----------------------------------------------------------------------------
(* openChannel -> initBufferIdentityHandler.                               *)

\* The application makes calls: without "async_exit" its threads are joined
\* before main returns, and wait while a signal is handled.
AppRunning == xpc \in {"no", "return"} \/ "async_exit" \in Races

\* num_buf_ch++
OpenChannel(c) ==
  /\ pc[c] = "new"
  /\ AppRunning
  /\ "overlap" \in Races \/ \A d \in Chans : closing[d] = "no"
  /\ num_buf_ch' = num_buf_ch + 1
  /\ pc' = [pc EXCEPT ![c] = "io"]
  /\ UNCHANGED <<handler_f, block, block_cnt, first_logging, closeVars,
                 blockVars, ringVars, queueVars, num_buf_comp_ch,
                 io_thread_created, comp_thread_created, stop_io_thread,
                 buffer_write_thread, quick_term, compVars, ioVars, fileVars,
                 exitVars, histVars>>

\* Where initBufferIdentityHandler goes once there is an IO thread
AfterIO(c) == IF c \in Compressed THEN "count" ELSE "init"

\* if (!io_thread_created.exchange(true)) start runIOThread ...
OpenIOThread(c) ==
  /\ pc[c] = "io"
  /\ io_thread_created' = TRUE
  /\ IF io_thread_created
       THEN /\ pc' = [pc EXCEPT ![c] = AfterIO(c)]
            /\ UNCHANGED ipc
       ELSE /\ pc' = [pc EXCEPT ![c] = "iostore"]
            /\ ipc' = [ipc EXCEPT ![c] = "test"]
  /\ UNCHANGED <<handler_f, block, block_cnt, first_logging, closeVars,
                 blockVars, ringVars, queueVars, num_buf_ch, num_buf_comp_ch,
                 comp_thread_created, stop_io_thread, buffer_write_thread,
                 quick_term, compVars, iphase, idata, terminate, fileVars,
                 exitVars, histVars>>

\* ... and, while it runs already, buffer_write_thread = that thread
OpenIOStore(c) ==
  /\ pc[c] = "iostore"
  /\ pc' = [pc EXCEPT ![c] = AfterIO(c)]
  /\ buffer_write_thread' = c
  /\ UNCHANGED <<handler_f, block, block_cnt, first_logging, closeVars,
                 blockVars, ringVars, queueVars, num_buf_ch, num_buf_comp_ch,
                 io_thread_created, comp_thread_created, stop_io_thread,
                 quick_term, compVars, ioVars, fileVars, exitVars, histVars>>

\* if (compress) num_buf_comp_ch++
OpenCountComp(c) ==
  /\ pc[c] = "count"
  /\ pc' = [pc EXCEPT ![c] = "comp"]
  /\ num_buf_comp_ch' = num_buf_comp_ch + 1
  /\ UNCHANGED <<handler_f, block, block_cnt, first_logging, closeVars,
                 blockVars, ringVars, queueVars, num_buf_ch,
                 io_thread_created, comp_thread_created, stop_io_thread,
                 buffer_write_thread, quick_term, compVars, ioVars, fileVars,
                 exitVars, histVars>>

\* if (!comp_thread_created.exchange(true)) start COMP_THREAD_NUM threads
OpenCompThreads(c) ==
  /\ pc[c] = "comp"
  /\ pc' = [pc EXCEPT ![c] = "init"]
  /\ comp_thread_created' = TRUE
  /\ cpc' = IF comp_thread_created
              THEN cpc
              ELSE [t \in CompThreads |-> IF t[1] = c THEN "poll" ELSE cpc[t]]
  /\ UNCHANGED <<handler_f, block, block_cnt, first_logging, closeVars,
                 blockVars, ringVars, queueVars, num_buf_ch, num_buf_comp_ch,
                 io_thread_created, stop_io_thread, buffer_write_thread,
                 quick_term, cphase, cblk, new_block, cw, ioVars, fileVars,
                 exitVars, histVars>>

\* NUM_BUFFER_BLOCK pushes of new blocks, one pop, block_id = block_cnt++
InitBlocks(c) ==
  /\ slots' = [slots EXCEPT ![c] = [i \in RingSlots |->
                 IF i < NUM_BUFFER_BLOCK THEN <<c, i + 1>> ELSE NULL]]
  /\ ridx' = [ridx EXCEPT ![c] = 1]
  /\ widx' = [widx EXCEPT ![c] = NUM_BUFFER_BLOCK]
  /\ block' = [block EXCEPT ![c] = <<c, 1>>]
  /\ block_id' = [block_id EXCEPT ![<<c, 1>>] = 0]
  /\ block_cnt' = [block_cnt EXCEPT ![c] = 1]
  /\ holder' = [b \in Blocks |-> IF b[1] # c THEN holder[b]
                                ELSE IF b[2] = 1 THEN "closure" ELSE "ring"]

\* closure::openChannel
openLogFile(c) ==
  ch_logf' = [ch_logf EXCEPT ![c] = IF c \in Unopenable THEN "none" ELSE "open"]

\* The rest of openChannel: the blocks, the entry in ch_info (under mtx_bk,
\* which closeAllChannels holds) and the log file.  The caller of a channel
\* whose file does not open gets a defect closure instead; the channel stays
\* in ch_info.
OpenDone(c) ==
  /\ pc[c] = "init"
  /\ xpc # "close"
  /\ pc' = [pc EXCEPT ![c] = "idle"]
  /\ handler_f' = [handler_f EXCEPT ![c] = IF c \in Tsc THEN "tsc" ELSE "id"]
  /\ InitBlocks(c)
  /\ openLogFile(c)
  /\ log' = [log EXCEPT ![c] = [i \in 1..(1 + Direct(c)) |-> <<>>]]
  /\ UNCHANGED <<first_logging, closeVars, data, close_file, queueVars,
                 ctlVars, compVars, ioVars, next_block, pending, file,
                 exitVars, logged>>

-----------------------------------------------------------------------------
(* logTS -> BufferIdentityHandler / BufferIdentityHandlerTsc.              *)

\* The owner has a handle to the channel and is not inside closeChannel.
OwnerFree(c) ==
  /\ c \notin Unopenable
  /\ closer[c] = "owner" => closing[c] = "done"

\* Load handler_f and enter the handler.  NullHandler does nothing.
LogTS(c) ==
  /\ pc[c] = "idle"
  /\ AppRunning
  /\ OwnerFree(c)
  /\ handler_f[c] \in {"id", "tsc"}
  /\ logged[c] < MaxLogs
  /\ pc' = [pc EXCEPT ![c] = "write"]
  /\ UNCHANGED <<handler_f, block, block_cnt, first_logging, closeVars,
                 blockVars, ringVars, queueVars, ctlVars, compVars, ioVars,
                 fileVars, exitVars, histVars>>

\* The n-th tuple of a channel is the number n; i is its chunk of the log.
RecordTuple(c, i) ==
  /\ logged' = [logged EXCEPT ![c] = @ + 1]
  /\ log' = [log EXCEPT ![c][i] = Append(@, logged[c] + 1)]
  /\ UNCHANGED holder

\* write to ch_logf, which drops what it gets while it is not open
Written(c, chunk) ==
  IF ch_logf[c] = "open" THEN Append(file[c], chunk) ELSE file[c]

\* if (close) ch_logf.close()
closeLogFile(c, close) ==
  ch_logf' = [ch_logf EXCEPT ![c] =
                IF close /\ @ = "open" THEN "closed" ELSE @]

\* first_logging: the caller writes the tuple to the file itself
WriteFirst(c) ==
  /\ pc[c] = "write"
  /\ c \in Tsc /\ first_logging[c]
  /\ first_logging' = [first_logging EXCEPT ![c] = FALSE]
  /\ pc' = [pc EXCEPT ![c] = "idle"]
  /\ file' = [file EXCEPT ![c] = Written(c, <<logged[c] + 1>>)]
  /\ RecordTuple(c, 1)
  /\ UNCHANGED <<handler_f, block, block_cnt, closeVars, blockVars, ringVars,
                 queueVars, ctlVars, compVars, ioVars, next_block, pending,
                 ch_logf, exitVars>>

\* writeOnBlock / writeOnBlockTsc, then checkBlockIsFull
WriteOnBlock(c) ==
  /\ pc[c] = "write"
  /\ ~(c \in Tsc /\ first_logging[c])
  /\ data' = [data EXCEPT ![block[c]] = Append(@, logged[c] + 1)]
  /\ pc' = [pc EXCEPT ![c] =
              IF Len(data[block[c]]) + 1 = BUFFER_BLOCK_SIZE
                THEN "full" ELSE "idle"]
  /\ RecordTuple(c, Len(log[c]))
  /\ UNCHANGED <<handler_f, block, block_cnt, first_logging, closeVars,
                 block_id, close_file, ringVars, queueVars, ctlVars,
                 compVars, ioVars, fileVars, exitVars>>

\* One successful bounded_push of enqueueBlockUntilSuccess.
enqueueBlock(b) ==
  IF b[1] \in Compressed
    THEN /\ Len(compression_queue) < COMPRESS_QUEUE_SIZE
         /\ compression_queue' = Append(compression_queue, b)
         /\ holder' = [holder EXCEPT ![b] = "compq"]
         /\ UNCHANGED io_queue
    ELSE /\ Len(io_queue) < IO_QUEUE_SIZE
         /\ io_queue' = Append(io_queue, RawItem(b))
         /\ holder' = [holder EXCEPT ![b] = "ioq"]
         /\ UNCHANGED compression_queue

EnqueueFull(c) ==
  /\ pc[c] = "full"
  /\ enqueueBlock(block[c])
  /\ pc' = [pc EXCEPT ![c] = "fetch"]
  /\ UNCHANGED <<handler_f, block, block_cnt, first_logging, closeVars,
                 blockVars, ringVars, ctlVars, compVars, ioVars, fileVars,
                 exitVars, log, logged>>

\* dequeueEmptyBlockPolling, then block_id = block_cnt++.  A slot that was
\* never filled is a wild pointer.
DequeueEmpty(c) ==
  /\ pc[c] = "fetch"
  /\ ~ring_empty(c)
  /\ LET b == slots[c][ridx[c]] IN
       IF b = NULL
         THEN /\ proc' = "crashed"
              /\ UNCHANGED <<pc, block, block_cnt, block_id, ridx, log, holder>>
         ELSE /\ block' = [block EXCEPT ![c] = b]
              /\ block_id' = [block_id EXCEPT ![b] = block_cnt[c]]
              /\ block_cnt' = [block_cnt EXCEPT ![c] = @ + 1]
              /\ ridx' = [ridx EXCEPT ![c] = next_index(@)]
              /\ log' = [log EXCEPT ![c] = Append(@, <<>>)]
              /\ holder' = [holder EXCEPT ![b] = "closure"]
              /\ pc' = [pc EXCEPT ![c] = "idle"]
              /\ UNCHANGED proc
  /\ UNCHANGED <<handler_f, first_logging, closeVars, data, close_file, slots,
                 widx, queueVars, ctlVars, compVars, ioVars, fileVars, xpc,
                 xmode, xthr, logged>>

-----------------------------------------------------------------------------
(* buffer_closure::closeChannel, run by the owner (closeChannel, a poison  *)
(* pill, a parameter the channel does not support) or by closeAllChannels. *)

\* handler_f.exchange(NullHandler).  Only BufferIdentityHandler is flushed.
CloseExchange(c, who) ==
  /\ handler_f[c] \in {"id", "tsc"}
  /\ closing' = [closing EXCEPT ![c] =
                   IF handler_f[c] = "id" THEN "mark" ELSE "done"]
  /\ closer' = [closer EXCEPT ![c] = who]
  /\ handler_f' = [handler_f EXCEPT ![c] = "null"]
  /\ UNCHANGED <<pc, block, block_cnt, first_logging, blockVars, ringVars,
                 queueVars, ctlVars, compVars, ioVars, fileVars, exitVars,
                 histVars>>

CloseChannel(c) ==
  /\ pc[c] = "idle"
  /\ AppRunning
  /\ "overlap" \in Races \/ \A d \in Chans : pc[d] \notin Opening \ {"new"}
  /\ OwnerFree(c)
  /\ CloseExchange(c, "owner")

\* block->close_file = true
CloseMark(c) ==
  /\ closing[c] = "mark"
  /\ close_file' = [close_file EXCEPT ![block[c]] = TRUE]
  /\ closing' = [closing EXCEPT ![c] = "enqueue"]
  /\ UNCHANGED <<chanVars, closer, block_id, data, ringVars, queueVars,
                 ctlVars, compVars, ioVars, fileVars, exitVars, histVars>>

\* enqueueBlockUntilSuccess(block)
CloseEnqueue(c) ==
  /\ closing[c] = "enqueue"
  /\ enqueueBlock(block[c])
  /\ closing' = [closing EXCEPT ![c] =
                   IF c \in Compressed THEN "deccomp" ELSE "dec"]
  /\ UNCHANGED <<chanVars, closer, blockVars, ringVars, ctlVars, compVars,
                 ioVars, fileVars, exitVars, log, logged>>

\* if (block->compress) num_buf_comp_ch--
CloseDecComp(c) ==
  /\ closing[c] = "deccomp"
  /\ num_buf_comp_ch' = num_buf_comp_ch - 1
  /\ closing' = [closing EXCEPT ![c] = "dec"]
  /\ UNCHANGED <<chanVars, closer, blockVars, ringVars, queueVars, num_buf_ch,
                 io_thread_created, comp_thread_created, stop_io_thread,
                 buffer_write_thread, quick_term, compVars, ioVars, fileVars,
                 exitVars, histVars>>

\* num_buf_ch--
CloseDec(c) ==
  /\ closing[c] = "dec"
  /\ num_buf_ch' = num_buf_ch - 1
  /\ closing' = [closing EXCEPT ![c] = "done"]
  /\ UNCHANGED <<chanVars, closer, blockVars, ringVars, queueVars,
                 num_buf_comp_ch, io_thread_created, comp_thread_created,
                 stop_io_thread, buffer_write_thread, quick_term, compVars,
                 ioVars, fileVars, exitVars, histVars>>

-----------------------------------------------------------------------------
(* runCompThread.  stop_comp_thread is never set by any code.              *)

\* getBlockFromQueue succeeds
CompPop(t) ==
  /\ cpc[t] = "poll"
  /\ compression_queue # <<>>
  /\ cblk' = [cblk EXCEPT ![t] = Head(compression_queue)]
  /\ compression_queue' = Tail(compression_queue)
  /\ holder' = [holder EXCEPT ![Head(compression_queue)] = "comp"]
  /\ cpc' = [cpc EXCEPT ![t] = "compress"]
  /\ UNCHANGED <<chanVars, closeVars, blockVars, ringVars, io_queue, ctlVars,
                 cphase, new_block, cw, ioVars, fileVars, exitVars, log, logged>>

\* The first loop ends: num_buf_comp_ch == 0
CompLeaveLoop(t) ==
  /\ cpc[t] = "poll" /\ cphase[t] = "loop"
  /\ num_buf_comp_ch = 0
  /\ cphase' = [cphase EXCEPT ![t] = "drain"]
  /\ UNCHANGED <<chanVars, closeVars, blockVars, ringVars, queueVars, ctlVars,
                 cpc, cblk, new_block, cw, ioVars, fileVars, exitVars,
                 histVars>>

\* Variant: the queue is not drained.
CompDrained_undrained(t) ==
  /\ cpc[t] = "poll" /\ cphase[t] = "drain"
  /\ cpc' = [cpc EXCEPT ![t] = "stop"]
  /\ UNCHANGED <<chanVars, closeVars, blockVars, ringVars, queueVars, ctlVars,
                 cphase, cblk, new_block, cw, ioVars, fileVars, exitVars,
                 histVars>>

\* The second loop ends: nothing left to compress
CompDrained(t) ==
  /\ cpc[t] = "poll" /\ cphase[t] = "drain"
  /\ compression_queue = <<>>
  /\ cpc' = [cpc EXCEPT ![t] = "stop"]
  /\ UNCHANGED <<chanVars, closeVars, blockVars, ringVars, queueVars, ctlVars,
                 cphase, cblk, new_block, cw, ioVars, fileVars, exitVars,
                 histVars>>

\* Variant: the thread ends without telling the IO thread.
CompStop_silent(t) ==
  /\ cpc[t] = "stop"
  /\ cpc' = [cpc EXCEPT ![t] = "dead"]
  /\ UNCHANGED <<chanVars, closeVars, blockVars, ringVars, queueVars, ctlVars,
                 cphase, cblk, new_block, cw, ioVars, fileVars, exitVars,
                 histVars>>

\* stop_io_thread.fetch_add(1)
CompStop(t) ==
  /\ cpc[t] = "stop"
  /\ cpc' = [cpc EXCEPT ![t] = "dead"]
  /\ stop_io_thread' = stop_io_thread + 1
  /\ UNCHANGED <<chanVars, closeVars, blockVars, ringVars, queueVars,
                 num_buf_ch, num_buf_comp_ch, io_thread_created,
                 comp_thread_created, buffer_write_thread, quick_term,
                 cphase, cblk, new_block, cw, ioVars, fileVars, exitVars,
                 histVars>>

\* block_idx = 0: what the block held is forgotten
ResetBlock(b) == data' = [data EXCEPT ![b] = <<>>]

\* compressBlock, block_idx.store(0) and the copy
CompressBlock(t) ==
  /\ cpc[t] = "compress"
  /\ new_block' = [new_block EXCEPT ![t] = CompressedCopy(cblk[t])]
  /\ ResetBlock(cblk[t])
  /\ cpc' = [cpc EXCEPT ![t] = "slot"]
  /\ UNCHANGED <<chanVars, closeVars, block_id, close_file, ringVars,
                 queueVars, ctlVars, cphase, cblk, cw, ioVars, fileVars,
                 exitVars, histVars>>

\* sendBackBlockUntilSuccess, first half: load the write index.  The code takes no lock:
\* the pushes of two threads may overlap, as they do with "return_push".  Without it the
\* schedules are those in which they happen not to.
SendBackLoad(t) ==
  LET c == cblk[t][1] IN
  /\ cpc[t] = "slot"
  /\ ~ring_full(c)
  /\ \/ "return_push" \in Races
     \/ \A u \in CompThreads : ~(cpc[u] = "store" /\ cblk[u][1] = c)
  /\ cw' = [cw EXCEPT ![t] = widx[c]]
  /\ cpc' = [cpc EXCEPT ![t] = "store"]
  /\ UNCHANGED <<chanVars, closeVars, blockVars, ringVars, queueVars, ctlVars,
                 cphase, cblk, new_block, ioVars, fileVars, exitVars,
                 histVars>>

\* Variant: the slot is filled and never published.
SendBackStore_unpublished(t) ==
  LET c == cblk[t][1] IN
  /\ cpc[t] = "store"
  /\ slots' = [slots EXCEPT ![c] = [@ EXCEPT ![cw[t]] = cblk[t]]]
  /\ cpc' = [cpc EXCEPT ![t] = "push"]
  /\ UNCHANGED <<chanVars, closeVars, blockVars, ridx, widx, queueVars,
                 ctlVars, cphase, cblk, new_block, cw, ioVars, fileVars,
                 exitVars, histVars>>

\* ... second half: fill the slot and publish the next write index
SendBackStore(t) ==
  LET c == cblk[t][1] IN
  /\ cpc[t] = "store"
  /\ slots' = [slots EXCEPT ![c] = [@ EXCEPT ![cw[t]] = cblk[t]]]
  /\ widx' = [widx EXCEPT ![c] = next_index(cw[t])]
  /\ holder' = [holder EXCEPT ![cblk[t]] = "ring"]
  /\ cpc' = [cpc EXCEPT ![t] = "push"]
  /\ UNCHANGED <<chanVars, closeVars, blockVars, ridx, queueVars, ctlVars,
                 cphase, cblk, new_block, cw, ioVars, fileVars, exitVars,
                 log, logged>>

\* enqueueFullBlockFromCompThread, whose result is ignored
CompPush(t) ==
  /\ cpc[t] = "push"
  /\ io_queue' = IF Len(io_queue) < IO_QUEUE_SIZE
                   THEN Append(io_queue, new_block[t]) ELSE io_queue
  /\ cpc' = [cpc EXCEPT ![t] = "poll"]
  /\ cblk' = [cblk EXCEPT ![t] = NULL]
  /\ new_block' = [new_block EXCEPT ![t] = NULL]
  /\ cw' = [cw EXCEPT ![t] = 0]
  /\ UNCHANGED <<chanVars, closeVars, blockVars, ringVars, compression_queue,
                 ctlVars, cphase, ioVars, fileVars, exitVars, histVars>>

-----------------------------------------------------------------------------
(* runIOThread.                                                            *)

CompRuns == comp_thread_created /\ stop_io_thread # COMP_THREAD_NUM
IORuns   == ~comp_thread_created /\ num_buf_ch # 0

\* Leaving the loop evaluates quick_term as flushBlockInQueues' argument.
IOLoopTest(g, go_on) ==
  /\ ipc' = [ipc EXCEPT ![g] = "pop"]
  /\ iphase' = [iphase EXCEPT ![g] = IF go_on THEN "loop" ELSE "flush"]
  /\ terminate' = [terminate EXCEPT ![g] = ~go_on /\ quick_term]
  /\ UNCHANGED <<chanVars, closeVars, blockVars, ringVars, queueVars, ctlVars,
                 compVars, idata, fileVars, exitVars, histVars>>

\* The loop condition, its two loads of comp_thread_created agreeing.
IOTest(g) ==
  /\ ipc[g] = "test"
  /\ "loop_test" \notin Races
  /\ IOLoopTest(g, CompRuns \/ IORuns)

\* The left operand of the condition ...
IOTestLeft(g) ==
  /\ ipc[g] = "test"
  /\ "loop_test" \in Races
  /\ ipc' = [ipc EXCEPT ![g] = IF CompRuns THEN "pop" ELSE "test2"]
  /\ UNCHANGED <<chanVars, closeVars, blockVars, ringVars, queueVars, ctlVars,
                 compVars, iphase, idata, terminate, fileVars, exitVars,
                 histVars>>

\* ... and, if that is false, the right one.
IOTestRight(g) ==
  /\ ipc[g] = "test2"
  /\ IOLoopTest(g, IORuns)

\* io_queue.pop succeeds
IOPop(g) ==
  /\ ipc[g] = "pop"
  /\ io_queue # <<>>
  /\ idata' = [idata EXCEPT ![g] = Head(io_queue)]
  /\ io_queue' = Tail(io_queue)
  /\ holder' = IF Head(io_queue).compress THEN holder
                ELSE [holder EXCEPT ![Head(io_queue).blk] = "io"]
  /\ ipc' = [ipc EXCEPT ![g] =
               IF Head(io_queue).compress THEN "writecomp" ELSE "writeraw"]
  /\ UNCHANGED <<chanVars, closeVars, blockVars, ringVars, compression_queue,
                 ctlVars, compVars, iphase, terminate, fileVars, exitVars,
                 log, logged>>

\* io_queue.pop fails: test again, or the flush is over
IOEmpty(g) ==
  /\ ipc[g] = "pop"
  /\ io_queue = <<>>
  /\ ipc' = [ipc EXCEPT ![g] = IF iphase[g] = "loop" THEN "test" ELSE "term"]
  /\ UNCHANGED <<chanVars, closeVars, blockVars, ringVars, queueVars, ctlVars,
                 compVars, iphase, idata, terminate, fileVars, exitVars,
                 histVars>>

\* Variant: the flush takes one block.
AfterBlock_once(g) == IF iphase[g] = "loop" THEN "test" ELSE "term"

\* Where the IO thread goes when it is done with a block
AfterBlock(g) == IF iphase[g] = "loop" THEN "test" ELSE "pop"

\* writeUncompressedBlock: the entries and the close ...
WriteUncompressed(g) ==
  LET b == idata[g].blk
      c == idata[g].ch IN
  /\ ipc[g] = "writeraw"
  /\ file' = [file EXCEPT ![c] = Written(c, data[b])]
  /\ closeLogFile(c, close_file[b])
  /\ ipc' = [ipc EXCEPT ![g] = "sendback"]
  /\ UNCHANGED <<chanVars, closeVars, blockVars, ringVars, queueVars, ctlVars,
                 compVars, iphase, idata, terminate, next_block, pending,
                 exitVars, histVars>>

\* ... then block_idx.exchange(0) and sendBackBlockUntilSuccess
SendBackUncompressed(g) ==
  LET b == idata[g].blk
      c == idata[g].ch IN
  /\ ipc[g] = "sendback"
  /\ sendBackBlock(c, b)
  /\ ResetBlock(b)
  /\ ipc' = [ipc EXCEPT ![g] = AfterBlock(g)]
  /\ idata' = [idata EXCEPT ![g] = NULL]
  /\ UNCHANGED <<chanVars, closeVars, block_id, close_file, queueVars,
                 ctlVars, compVars, iphase, terminate, fileVars, exitVars,
                 log, logged>>

\* Variant: blocks are written in the order they come.
InOrder_any(d) == TRUE

\* The block is the next one of its channel's log file.
InOrder(d) == d.block_id = next_block[d.ch]

\* Variant: the last block closes the file, early or not.
ParkCompressed_closing(g) ==
  LET d == idata[g] IN
  /\ ipc[g] = "writecomp"
  /\ ~InOrder(d)
  /\ pending' = [pending EXCEPT ![d.ch] = Append(@, d)]
  /\ closeLogFile(d.ch, d.close_file)
  /\ ipc' = [ipc EXCEPT ![g] = AfterBlock(g)]
  /\ idata' = [idata EXCEPT ![g] = NULL]
  /\ UNCHANGED <<chanVars, closeVars, blockVars, ringVars, queueVars, ctlVars,
                 compVars, iphase, terminate, next_block, file, exitVars,
                 histVars>>

\* writeCompressedBlock, the block is early: park it
ParkCompressed(g) ==
  LET d == idata[g] IN
  /\ ipc[g] = "writecomp"
  /\ ~InOrder(d)
  /\ pending' = [pending EXCEPT ![d.ch] = Append(@, d)]
  /\ ipc' = [ipc EXCEPT ![g] = AfterBlock(g)]
  /\ idata' = [idata EXCEPT ![g] = NULL]
  /\ UNCHANGED <<chanVars, closeVars, blockVars, ringVars, queueVars, ctlVars,
                 compVars, iphase, terminate, next_block, file, ch_logf,
                 exitVars, histVars>>

\* ... the block is in order: write it
WriteCompressed(g) ==
  LET d == idata[g] IN
  /\ ipc[g] = "writecomp"
  /\ InOrder(d)
  /\ file' = [file EXCEPT ![d.ch] = Written(d.ch, d.data)]
  /\ next_block' = [next_block EXCEPT ![d.ch] = @ + 1]
  /\ ipc' = [ipc EXCEPT ![g] = "unpark"]
  /\ UNCHANGED <<chanVars, closeVars, blockVars, ringVars, queueVars, ctlVars,
                 compVars, iphase, idata, terminate, pending, ch_logf,
                 exitVars, histVars>>

\* i is a position of pending[c] its priority queue may have on top
IsTop(c, i) ==
  /\ i \in DOMAIN pending[c]
  /\ \A j \in DOMAIN pending[c] :
       pending[c][i].block_id <= pending[c][j].block_id

\* ... one round of the loop over the pending blocks
UnparkCompressed(g) ==
  LET c == idata[g].ch IN
  /\ ipc[g] = "unpark"
  /\ \E i \in DOMAIN pending[c] :
       /\ IsTop(c, i)
       /\ InOrder(pending[c][i])
       /\ file' = [file EXCEPT ![c] = Written(c, pending[c][i].data)]
       /\ closeLogFile(c, pending[c][i].close_file)
       /\ pending' = [pending EXCEPT ![c] = RemoveAt(@, i)]
  /\ next_block' = [next_block EXCEPT ![c] = @ + 1]
  /\ UNCHANGED <<chanVars, closeVars, blockVars, ringVars, queueVars, ctlVars,
                 compVars, ioVars, exitVars, histVars>>

\* ... the end of that loop, and the close
UnparkDone(g) ==
  LET c == idata[g].ch IN
  /\ ipc[g] = "unpark"
  /\ \A i \in DOMAIN pending[c] :
       ~(IsTop(c, i) /\ InOrder(pending[c][i]))
  /\ closeLogFile(c, idata[g].close_file)
  /\ ipc' = [ipc EXCEPT ![g] = AfterBlock(g)]
  /\ idata' = [idata EXCEPT ![g] = NULL]
  /\ UNCHANGED <<chanVars, closeVars, blockVars, ringVars, queueVars, ctlVars,
                 compVars, iphase, terminate, next_block, pending, file,
                 exitVars, histVars>>

\* The end of flushBlockInQueues: quick_exit(0) if told to; otherwise
\* buffer_write_thread = NULL
IOTerminate(g) ==
  /\ ipc[g] = "term"
  /\ IF terminate[g]
       THEN /\ proc' = "exited"
            /\ UNCHANGED <<buffer_write_thread, ipc>>
       ELSE /\ buffer_write_thread' = NULL
            /\ ipc' = [ipc EXCEPT ![g] = "clear_io"]
            /\ UNCHANGED proc
  /\ UNCHANGED <<chanVars, closeVars, blockVars, ringVars, queueVars,
                 num_buf_ch, num_buf_comp_ch, io_thread_created,
                 comp_thread_created, stop_io_thread, quick_term, compVars,
                 iphase, idata, terminate, fileVars, xpc, xmode, xthr,
                 histVars>>

\* io_thread_created = false
IOClearIO(g) ==
  /\ ipc[g] = "clear_io"
  /\ io_thread_created' = FALSE
  /\ ipc' = [ipc EXCEPT ![g] = "clear_comp"]
  /\ UNCHANGED <<chanVars, closeVars, blockVars, ringVars, queueVars,
                 num_buf_ch, num_buf_comp_ch, comp_thread_created,
                 stop_io_thread, buffer_write_thread, quick_term, compVars,
                 iphase, idata, terminate, fileVars, exitVars, histVars>>

\* comp_thread_created = false
IOClearComp(g) ==
  /\ ipc[g] = "clear_comp"
  /\ comp_thread_created' = FALSE
  /\ ipc' = [ipc EXCEPT ![g] = "dead"]
  /\ UNCHANGED <<chanVars, closeVars, blockVars, ringVars, queueVars,
                 num_buf_ch, num_buf_comp_ch, io_thread_created,
                 stop_io_thread, buffer_write_thread, quick_term, compVars,
                 iphase, idata, terminate, fileVars, exitVars, histVars>>

-----------------------------------------------------------------------------
(* cleanUpAtNormalExit and cleanUpAtAbnormalExit, registered when the      *)
(* first channel enters ch_info.  The signal handler returns ("return") if *)
(* it leaves the end to the IO thread, and the program goes on.            *)

InCall(c) == pc[c] \notin {"new", "idle"} \/ closing[c] \notin {"no", "done"}

ExitAllowed ==
  /\ xpc \in {"no", "return"}
  /\ \E c \in Chans : pc[c] \notin Opening
  /\ "async_exit" \in Races \/ \A c \in Chans : ~InCall(c)

\* main returned, or exit() was called
NormalExit ==
  /\ ExitAllowed
  /\ xpc' = "close" /\ xmode' = "normal"
  /\ UNCHANGED <<chanVars, closeVars, blockVars, ringVars, queueVars, ctlVars,
                 compVars, ioVars, fileVars, xthr, proc, histVars>>

\* SIGINT or SIGTERM: leave the end to the IO thread if there is one
Signal ==
  /\ ExitAllowed
  /\ xpc' = "close"
  /\ IF num_buf_comp_ch # 0 \/ buffer_write_thread # NULL
       THEN xmode' = "wait" /\ quick_term' = TRUE
       ELSE xmode' = "quick" /\ UNCHANGED quick_term
  /\ UNCHANGED <<chanVars, closeVars, blockVars, ringVars, queueVars,
                 num_buf_ch, num_buf_comp_ch, io_thread_created,
                 comp_thread_created, stop_io_thread, buffer_write_thread,
                 compVars, ioVars, fileVars, xthr, proc, histVars>>

ExitClosing == \E c \in Chans : closer[c] = "exit" /\ closing[c] # "done"

\* closeAllChannels, next channel.  The channels that are not in ch_info yet
\* have no handler; the order of ch_info is left open.
ExitClose(c) ==
  /\ xpc = "close"
  /\ ~ExitClosing
  /\ CloseExchange(c, "exit")

\* closeAllChannels is over
ExitClosed ==
  /\ xpc = "close"
  /\ ~ExitClosing
  /\ \A c \in Chans : handler_f[c] \notin {"id", "tsc"}
  /\ xpc' = IF xmode = "normal" THEN "check" ELSE "return"
  /\ proc' = IF xmode = "quick" THEN "exited" ELSE proc
  /\ UNCHANGED <<chanVars, closeVars, blockVars, ringVars, queueVars, ctlVars,
                 compVars, ioVars, fileVars, xmode, xthr, histVars>>

\* if (buffer_write_thread != NULL)
ExitCheck ==
  /\ xpc = "check"
  /\ IF buffer_write_thread # NULL
       THEN xpc' = "load" /\ UNCHANGED proc
       ELSE proc' = "exited" /\ UNCHANGED xpc
  /\ UNCHANGED <<chanVars, closeVars, blockVars, ringVars, queueVars, ctlVars,
                 compVars, ioVars, fileVars, xmode, xthr, histVars>>

\* buffer_write_thread.load()-> : a null pointer crashes the process
ExitLoad ==
  /\ xpc = "load"
  /\ xthr' = buffer_write_thread
  /\ xpc' = "join"
  /\ proc' = IF buffer_write_thread = NULL THEN "crashed" ELSE proc
  /\ UNCHANGED <<chanVars, closeVars, blockVars, ringVars, queueVars, ctlVars,
                 compVars, ioVars, fileVars, xmode, histVars>>

\* join()
ExitJoin ==
  /\ xpc = "join"
  /\ ipc[xthr] = "dead"
  /\ proc' = "exited"
  /\ UNCHANGED <<chanVars, closeVars, blockVars, ringVars, queueVars, ctlVars,
                 compVars, ioVars, fileVars, xpc, xmode, xthr, histVars>>

-----------------------------------------------------------------------------
Running == proc = "run"

\* What the program asks for: never forced to happen.
Request(c) ==
  /\ Running
  /\ OpenChannel(c) \/ LogTS(c) \/ CloseChannel(c)

\* What a call on the channel does once it was made.
CallStep(c) ==
  /\ Running
  /\ \/ OpenIOThread(c) \/ OpenIOStore(c)
     \/ OpenCountComp(c) \/ OpenCompThreads(c) \/ OpenDone(c)
     \/ WriteFirst(c) \/ WriteOnBlock(c) \/ EnqueueFull(c) \/ DequeueEmpty(c)

CloseStep(c) ==
  /\ Running
  /\ CloseMark(c) \/ CloseEnqueue(c) \/ CloseDecComp(c) \/ CloseDec(c)

CompStep(t) ==
  /\ Running
  /\ \/ CompPop(t) \/ CompLeaveLoop(t) \/ CompDrained(t) \/ CompStop(t)
     \/ CompressBlock(t) \/ SendBackLoad(t) \/ SendBackStore(t)
     \/ CompPush(t)

IOStep(g) ==
  /\ Running
  /\ \/ IOTest(g) \/ IOTestLeft(g) \/ IOTestRight(g) \/ IOPop(g) \/ IOEmpty(g)
     \/ WriteUncompressed(g) \/ SendBackUncompressed(g)
     \/ ParkCompressed(g) \/ WriteCompressed(g) \/ UnparkCompressed(g)
     \/ UnparkDone(g)
     \/ IOTerminate(g) \/ IOClearIO(g) \/ IOClearComp(g)

ExitRequest == Running /\ (NormalExit \/ Signal)

ExitStep ==
  /\ Running
  /\ \/ \E c \in Chans : ExitClose(c)
     \/ ExitClosed \/ ExitCheck \/ ExitLoad \/ ExitJoin

\* A process that is gone stays gone.
Terminated == ~Running /\ UNCHANGED vars

Next ==
  \/ \E c \in Chans : Request(c) \/ CallStep(c) \/ CloseStep(c)
  \/ \E t \in CompThreads : CompStep(t)
  \/ \E g \in IOThreads : IOStep(g)
  \/ ExitRequest
  \/ ExitStep
  \/ Terminated

Spec == Init /\ [][Next]_vars

\* The operating system runs every thread of the process.
Fairness ==
  /\ \A c \in Chans : WF_vars(CallStep(c)) /\ WF_vars(CloseStep(c))
  /\ \A t \in CompThreads : WF_vars(CompStep(t))
  /\ \A g \in IOThreads : WF_vars(IOStep(g))
  /\ WF_vars(ExitStep)

FairSpec == Spec /\ Fairness

-----------------------------------------------------------------------------
(* Who holds a block.                                                      *)

\* The closure's block pointer is the only reference to the block: not yet
\* enqueued by the handler or by closeChannel (which never enqueues the
\* block of a TSC channel).
ClosureHolds(c) ==
  /\ pc[c] \in {"idle", "write", "full"}
  /\ closing[c] \in {"no", "mark", "enqueue"} \/ c \in Tsc

CompHolds(t) == cpc[t] \in {"compress", "slot", "store"}
IOHolds(g)   == ipc[g] \in {"writeraw", "sendback"}

\* Slot i of the return ring is between the read and the write index.
Live(c, i) ==
  IF ridx[c] <= widx[c] THEN ridx[c] <= i /\ i < widx[c]
                        ELSE ridx[c] <= i \/ i < widx[c]

Holders(b) ==
  {<<"closure", c>> : c \in {d \in Chans : ClosureHolds(d) /\ block[d] = b}}
  \cup {<<"ring", i>> : i \in {j \in RingSlots :
                                 Live(b[1], j) /\ slots[b[1]][j] = b}}
  \cup {<<"compq", i>> : i \in {j \in DOMAIN compression_queue :
                                 compression_queue[j] = b}}
  \cup {<<"comp", t>> : t \in {u \in CompThreads :
                                 CompHolds(u) /\ cblk[u] = b}}
  \cup {<<"ioq", i>> : i \in {j \in DOMAIN io_queue :
                                 io_queue[j].blk = b}}
  \cup {<<"io", g>> : g \in {h \in IOThreads :
                                 IOHolds(h) /\ idata[h].blk = b}}

-----------------------------------------------------------------------------
(* Properties.                                                             *)

ChanOK ==
  /\ pc \in [Chans -> Opening \cup {"idle", "write", "full", "fetch"}]
  /\ handler_f \in [Chans -> {"none", "id", "tsc", "null"}]
  /\ block \in [Chans -> Blocks \cup {NULL}]
  /\ block_cnt \in [Chans -> Nat]
  /\ first_logging \in [Chans -> BOOLEAN]
  /\ closing \in [Chans -> {"no", "mark", "enqueue", "deccomp", "dec", "done"}]
  /\ closer \in [Chans -> {"none", "owner", "exit"}]
  /\ \A c \in Chans :
       /\ handler_f[c] = "none" <=> pc[c] \in Opening
       /\ pc[c] \notin Opening => block[c] \in BlocksOf(c)
       /\ pc[c] \in Opening => closing[c] = "no"

BlockOK ==
  /\ block_id \in [Blocks -> Nat]
  /\ data \in [Blocks -> Seq(Nat)]
  /\ close_file \in [Blocks -> BOOLEAN]

RingOK ==
  /\ slots \in [Chans -> [RingSlots -> Blocks \cup {NULL}]]
  /\ ridx \in [Chans -> RingSlots]
  /\ widx \in [Chans -> RingSlots]
  /\ \A c \in Chans : \A i \in RingSlots : slots[c][i] \in BlocksOf(c) \cup {NULL}

QueueOK ==
  /\ compression_queue \in Seq(Blocks)
  /\ io_queue \in Seq(Item)
  /\ \A i \in 1..Len(io_queue) :
       ~io_queue[i].compress => io_queue[i].blk \in BlocksOf(io_queue[i].ch)

CtlOK ==
  /\ num_buf_ch \in Int
  /\ num_buf_comp_ch \in Int
  /\ io_thread_created \in BOOLEAN
  /\ comp_thread_created \in BOOLEAN
  /\ stop_io_thread \in Nat
  /\ buffer_write_thread \in IOThreads \cup {NULL}
  /\ quick_term \in BOOLEAN

CompOK ==
  /\ cpc \in [CompThreads -> {"unborn", "poll", "compress", "slot", "store",
                              "push", "stop", "dead"}]
  /\ cphase \in [CompThreads -> {"loop", "drain"}]
  /\ cblk \in [CompThreads -> Blocks \cup {NULL}]
  /\ new_block \in [CompThreads -> Item \cup {NULL}]
  /\ cw \in [CompThreads -> RingSlots]
  /\ \A t \in CompThreads :
       /\ cpc[t] \in {"compress", "slot", "store", "push"} => cblk[t] \in Blocks
       /\ cpc[t] \in {"slot", "store", "push"} =>
            new_block[t] \in Item /\ new_block[t].compress

IOOK ==
  /\ ipc \in [IOThreads -> {"unborn", "test", "test2", "pop", "writeraw",
                            "sendback", "writecomp", "unpark", "term",
                            "clear_io", "clear_comp", "dead"}]
  /\ iphase \in [IOThreads -> {"loop", "flush"}]
  /\ idata \in [IOThreads -> Item \cup {NULL}]
  /\ terminate \in [IOThreads -> BOOLEAN]
  /\ \A g \in IOThreads :
       /\ ipc[g] \in {"writeraw", "sendback", "writecomp", "unpark"} =>
            idata[g] \in Item
       /\ ipc[g] \in {"writeraw", "sendback"} =>
            idata[g].blk \in BlocksOf(idata[g].ch)

FileOK ==
  /\ next_block \in [Chans -> Nat]
  /\ pending \in [Chans -> Seq(Item)]
  /\ file \in [Chans -> Seq(Seq(Nat))]
  /\ ch_logf \in [Chans -> {"none", "open", "closed"}]

ExitOK ==
  /\ xpc \in {"no", "close", "check", "load", "join", "return"}
  /\ xmode \in {"none", "normal", "wait", "quick"}
  /\ xthr \in IOThreads \cup {NULL}
  /\ proc \in {"run", "exited", "crashed"}

HistOK ==
  /\ log \in [Chans -> Seq(Seq(Nat))]
  /\ logged \in [Chans -> Nat]
  /\ holder \in [Blocks -> {"none", "closure", "ring", "compq", "comp", "ioq",
                            "io"}]
  /\ \A c \in Chans : pc[c] \notin Opening => log[c] # <<>>

\* Types, and which pointers are set where: a channel past openChannel has a
\* block of its own, a thread that works on a block has one, and the slots of
\* a return ring hold blocks of its own channel (raw pointers in the code).
TypeOK ==
  /\ ChanOK
  /\ BlockOK
  /\ RingOK
  /\ QueueOK
  /\ CtlOK
  /\ CompOK
  /\ IOOK
  /\ FileOK
  /\ ExitOK
  /\ HistOK

\* Every block of an open channel is held in exactly one place: the closure,
\* the return ring, a queue or a thread.  A block held twice is written by one
\* thread while another one drains it; a block held nowhere shrinks the
\* channel's pool until the owner polls forever (block_data.cpp, io_thread.cpp
\* and comp_thread.cpp pass raw pointers around and never count them).  It holds
\* where the IO thread alone pushes to the return rings; with compressed channels
\* every compression thread pushes to them, and two pushes that overlap break it.
OneHolder ==
  \A c \in Chans : pc[c] \notin Opening =>
    \A b \in BlocksOf(c) : \E h \in Holders(b) : Holders(b) = {h}

\* A log file holds what was logged, in the order it was logged, without a
\* gap, a repetition or a mangled block, however the compression threads
\* reorder the blocks (writeCompressedBlock, writeUncompressedBlock), as long as
\* their pushes to a return ring do not overlap.
LogInOrder ==
  \A c \in Chans :
    /\ Len(file[c]) <= Len(log[c])
    /\ \A i \in 1..Len(file[c]) : file[c][i] = log[c][i]

\* The IO thread closes a log file only once everything that was ever logged
\* on the channel is in it: the block marked close_file is the last one to be
\* written, though it may overtake others on the way (io_thread.h:72-75,
\* "close and free the block in right order").  As for LogInOrder, pushes to a
\* return ring must not overlap.
ClosedIsComplete ==
  \A c \in Chans : ch_logf[c] = "closed" => file[c] = log[c]

\* When the process ends through one of the cleanup handlers, every tuple
\* logged is in its file (cleanup.h:24 and :33, "It closes all channels not to
\* lose any log data"), as long as pushes to a return ring do not overlap and no
\* channel is opened while others are closed.
NoLossAtExit ==
  proc = "exited" =>
    \A c \in Chans : \A i \in 1..Len(log[c]) :
      log[c][i] # <<>> => i <= Len(file[c]) /\ file[c][i] = log[c][i]

\* The handler never writes to a block that it has handed over (comment in
\* buffer_closure::closeChannel, buffer_id_handler.cpp:41-49).
WritesOwnBlock ==
  \A c \in Chans :
    pc[c] = "write" /\ ~(c \in Tsc /\ first_logging[c]) => ClosureHolds(c)

\* cleanUpAtNormalExit does not run through a null thread pointer
\* (cleanup.cpp:44-45, the test that precedes the join).
NoCrash == proc # "crashed"

\* A normal exit comes to an end: the IO and compression threads see the
\* counters drop and the join returns (cleanup.h:24-26).
NormalExitEnds == xmode = "normal" ~> ~Running

\* A caller of logTS that polls for an empty block gets one
\* (dequeueEmptyBlockPolling).
PollingEnds == \A c \in Chans : pc[c] = "fetch" ~> (pc[c] = "idle" \/ ~Running)
=============================================================================
