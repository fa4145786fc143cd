------------------------ MODULE BufferPipelineProofs ------------------------
(***************************************************************************)
(* What is proved of BufferPipeline for every set of channels, every       *)
(* number of threads, every queue size and every set of races.             *)
(*                                                                         *)
(* TypeOK is a conjunction of one part per group of variables, and is      *)
(* inductive as it stands: besides the types it says where pointers are    *)
(* set, which is what a step that follows one needs.  TypeStep has one     *)
(* step per action; under it one per part whose variables the action       *)
(* assigns, the other parts following from Frame.                          *)
(*                                                                         *)
(* HolderInv and OrderInv follow, with BlockHeldOnce, FilesInOrder,        *)
(* ClosedComplete and FilesGrow; these assume that exit() does not come    *)
(* while threads are inside the library, and that no two threads push to   *)
(* one return ring at a time.                                              *)
(***************************************************************************)
EXTENDS BufferPipeline, SequenceTheorems, TLAPS

\* What a pop of compression_queue or io_queue returns and leaves.
LEMMA HeadTail ==
  ASSUME NEW S, NEW s \in Seq(S), s # <<>>
  PROVE  /\ Head(s) \in S
         /\ Head(s) = s[1]
         /\ Tail(s) \in Seq(S)
         /\ Len(Tail(s)) = Len(s) - 1
         /\ Len(s) \in Nat \ {0}
         /\ \A i \in 1..Len(Tail(s)) : Tail(s)[i] = s[i + 1]
  OBVIOUS

\* What a push to compression_queue, io_queue, pending or a log file makes.
LEMMA SeqAppend ==
  ASSUME NEW S, NEW s \in Seq(S), NEW e \in S
  PROVE  /\ Append(s, e) \in Seq(S)
         /\ Len(Append(s, e)) = Len(s) + 1
         /\ Append(s, e)[Len(s) + 1] = e
         /\ \A j \in 1..Len(s) : Append(s, e)[j] = s[j]
  OBVIOUS

\* What is left of pending when its top is taken (writeCompressedBlock): one
\* block less, the others in place or one position down.
LEMMA SeqRemove ==
  ASSUME NEW S, NEW s \in Seq(S), NEW i \in 1..Len(s)
  PROVE  /\ RemoveAt(s, i) \in Seq(S)
         /\ Len(RemoveAt(s, i)) = Len(s) - 1
         /\ \A j \in 1..Len(s) - 1 :
              RemoveAt(s, i)[j] = IF j < i THEN s[j] ELSE s[j + 1]
<1> DEFINE p == SubSeq(s, 1, i - 1)
           q == SubSeq(s, i + 1, Len(s))
<1>1. /\ p \in Seq(S) /\ Len(p) = i - 1
      /\ \A j \in 1..i - 1 : p[j] = s[j]
  OBVIOUS
<1>2. /\ q \in Seq(S) /\ Len(q) = Len(s) - i
      /\ \A j \in 1..Len(s) - i : q[j] = s[i + j]
  OBVIOUS
<1>3. RemoveAt(s, i) = p \o q
  BY DEF RemoveAt
<1> HIDE DEF p, q
<1>4. /\ p \o q \in Seq(S)
      /\ Len(p \o q) = Len(s) - 1
      /\ \A j \in 1..Len(s) - 1 :
           (p \o q)[j] = IF j < i THEN p[j] ELSE q[j - (i - 1)]
  <2>1. /\ p \o q \in Seq(S) /\ Len(p \o q) = Len(p) + Len(q)
        /\ \A j \in 1..Len(p) + Len(q) :
             (p \o q)[j] = IF j <= Len(p) THEN p[j] ELSE q[j - Len(p)]
    BY <1>1, <1>2, ConcatProperties
  <2>2. Len(p) + Len(q) = Len(s) - 1
    BY <1>1, <1>2
  <2> QED
    BY <2>1, <2>2, <1>1
<1>5. ASSUME NEW j \in 1..Len(s) - 1
      PROVE  (p \o q)[j] = IF j < i THEN s[j] ELSE s[j + 1]
  <2>1. CASE j < i
    BY <2>1, <1>1, <1>4
  <2>2. CASE ~(j < i)
    <3>1. j - (i - 1) \in 1..Len(s) - i
      BY <2>2
    <3> QED
      BY <3>1, <2>2, <1>2, <1>4
  <2> QED
    BY <2>1, <2>2
<1> QED
  BY <1>3, <1>4, <1>5

\* A block belongs to one channel, and the pointer the IO queue carries for an
\* uncompressed block leads back to it.
LEMMA BlockFacts ==
  /\ \A b \in Blocks : b[1] \in Chans /\ b \in BlocksOf(b[1])
  /\ \A c \in Chans : \A b \in BlocksOf(c) : b \in Blocks /\ b[1] = c
  /\ \A b \in Blocks : RawItem(b) \in Item /\ RawItem(b).blk = b /\ RawItem(b).ch = b[1] /\ ~RawItem(b).compress
  /\ NULL \notin Blocks
BY SetsAssumption DEF Blocks, BlocksOf, RawItem, Item

\* The fields of what the IO queue carries (block_data).
LEMMA ItemFacts ==
  \A d \in Item : /\ d.compress \in BOOLEAN
                  /\ d.ch \in Chans
                  /\ d.block_id \in Nat
                  /\ d.data \in Seq(Nat)
                  /\ d.close_file \in BOOLEAN
BY DEF Item

\* The indices of the return ring stay in the ring, initially included
\* (RETURN_QUEUE_SIZE > NUM_BUFFER_BLOCK: the first fill fits).
LEMMA IndexFacts ==
  /\ \A i \in RingSlots : i \in Nat /\ next_index(i) \in RingSlots
  /\ 0 \in RingSlots /\ 1 \in RingSlots /\ NUM_BUFFER_BLOCK \in RingSlots
BY SizesAssumption DEF RingSlots, next_index

\* A part of the type invariant outlives a step that assigns none of its
\* variables.
LEMMA Frame ==
  /\ ChanOK /\ UNCHANGED <<chanVars, closeVars>> => ChanOK'
  /\ BlockOK /\ UNCHANGED blockVars => BlockOK'
  /\ RingOK /\ UNCHANGED ringVars => RingOK'
  /\ QueueOK /\ UNCHANGED queueVars => QueueOK'
  /\ CtlOK /\ UNCHANGED ctlVars => CtlOK'
  /\ CompOK /\ UNCHANGED compVars => CompOK'
  /\ IOOK /\ UNCHANGED ioVars => IOOK'
  /\ FileOK /\ UNCHANGED fileVars => FileOK'
  /\ ExitOK /\ UNCHANGED exitVars => ExitOK'
  /\ HistOK /\ UNCHANGED <<chanVars, histVars>> => HistOK'
<1>1. ChanOK /\ UNCHANGED <<chanVars, closeVars>> => ChanOK'
  BY DEF ChanOK, chanVars, closeVars
<1>2. BlockOK /\ UNCHANGED blockVars => BlockOK'
  BY DEF BlockOK, blockVars
<1>3. RingOK /\ UNCHANGED ringVars => RingOK'
  BY DEF RingOK, ringVars
<1>4. QueueOK /\ UNCHANGED queueVars => QueueOK'
  BY DEF QueueOK, queueVars
<1>5. CtlOK /\ UNCHANGED ctlVars => CtlOK'
  BY DEF CtlOK, ctlVars
<1>6. CompOK /\ UNCHANGED compVars => CompOK'
  BY DEF CompOK, compVars
<1>7. IOOK /\ UNCHANGED ioVars => IOOK'
  BY DEF IOOK, ioVars
<1>8. FileOK /\ UNCHANGED fileVars => FileOK'
  BY DEF FileOK, fileVars
<1>9. ExitOK /\ UNCHANGED exitVars => ExitOK'
  BY DEF ExitOK, exitVars
<1>10. HistOK /\ UNCHANGED <<chanVars, histVars>> => HistOK'
  BY DEF HistOK, chanVars, histVars
<1>11. QED
  BY <1>1, <1>2, <1>3, <1>4, <1>5, <1>6, <1>7, <1>8, <1>9, <1>10

\* A tuple recorded for logTS leaves the history a sequence of chunks.
LEMMA LogRecord ==
  ASSUME HistOK, NEW c \in Chans, NEW i, RecordTuple(c, i),
         pc[c] \notin Opening,
         \A d \in Chans : pc'[d] \in Opening <=> pc[d] \in Opening
  PROVE  HistOK'
<1>1. log[c] \in Seq(Seq(Nat)) /\ log[c] # <<>> /\ logged[c] + 1 \in Nat
  BY DEF HistOK
<1> DEFINE s == [log[c] EXCEPT ![i] = Append(log[c][i], logged[c] + 1)]
<1>2. s \in Seq(Seq(Nat)) /\ s # <<>>
  <2>1. CASE i \in 1..Len(log[c])
    <3>1. log[c][i] \in Seq(Nat)
      BY <1>1, <2>1
    <3>2. Append(log[c][i], logged[c] + 1) \in Seq(Nat)
      BY <3>1, <1>1
    <3>3. s \in Seq(Seq(Nat)) /\ Len(s) = Len(log[c])
      BY <3>2, <2>1, <1>1, ExceptSeq
    <3>4. QED
      BY <3>3, <1>1
  <2>2. CASE i \notin 1..Len(log[c])
    <3>1. s = log[c]
      BY <2>2, <1>1, LenProperties
    <3>2. QED
      BY <3>1, <1>1
  <2>3. QED
    BY <2>1, <2>2
<1>3. log' = [log EXCEPT ![c] = s]
  BY DEF RecordTuple
<1> HIDE DEF s
<1>4. QED
  BY <1>1, <1>2, <1>3 DEF HistOK, RecordTuple

\* enqueueBlockUntilSuccess puts a block of the right kind into its queue.
LEMMA QueueEnqueue ==
  ASSUME QueueOK, NEW b \in Blocks, enqueueBlock(b)
  PROVE  QueueOK'
<1>1. CASE b[1] \in Compressed
  BY <1>1 DEF QueueOK, enqueueBlock
<1>2. CASE b[1] \notin Compressed
  <2>1. /\ RawItem(b) \in Item
        /\ RawItem(b).blk \in BlocksOf(RawItem(b).ch)
    BY BlockFacts
  <2>2. io_queue' = Append(io_queue, RawItem(b)) /\ UNCHANGED compression_queue
    BY <1>2 DEF enqueueBlock
  <2>3. QED
    BY <2>1, <2>2, SeqAppend DEF QueueOK
<1>3. QED
  BY <1>1, <1>2

\* A write to a log file, open or not, leaves it a sequence of chunks.
LEMMA FileWrite ==
  ASSUME FileOK, NEW c \in Chans, NEW chunk \in Seq(Nat)
  PROVE  /\ Written(c, chunk) \in Seq(Seq(Nat))
         /\ [file EXCEPT ![c] = Written(c, chunk)] \in [Chans -> Seq(Seq(Nat))]
BY DEF FileOK, Written

\* The library starts, before the first openChannel, in a well-typed state.
LEMMA TypeInit == Init => TypeOK
<1> SUFFICES ASSUME Init PROVE TypeOK
  OBVIOUS
<1>1. ChanOK
  BY DEF Init, ChanOK, Opening
<1>2. BlockOK /\ FileOK
  BY DEF Init, BlockOK, FileOK
<1>3. RingOK
  BY IndexFacts DEF Init, RingOK
<1>4. QueueOK
  BY DEF Init, QueueOK
<1>5. CtlOK
  <2>1. num_buf_ch \in Int /\ num_buf_comp_ch \in Int /\ stop_io_thread \in Nat
    BY DEF Init
  <2>2. QED
    BY <2>1, Zenon DEF Init, CtlOK
<1>6. CompOK
  BY IndexFacts DEF Init, CompOK
<1>7. IOOK
  BY DEF Init, IOOK
<1>8. ExitOK
  BY DEF Init, ExitOK
<1>9. HistOK
  BY DEF Init, HistOK, Opening
<1>10. QED
  BY <1>1, <1>2, <1>3, <1>4, <1>5, <1>6, <1>7, <1>8, <1>9 DEF TypeOK

\* Every step of the callers, the compression threads, the IO threads and the
\* cleanup handlers keeps the types and the pointers.
LEMMA TypeStep == TypeOK /\ [Next]_vars => TypeOK'
<1> SUFFICES ASSUME TypeOK, [Next]_vars PROVE TypeOK'
  OBVIOUS
<1>0. /\ ChanOK /\ BlockOK /\ RingOK /\ QueueOK /\ CtlOK
      /\ CompOK /\ IOOK /\ FileOK /\ ExitOK /\ HistOK
  BY DEF TypeOK
<1> USE <1>0
<1>1. ASSUME NEW c \in Chans, OpenChannel(c) PROVE TypeOK'
  <2>1. ChanOK'
    BY <1>1 DEF OpenChannel, ChanOK, Opening, chanVars, closeVars
  <2>2. CtlOK'
    BY <1>1 DEF OpenChannel, CtlOK, ctlVars
  <2>3. HistOK'
    BY <1>1 DEF OpenChannel, HistOK, Opening, chanVars, histVars
  <2>4. QED
    BY <1>1, <2>1, <2>2, <2>3, Frame DEF OpenChannel, TypeOK
<1>2. ASSUME NEW c \in Chans, OpenIOThread(c) PROVE TypeOK'
  <2>1. ChanOK'
    BY <1>2 DEF OpenIOThread, ChanOK, Opening, AfterIO, chanVars, closeVars
  <2>2. CtlOK'
    BY <1>2 DEF OpenIOThread, CtlOK, ctlVars
  <2>3. IOOK'
    BY <1>2 DEF OpenIOThread, IOOK, IOThreads, ioVars
  <2>4. HistOK'
    <3>1. pc'[c] \in Opening /\ pc[c] \in Opening
      BY <1>2 DEF OpenIOThread, Opening, AfterIO, ChanOK
    <3>2. \A d \in Chans : d # c => pc'[d] = pc[d]
      BY <1>2 DEF OpenIOThread, ChanOK
    <3>3. QED
      BY <1>2, <3>1, <3>2 DEF OpenIOThread, HistOK, histVars
  <2>5. QED
    BY <1>2, <2>1, <2>2, <2>3, <2>4, Frame DEF OpenIOThread, TypeOK
<1>3. ASSUME NEW c \in Chans, OpenIOStore(c) PROVE TypeOK'
  <2>1. ChanOK'
    BY <1>3 DEF OpenIOStore, ChanOK, Opening, AfterIO, chanVars, closeVars
  <2>2. CtlOK'
    BY <1>3 DEF OpenIOStore, CtlOK, IOThreads, ctlVars
  <2>3. HistOK'
    BY <1>3 DEF OpenIOStore, HistOK, Opening, AfterIO, chanVars, histVars
  <2>4. QED
    BY <1>3, <2>1, <2>2, <2>3, Frame DEF OpenIOStore, TypeOK
<1>4. ASSUME NEW c \in Chans, OpenCountComp(c) PROVE TypeOK'
  <2>1. ChanOK'
    BY <1>4 DEF OpenCountComp, ChanOK, Opening, chanVars, closeVars
  <2>2. CtlOK'
    BY <1>4 DEF OpenCountComp, CtlOK, ctlVars
  <2>3. HistOK'
    BY <1>4 DEF OpenCountComp, HistOK, Opening, chanVars, histVars
  <2>4. QED
    BY <1>4, <2>1, <2>2, <2>3, Frame DEF OpenCountComp, TypeOK
<1>5. ASSUME NEW c \in Chans, OpenCompThreads(c) PROVE TypeOK'
  <2>1. ChanOK'
    BY <1>5 DEF OpenCompThreads, ChanOK, Opening, chanVars, closeVars
  <2>2. CtlOK'
    BY <1>5 DEF OpenCompThreads, CtlOK, ctlVars
  <2>3. CompOK'
    BY <1>5 DEF OpenCompThreads, CompOK, compVars
  <2>4. HistOK'
    BY <1>5 DEF OpenCompThreads, HistOK, Opening, chanVars, histVars
  <2>5. QED
    BY <1>5, <2>1, <2>2, <2>3, <2>4, Frame DEF OpenCompThreads, TypeOK
<1>6. ASSUME NEW c \in Chans, OpenDone(c) PROVE TypeOK'
  <2>1. ChanOK'
    <3>1. <<c, 1>> \in BlocksOf(c) /\ <<c, 1>> \in Blocks
      BY SizesAssumption DEF BlocksOf, Blocks
    <3>2. QED
      BY <1>6, <3>1 DEF OpenDone, InitBlocks, ChanOK, Opening, closeVars
  <2>2. BlockOK'
    BY <1>6 DEF OpenDone, BlockOK, InitBlocks, Blocks, BlocksOf, blockVars
  <2>3. RingOK'
    <3> DEFINE s == [i \in RingSlots |->
                       IF i < NUM_BUFFER_BLOCK THEN <<c, i + 1>> ELSE NULL]
    <3>1. \A i \in RingSlots : s[i] \in BlocksOf(c) \cup {NULL}
      BY SizesAssumption DEF RingSlots, BlocksOf
    <3>2. s \in [RingSlots -> Blocks \cup {NULL}]
      BY <3>1, BlockFacts
    <3>3. slots' = [slots EXCEPT ![c] = s]
      BY <1>6 DEF OpenDone, InitBlocks
    <3> HIDE DEF s
    <3>4. QED
      BY <1>6, <3>1, <3>2, <3>3, IndexFacts DEF OpenDone, InitBlocks, RingOK
  <2>4. FileOK'
    BY <1>6 DEF OpenDone, FileOK, openLogFile, fileVars
  <2>5. HistOK'
    <3> DEFINE s == [i \in 1..(1 + Direct(c)) |-> <<>>]
    <3>1. s \in Seq(Seq(Nat)) /\ s # <<>>
      BY DEF Direct
    <3>2. log' = [log EXCEPT ![c] = s]
      BY <1>6 DEF OpenDone
    <3> HIDE DEF s
    <3>3. holder' \in [Blocks -> {"none", "closure", "ring", "compq", "comp",
                                  "ioq", "io"}]
      BY <1>6 DEF OpenDone, InitBlocks, HistOK
    <3>4. QED
      <4>1. /\ pc' = [pc EXCEPT ![c] = "idle"]
            /\ UNCHANGED logged
        BY <1>6 DEF OpenDone
      <4>2. QED
        BY <4>1, <3>1, <3>2, <3>3 DEF HistOK, ChanOK, Opening
  <2>6. QED
    BY <1>6, <2>1, <2>2, <2>3, <2>4, <2>5, Frame DEF OpenDone, TypeOK
<1>7. ASSUME NEW c \in Chans, LogTS(c) PROVE TypeOK'
  <2>1. ChanOK'
    BY <1>7 DEF LogTS, ChanOK, Opening, chanVars, closeVars
  <2>2. HistOK'
    BY <1>7 DEF LogTS, HistOK, Opening, chanVars, histVars
  <2>3. QED
    BY <1>7, <2>1, <2>2, Frame DEF LogTS, TypeOK
<1>8. ASSUME NEW c \in Chans, WriteFirst(c) PROVE TypeOK'
  <2>1. ChanOK'
    BY <1>8 DEF WriteFirst, ChanOK, Opening, chanVars, closeVars
  <2>2. FileOK'
    BY <1>8 DEF WriteFirst, FileOK, Written, HistOK, fileVars
  <2>3. HistOK'
    <3>1. pc[c] \notin Opening
      BY <1>8 DEF WriteFirst, Opening
    <3>2. QED
      BY <1>8, <3>1, LogRecord DEF WriteFirst, Opening
  <2>4. QED
    BY <1>8, <2>1, <2>2, <2>3, Frame DEF WriteFirst, TypeOK
<1>9. ASSUME NEW c \in Chans, WriteOnBlock(c) PROVE TypeOK'
  <2>1. ChanOK'
    BY <1>9 DEF WriteOnBlock, ChanOK, Opening, chanVars, closeVars
  <2>2. BlockOK'
    <3>1. block[c] \in Blocks /\ logged[c] + 1 \in Nat
      <4>1. pc[c] \notin Opening
        BY <1>9 DEF WriteOnBlock, Opening
      <4>2. QED
        BY <4>1, BlockFacts DEF ChanOK, HistOK
    <3>2. Append(data[block[c]], logged[c] + 1) \in Seq(Nat)
      BY <3>1, SeqAppend DEF BlockOK
    <3>3. QED
      BY <1>9, <3>1, <3>2 DEF WriteOnBlock, BlockOK
  <2>3. HistOK'
    <3>1. pc[c] \notin Opening
      BY <1>9 DEF WriteOnBlock, Opening
    <3>2. QED
      BY <1>9, <3>1, LogRecord DEF WriteOnBlock, Opening
  <2>4. QED
    BY <1>9, <2>1, <2>2, <2>3, Frame DEF WriteOnBlock, TypeOK
<1>10. ASSUME NEW c \in Chans, EnqueueFull(c) PROVE TypeOK'
  <2>1. ChanOK'
    BY <1>10 DEF EnqueueFull, ChanOK, Opening, chanVars, closeVars
  <2>2. QueueOK'
    <3>1. block[c] \in Blocks
      BY <1>10, BlockFacts DEF EnqueueFull, ChanOK, Opening
    <3>2. QED
      BY <1>10, <3>1, QueueEnqueue DEF EnqueueFull
  <2>3. HistOK'
    <3>1. holder' \in [Blocks -> {"none", "closure", "ring", "compq", "comp",
                                  "ioq", "io"}]
      BY <1>10 DEF EnqueueFull, enqueueBlock, HistOK
    <3>2. pc[c] = "full" /\ pc' = [pc EXCEPT ![c] = "fetch"]
          /\ UNCHANGED <<log, logged>>
      BY <1>10 DEF EnqueueFull
    <3>3. QED
      BY <3>1, <3>2 DEF HistOK, ChanOK, Opening
  <2>4. QED
    BY <1>10, <2>1, <2>2, <2>3, Frame DEF EnqueueFull, TypeOK
<1>11. ASSUME NEW c \in Chans, DequeueEmpty(c) PROVE TypeOK'
  <2>1. ChanOK'
    <3> DEFINE b == slots[c][ridx[c]]
    <3>1. CASE b = NULL
      BY <1>11, <3>1 DEF DequeueEmpty, ChanOK, closeVars
    <3>2. CASE b # NULL
      <4>1. b \in BlocksOf(c) /\ b \in Blocks
        BY <3>2, BlockFacts DEF RingOK
      <4>2. QED
        <5>1. /\ block' = [block EXCEPT ![c] = b]
              /\ block_cnt' = [block_cnt EXCEPT ![c] = @ + 1]
              /\ pc' = [pc EXCEPT ![c] = "idle"]
              /\ UNCHANGED <<handler_f, first_logging, closing, closer>>
              /\ pc[c] = "fetch"
          BY <1>11, <3>2 DEF DequeueEmpty, closeVars
        <5> HIDE DEF b
        <5>2. QED
          BY <4>1, <5>1 DEF ChanOK, Opening
    <3>3. QED
      BY <3>1, <3>2
  <2>2. BlockOK'
    BY <1>11 DEF DequeueEmpty, BlockOK, RingOK, ChanOK, blockVars
  <2>3. RingOK'
    BY <1>11, SizesAssumption DEF DequeueEmpty, RingOK, next_index,
        RingSlots, ringVars
  <2>4. ExitOK'
    BY <1>11 DEF DequeueEmpty, ExitOK, exitVars
  <2>5. HistOK'
    <3> DEFINE b == slots[c][ridx[c]]
    <3>1. CASE b = NULL
      BY <1>11, <3>1 DEF DequeueEmpty, HistOK
    <3>2. CASE b # NULL
      <4>1. Append(log[c], <<>>) \in Seq(Seq(Nat)) /\ Append(log[c], <<>>) # <<>>
        <5>1. log[c] \in Seq(Seq(Nat)) /\ <<>> \in Seq(Nat)
          BY EmptySeq DEF HistOK
        <5>2. QED
          BY <5>1, SeqAppend, EmptySeq, LenProperties
      <4>2. /\ log' = [log EXCEPT ![c] = Append(@, <<>>)]
            /\ holder' = [holder EXCEPT ![b] = "closure"]
            /\ pc' = [pc EXCEPT ![c] = "idle"]
            /\ UNCHANGED logged
        BY <1>11, <3>2 DEF DequeueEmpty
      <4>3. QED
        BY <1>11, <4>1, <4>2 DEF DequeueEmpty, HistOK, ChanOK, Opening
    <3>3. QED
      BY <3>1, <3>2
  <2>6. QED
    BY <1>11, <2>1, <2>2, <2>3, <2>4, <2>5, Frame DEF DequeueEmpty, TypeOK
<1>12. ASSUME NEW c \in Chans, CloseChannel(c) PROVE TypeOK'
  <2>1. ChanOK'
    BY <1>12 DEF CloseChannel, ChanOK, CloseExchange, Opening, chanVars,
        closeVars
  <2>2. HistOK'
    BY <1>12 DEF CloseChannel, HistOK, CloseExchange, chanVars, histVars
  <2>3. QED
    BY <1>12, <2>1, <2>2, Frame DEF CloseChannel, TypeOK, CloseExchange
<1>13. ASSUME NEW c \in Chans, CloseMark(c) PROVE TypeOK'
  <2>1. ChanOK'
    BY <1>13 DEF CloseMark, ChanOK, Opening, chanVars, closeVars
  <2>2. BlockOK'
    BY <1>13 DEF CloseMark, BlockOK, blockVars
  <2>3. QED
    BY <1>13, <2>1, <2>2, Frame DEF CloseMark, TypeOK
<1>14. ASSUME NEW c \in Chans, CloseEnqueue(c) PROVE TypeOK'
  <2>1. ChanOK'
    BY <1>14 DEF CloseEnqueue, ChanOK, Opening, chanVars, closeVars
  <2>2. QueueOK'
    <3>1. block[c] \in Blocks
      BY <1>14, BlockFacts DEF CloseEnqueue, ChanOK, Opening
    <3>2. QED
      BY <1>14, <3>1, QueueEnqueue DEF CloseEnqueue
  <2>3. HistOK'
    BY <1>14 DEF CloseEnqueue, HistOK, enqueueBlock, chanVars, histVars
  <2>4. QED
    BY <1>14, <2>1, <2>2, <2>3, Frame DEF CloseEnqueue, TypeOK
<1>15. ASSUME NEW c \in Chans, CloseDecComp(c) PROVE TypeOK'
  <2>1. ChanOK'
    BY <1>15 DEF CloseDecComp, ChanOK, Opening, chanVars, closeVars
  <2>2. CtlOK'
    BY <1>15 DEF CloseDecComp, CtlOK, ctlVars
  <2>3. QED
    BY <1>15, <2>1, <2>2, Frame DEF CloseDecComp, TypeOK
<1>16. ASSUME NEW c \in Chans, CloseDec(c) PROVE TypeOK'
  <2>1. ChanOK'
    BY <1>16 DEF CloseDec, ChanOK, Opening, chanVars, closeVars
  <2>2. CtlOK'
    BY <1>16 DEF CloseDec, CtlOK, ctlVars
  <2>3. QED
    BY <1>16, <2>1, <2>2, Frame DEF CloseDec, TypeOK
<1>17. ASSUME NEW t \in CompThreads, CompPop(t) PROVE TypeOK'
  <2>1. QueueOK'
    BY <1>17, HeadTail DEF CompPop, QueueOK, queueVars
  <2>2. CompOK'
    BY <1>17, HeadTail DEF CompPop, CompOK, QueueOK, compVars
  <2>3. HistOK'
    BY <1>17, HeadTail DEF CompPop, HistOK, QueueOK, chanVars, histVars
  <2>4. QED
    BY <1>17, <2>1, <2>2, <2>3, Frame DEF CompPop, TypeOK
<1>18. ASSUME NEW t \in CompThreads, CompLeaveLoop(t) PROVE TypeOK'
  <2>1. CompOK'
    BY <1>18 DEF CompLeaveLoop, CompOK, compVars
  <2>2. QED
    BY <1>18, <2>1, Frame DEF CompLeaveLoop, TypeOK
<1>19. ASSUME NEW t \in CompThreads, CompDrained(t) PROVE TypeOK'
  <2>1. CompOK'
    BY <1>19 DEF CompDrained, CompOK, compVars
  <2>2. QED
    BY <1>19, <2>1, Frame DEF CompDrained, TypeOK
<1>20. ASSUME NEW t \in CompThreads, CompStop(t) PROVE TypeOK'
  <2>1. CtlOK'
    BY <1>20 DEF CompStop, CtlOK, ctlVars
  <2>2. CompOK'
    BY <1>20 DEF CompStop, CompOK, compVars
  <2>3. QED
    BY <1>20, <2>1, <2>2, Frame DEF CompStop, TypeOK
<1>21. ASSUME NEW t \in CompThreads, CompressBlock(t) PROVE TypeOK'
  <2>1. BlockOK'
    <3>1. data' \in [Blocks -> Seq(Nat)]
      BY <1>21, EmptySeq DEF CompressBlock, ResetBlock, BlockOK
    <3>2. QED
      BY <1>21, <3>1 DEF CompressBlock, BlockOK
  <2>2. CompOK'
    BY <1>21 DEF CompressBlock, CompOK, CompressedCopy, Item, Blocks,
        BlockOK, compVars
  <2>3. QED
    BY <1>21, <2>1, <2>2, Frame DEF CompressBlock, TypeOK
<1>22. ASSUME NEW t \in CompThreads, SendBackLoad(t) PROVE TypeOK'
  <2>1. CompOK'
    BY <1>22 DEF SendBackLoad, CompOK, Blocks, RingOK, compVars
  <2>2. QED
    BY <1>22, <2>1, Frame DEF SendBackLoad, TypeOK
<1>23. ASSUME NEW t \in CompThreads, SendBackStore(t) PROVE TypeOK'
  <2>1. RingOK'
    BY <1>23, SizesAssumption DEF SendBackStore, RingOK, next_index,
        RingSlots, CompOK, Blocks, BlocksOf, ringVars
  <2>2. CompOK'
    BY <1>23 DEF SendBackStore, CompOK, compVars
  <2>3. HistOK'
    BY <1>23 DEF SendBackStore, HistOK, chanVars, histVars
  <2>4. QED
    BY <1>23, <2>1, <2>2, <2>3, Frame DEF SendBackStore, TypeOK
<1>24. ASSUME NEW t \in CompThreads, CompPush(t) PROVE TypeOK'
  <2>1. QueueOK'
    BY <1>24 DEF CompPush, QueueOK, CompOK, queueVars
  <2>2. CompOK'
    BY <1>24, IndexFacts DEF CompPush, CompOK
  <2>3. QED
    BY <1>24, <2>1, <2>2, Frame DEF CompPush, TypeOK
<1>25. ASSUME NEW g \in IOThreads, IOTest(g) PROVE TypeOK'
  <2>1. IOOK'
    BY <1>25 DEF IOTest, IOOK, IOLoopTest, CtlOK, ioVars
  <2>2. QED
    BY <1>25, <2>1, Frame DEF IOTest, TypeOK, IOLoopTest
<1>26. ASSUME NEW g \in IOThreads, IOTestLeft(g) PROVE TypeOK'
  <2>1. IOOK'
    BY <1>26 DEF IOTestLeft, IOOK, ioVars
  <2>2. QED
    BY <1>26, <2>1, Frame DEF IOTestLeft, TypeOK
<1>27. ASSUME NEW g \in IOThreads, IOTestRight(g) PROVE TypeOK'
  <2>1. IOOK'
    BY <1>27 DEF IOTestRight, IOOK, IOLoopTest, CtlOK, ioVars
  <2>2. QED
    BY <1>27, <2>1, Frame DEF IOTestRight, TypeOK, IOLoopTest
<1>28. ASSUME NEW g \in IOThreads, IOPop(g) PROVE TypeOK'
  <2>1. QueueOK'
    BY <1>28, HeadTail DEF IOPop, QueueOK, queueVars
  <2>2. IOOK'
    BY <1>28, HeadTail DEF IOPop, IOOK, QueueOK, ioVars
  <2>3. HistOK'
    BY <1>28, HeadTail DEF IOPop, HistOK, chanVars, histVars
  <2>4. QED
    BY <1>28, <2>1, <2>2, <2>3, Frame DEF IOPop, TypeOK
<1>29. ASSUME NEW g \in IOThreads, IOEmpty(g) PROVE TypeOK'
  <2>1. IOOK'
    BY <1>29 DEF IOEmpty, IOOK, ioVars
  <2>2. QED
    BY <1>29, <2>1, Frame DEF IOEmpty, TypeOK
<1>30. ASSUME NEW g \in IOThreads, WriteUncompressed(g) PROVE TypeOK'
  <2>1. IOOK'
    BY <1>30 DEF WriteUncompressed, IOOK, ioVars
  <2>2. FileOK'
    <3>1. idata[g] \in Item /\ data[idata[g].blk] \in Seq(Nat)
      BY <1>30, BlockFacts, ItemFacts DEF WriteUncompressed, IOOK, BlockOK
    <3>2. QED
      BY <1>30, <3>1, ItemFacts, FileWrite
      DEF WriteUncompressed, FileOK, closeLogFile
  <2>3. QED
    BY <1>30, <2>1, <2>2, Frame DEF WriteUncompressed, TypeOK
<1>31. ASSUME NEW g \in IOThreads, SendBackUncompressed(g) PROVE TypeOK'
  <2>1. BlockOK'
    <3>1. data' \in [Blocks -> Seq(Nat)]
      BY <1>31, EmptySeq DEF SendBackUncompressed, ResetBlock, BlockOK
    <3>2. QED
      BY <1>31, <3>1 DEF SendBackUncompressed, BlockOK
  <2>2. RingOK'
    BY <1>31, SizesAssumption DEF SendBackUncompressed, RingOK,
        sendBackBlock, next_index, RingSlots, IOOK, Item, Blocks, BlocksOf,
        ringVars
  <2>3. IOOK'
    BY <1>31 DEF SendBackUncompressed, IOOK, AfterBlock, ioVars
  <2>4. HistOK'
    BY <1>31 DEF SendBackUncompressed, HistOK, sendBackBlock, chanVars,
        histVars
  <2>5. QED
    BY <1>31, <2>1, <2>2, <2>3, <2>4, Frame DEF SendBackUncompressed, TypeOK
<1>32. ASSUME NEW g \in IOThreads, ParkCompressed(g) PROVE TypeOK'
  <2>1. IOOK'
    BY <1>32 DEF ParkCompressed, IOOK, AfterBlock, ioVars
  <2>2. FileOK'
    <3>1. idata[g] \in Item /\ idata[g].ch \in Chans
      BY <1>32, ItemFacts DEF ParkCompressed, IOOK
    <3>2. Append(pending[idata[g].ch], idata[g]) \in Seq(Item)
      BY <3>1, SeqAppend DEF FileOK
    <3>3. QED
      BY <1>32, <3>1, <3>2 DEF ParkCompressed, FileOK
  <2>3. QED
    BY <1>32, <2>1, <2>2, Frame DEF ParkCompressed, TypeOK
<1>33. ASSUME NEW g \in IOThreads, WriteCompressed(g) PROVE TypeOK'
  <2>1. IOOK'
    BY <1>33 DEF WriteCompressed, IOOK, ioVars
  <2>2. FileOK'
    <3>1. idata[g] \in Item /\ idata[g].ch \in Chans
      BY <1>33, ItemFacts DEF WriteCompressed, IOOK
    <3>2. QED
      BY <1>33, <3>1, ItemFacts, FileWrite DEF WriteCompressed, FileOK
  <2>3. QED
    BY <1>33, <2>1, <2>2, Frame DEF WriteCompressed, TypeOK
<1>34. ASSUME NEW g \in IOThreads, UnparkCompressed(g) PROVE TypeOK'
  <2>1. FileOK'
    <3> DEFINE c == idata[g].ch
    <3>1. c \in Chans
      BY <1>34, ItemFacts DEF UnparkCompressed, IOOK
    <3>2. PICK i \in DOMAIN pending[c] :
            /\ file' = [file EXCEPT ![c] = Written(c, pending[c][i].data)]
            /\ closeLogFile(c, pending[c][i].close_file)
            /\ pending' = [pending EXCEPT ![c] = RemoveAt(@, i)]
      BY <1>34 DEF UnparkCompressed
    <3> HIDE DEF c
    <3>3. i \in 1..Len(pending[c]) /\ pending[c] \in Seq(Item)
      BY <3>1, <3>2 DEF FileOK
    <3>4. pending[c][i] \in Item
      BY <3>3
    <3>5. pending' \in [Chans -> Seq(Item)]
      BY <3>1, <3>2, <3>3, SeqRemove DEF FileOK
    <3>6. file' \in [Chans -> Seq(Seq(Nat))]
      BY <3>1, <3>2, <3>4, ItemFacts, FileWrite DEF FileOK
    <3>7. next_block' \in [Chans -> Nat]
      <4>1. next_block' = [next_block EXCEPT ![idata[g].ch] = @ + 1]
        BY <1>34 DEF UnparkCompressed
      <4>2. QED
        BY <4>1, <3>1 DEF FileOK, c
    <3>8. QED
      BY <3>1, <3>2, <3>5, <3>6, <3>7 DEF FileOK, closeLogFile
  <2>2. QED
    BY <1>34, <2>1, Frame DEF UnparkCompressed, TypeOK
<1>35. ASSUME NEW g \in IOThreads, UnparkDone(g) PROVE TypeOK'
  <2>1. IOOK'
    BY <1>35 DEF UnparkDone, IOOK, AfterBlock, ioVars
  <2>2. FileOK'
    BY <1>35 DEF UnparkDone, FileOK, closeLogFile, fileVars
  <2>3. QED
    BY <1>35, <2>1, <2>2, Frame DEF UnparkDone, TypeOK
<1>36. ASSUME NEW g \in IOThreads, IOTerminate(g) PROVE TypeOK'
  <2>1. CtlOK'
    BY <1>36 DEF IOTerminate, CtlOK, ctlVars
  <2>2. IOOK'
    BY <1>36 DEF IOTerminate, IOOK, ioVars
  <2>3. ExitOK'
    BY <1>36 DEF IOTerminate, ExitOK, exitVars
  <2>4. QED
    BY <1>36, <2>1, <2>2, <2>3, Frame DEF IOTerminate, TypeOK
<1>37. ASSUME NEW g \in IOThreads, IOClearIO(g) PROVE TypeOK'
  <2>1. CtlOK'
    BY <1>37 DEF IOClearIO, CtlOK, ctlVars
  <2>2. IOOK'
    BY <1>37 DEF IOClearIO, IOOK, ioVars
  <2>3. QED
    BY <1>37, <2>1, <2>2, Frame DEF IOClearIO, TypeOK
<1>38. ASSUME NEW g \in IOThreads, IOClearComp(g) PROVE TypeOK'
  <2>1. CtlOK'
    BY <1>38 DEF IOClearComp, CtlOK, ctlVars
  <2>2. IOOK'
    BY <1>38 DEF IOClearComp, IOOK, ioVars
  <2>3. QED
    BY <1>38, <2>1, <2>2, Frame DEF IOClearComp, TypeOK
<1>39. ASSUME NormalExit PROVE TypeOK'
  <2>1. ExitOK'
    BY <1>39 DEF NormalExit, ExitOK, exitVars
  <2>2. QED
    BY <1>39, <2>1, Frame DEF NormalExit, TypeOK
<1>40. ASSUME Signal PROVE TypeOK'
  <2>1. CtlOK'
    BY <1>40 DEF Signal, CtlOK, ctlVars
  <2>2. ExitOK'
    BY <1>40 DEF Signal, ExitOK, exitVars
  <2>3. QED
    BY <1>40, <2>1, <2>2, Frame DEF Signal, TypeOK
<1>41. ASSUME NEW c \in Chans, ExitClose(c) PROVE TypeOK'
  <2>1. ChanOK'
    BY <1>41 DEF ExitClose, ChanOK, CloseExchange, Opening, chanVars,
        closeVars
  <2>2. HistOK'
    BY <1>41 DEF ExitClose, HistOK, CloseExchange, chanVars, histVars
  <2>3. QED
    BY <1>41, <2>1, <2>2, Frame DEF ExitClose, TypeOK, CloseExchange
<1>42. ASSUME ExitClosed PROVE TypeOK'
  <2>1. ExitOK'
    BY <1>42 DEF ExitClosed, ExitOK, exitVars
  <2>2. QED
    BY <1>42, <2>1, Frame DEF ExitClosed, TypeOK
<1>43. ASSUME ExitCheck PROVE TypeOK'
  <2>1. ExitOK'
    BY <1>43 DEF ExitCheck, ExitOK, exitVars
  <2>2. QED
    BY <1>43, <2>1, Frame DEF ExitCheck, TypeOK
<1>44. ASSUME ExitLoad PROVE TypeOK'
  <2>1. ExitOK'
    BY <1>44 DEF ExitLoad, ExitOK, CtlOK, exitVars
  <2>2. QED
    BY <1>44, <2>1, Frame DEF ExitLoad, TypeOK
<1>45. ASSUME ExitJoin PROVE TypeOK'
  <2>1. ExitOK'
    BY <1>45 DEF ExitJoin, ExitOK, exitVars
  <2>2. QED
    BY <1>45, <2>1, Frame DEF ExitJoin, TypeOK
<1>46. CASE UNCHANGED vars
  BY <1>46, Frame DEF TypeOK, vars
<1>47. QED
  BY <1>1, <1>2, <1>3, <1>4, <1>5, <1>6, <1>7, <1>8, <1>9, <1>10, <1>11,
      <1>12, <1>13, <1>14, <1>15, <1>16, <1>17, <1>18, <1>19, <1>20, <1>21,
      <1>22, <1>23, <1>24, <1>25, <1>26, <1>27, <1>28, <1>29, <1>30, <1>31,
      <1>32, <1>33, <1>34, <1>35, <1>36, <1>37, <1>38, <1>39, <1>40, <1>41,
      <1>42, <1>43, <1>44, <1>45, <1>46 DEF Next, Request, CallStep,
      CloseStep, CompStep, IOStep, ExitRequest, ExitStep, Terminated

\* Type correctness of the pipeline, for every value of the constants: every
\* place that follows a pointer (a channel's block, a thread's block, a copy
\* on its way to the file) has one, whichever calls, threads and races.
THEOREM TypeCorrect == Spec => []TypeOK
BY TypeInit, TypeStep, PTL DEF Spec

-----------------------------------------------------------------------------
(* What is proved of the blocks of BufferPipeline, for every set of        *)
(* channels, every number of threads and every queue size: each block is   *)
(* in one place.  The hypotheses are the two schedules that break it: two  *)
(* compression threads in one return ring, and an exit() that closes a     *)
(* channel whose owner is inside logTS.                                    *)
(*                                                                         *)
(* The history variable holder names the place each block was put last.    *)
(* The invariant says of each kind of place that the blocks in it are      *)
(* those that holder says, each once; a step that moves a block from one   *)
(* place to another then concerns two of the parts, the others following   *)
(* from what they have in common.                                          *)

\* closeChannel, by the owner or by the sweep at the end, finds the owner outside the
\* handler, and keeps it out.
CallsApart ==
  /\ \A c \in Chans : closing[c] # "no" => pc[c] = "idle" /\ handler_f[c] = "null"
  /\ \A c \in Chans : handler_f[c] = "id" \/ closing[c] \notin {"no", "done"} => c \notin Tsc
  /\ \A c \in Chans : handler_f[c] = "tsc" => c \in Tsc
  /\ xpc = "close" => \A c \in Chans : pc[c] \in {"new", "idle"}

\* A thread has not run before the channel that starts it is opened.
Unborn ==
  /\ \A c \in Chans : pc[c] \in {"new", "io"} => ipc[c] = "unborn"
  /\ \A t \in CompThreads : pc[t[1]] \in Opening \ {"init"} => cpc[t] = "unborn"

\* Compressed channels use the compression threads and send copies on, the others send
\* their blocks.
KindsRight ==
  /\ \A i \in 1..Len(compression_queue) : compression_queue[i][1] \in Compressed
  /\ \A t \in CompThreads : CompHolds(t) => cblk[t][1] \in Compressed
  /\ \A t \in CompThreads : cpc[t] \in {"slot", "store", "push"} => new_block[t].blk = NULL
  /\ \A i \in 1..Len(io_queue) : IF io_queue[i].compress THEN io_queue[i].blk = NULL
                                 ELSE io_queue[i].ch \notin Compressed
  /\ \A g \in IOThreads : IOHolds(g) => idata[g].ch \notin Compressed

\* A compression thread between the two halves of a push has the write index, alone,
\* and room for its block.
StoreRight ==
  /\ \A t \in CompThreads : cpc[t] = "store" =>
       cw[t] = widx[cblk[t][1]] /\ ~ring_full(cblk[t][1])
  /\ \A t, u \in CompThreads :
       cpc[t] = "store" /\ cpc[u] = "store" /\ cblk[t][1] = cblk[u][1] => t = u
  /\ \A c \in Chans : pc[c] \in Opening => ridx[c] = widx[c]

\* The blocks in each kind of place are those holder says, each once.
ClosureTag ==
  /\ \A c \in Chans : ClosureHolds(c) => holder[block[c]] = "closure"
  /\ \A b \in Blocks : holder[b] = "closure" => ClosureHolds(b[1]) /\ block[b[1]] = b

RingTag ==
  /\ \A c \in Chans : \A i \in RingSlots :
       Live(c, i) /\ slots[c][i] # NULL => holder[slots[c][i]] = "ring"
  /\ \A c \in Chans : \A i, j \in RingSlots :
       Live(c, i) /\ Live(c, j) /\ slots[c][i] = slots[c][j] /\ slots[c][i] # NULL => i = j
  /\ \A b \in Blocks : holder[b] = "ring" =>
       \E i \in RingSlots : Live(b[1], i) /\ slots[b[1]][i] = b

CompqTag ==
  /\ \A i \in 1..Len(compression_queue) : holder[compression_queue[i]] = "compq"
  /\ \A i, j \in 1..Len(compression_queue) :
       compression_queue[i] = compression_queue[j] => i = j
  /\ \A b \in Blocks : holder[b] = "compq" =>
       \E i \in 1..Len(compression_queue) : compression_queue[i] = b

CompTag ==
  /\ \A t \in CompThreads : CompHolds(t) => holder[cblk[t]] = "comp"
  /\ \A t, u \in CompThreads : CompHolds(t) /\ CompHolds(u) /\ cblk[t] = cblk[u] => t = u
  /\ \A b \in Blocks : holder[b] = "comp" =>
       \E t \in CompThreads : CompHolds(t) /\ cblk[t] = b

IoqTag ==
  /\ \A i \in 1..Len(io_queue) : ~io_queue[i].compress => holder[io_queue[i].blk] = "ioq"
  /\ \A i, j \in 1..Len(io_queue) :
       ~io_queue[i].compress /\ ~io_queue[j].compress /\ io_queue[i].blk = io_queue[j].blk => i = j
  /\ \A b \in Blocks : holder[b] = "ioq" =>
       \E i \in 1..Len(io_queue) : ~io_queue[i].compress /\ io_queue[i].blk = b

IoTag ==
  /\ \A g \in IOThreads : IOHolds(g) => holder[idata[g].blk] = "io"
  /\ \A g, h \in IOThreads : IOHolds(g) /\ IOHolds(h) /\ idata[g].blk = idata[h].blk => g = h
  /\ \A b \in Blocks : holder[b] = "io" =>
       \E g \in IOThreads : IOHolds(g) /\ idata[g].blk = b

NoneTag == \A b \in Blocks : holder[b] = "none" <=> pc[b[1]] \in Opening

Tags == ClosureTag /\ RingTag /\ CompqTag /\ CompTag /\ IoqTag /\ IoTag /\ NoneTag

\* The inductive invariant
HolderInv == TypeOK /\ CallsApart /\ Unborn /\ KindsRight /\ StoreRight /\ Tags

-----------------------------------------------------------------------------
\* Every block of the pipeline that is used is a block.
LEMMA HeldBlocks ==
  ASSUME TypeOK
  PROVE  /\ \A c \in Chans : ClosureHolds(c) => block[c] \in BlocksOf(c) /\ block[c] \in Blocks
         /\ \A c \in Chans : \A i \in RingSlots :
              slots[c][i] # NULL => slots[c][i] \in BlocksOf(c) /\ slots[c][i] \in Blocks
         /\ compression_queue \in Seq(Blocks)
         /\ \A t \in CompThreads : CompHolds(t) => cblk[t] \in Blocks
         /\ io_queue \in Seq(Item)
         /\ \A i \in 1..Len(io_queue) : ~io_queue[i].compress =>
              io_queue[i].blk \in BlocksOf(io_queue[i].ch) /\ io_queue[i].blk \in Blocks
         /\ \A g \in IOThreads : IOHolds(g) =>
              idata[g].blk \in BlocksOf(idata[g].ch) /\ idata[g].blk \in Blocks
<1>1. \A c \in Chans : ClosureHolds(c) => block[c] \in BlocksOf(c)
  BY DEF TypeOK, ChanOK, ClosureHolds, Opening
<1>2. \A c \in Chans : \A i \in RingSlots : slots[c][i] # NULL => slots[c][i] \in BlocksOf(c)
  BY DEF TypeOK, RingOK
<1>3. \A t \in CompThreads : CompHolds(t) => cblk[t] \in Blocks
  BY DEF TypeOK, CompOK, CompHolds
<1>4. io_queue \in Seq(Item)
  BY DEF TypeOK, QueueOK
<1>5. \A i \in 1..Len(io_queue) : ~io_queue[i].compress =>
        io_queue[i].blk \in BlocksOf(io_queue[i].ch) /\ io_queue[i].ch \in Chans
  BY <1>4, ItemFacts DEF TypeOK, QueueOK
<1>6. \A g \in IOThreads : IOHolds(g) =>
        idata[g].blk \in BlocksOf(idata[g].ch) /\ idata[g].ch \in Chans
  BY ItemFacts DEF TypeOK, IOOK, IOHolds
<1> QED
  BY <1>1, <1>2, <1>3, <1>4, <1>5, <1>6, BlockFacts DEF TypeOK, QueueOK

\* A step after which the same blocks are at place p.
SameAt(p) == \A b \in Blocks : holder'[b] = p <=> holder[b] = p

SameClosures ==
  \A c \in Chans : /\ ClosureHolds(c)' <=> ClosureHolds(c)
                   /\ ClosureHolds(c) => block'[c] = block[c]
SameComps ==
  \A t \in CompThreads : /\ CompHolds(t)' <=> CompHolds(t)
                         /\ CompHolds(t) => cblk'[t] = cblk[t]
SameIOs ==
  \A g \in IOThreads : /\ IOHolds(g)' <=> IOHolds(g)
                       /\ IOHolds(g) => idata'[g] = idata[g]
SameOpening == \A c \in Chans : pc'[c] \in Opening <=> pc[c] \in Opening

\* A place that a step does not concern is as right after it as before.
LEMMA KeepClosure ==
  ASSUME TypeOK, ClosureTag, SameAt("closure"), SameClosures PROVE ClosureTag'
<1>1. ASSUME NEW c \in Chans, ClosureHolds(c)' PROVE holder'[block'[c]] = "closure"
  BY <1>1, HeldBlocks DEF ClosureTag, SameAt, SameClosures
<1>2. ASSUME NEW b \in Blocks, holder'[b] = "closure"
      PROVE  ClosureHolds(b[1])' /\ block'[b[1]] = b
  <2>1. b[1] \in Chans /\ ClosureHolds(b[1]) /\ block[b[1]] = b
    BY <1>2, BlockFacts DEF ClosureTag, SameAt
  <2>2. PICK c \in Chans : c = b[1]
    BY <2>1
  <2>3. ClosureHolds(c)' /\ block'[c] = b
    BY <2>1, <2>2 DEF SameClosures
  <2> QED
    BY <2>2, <2>3
<1> QED
  BY <1>1, <1>2 DEF ClosureTag

\* The same for the return rings, when no ring changes.
LEMMA KeepRing ==
  ASSUME TypeOK, RingTag, SameAt("ring"), UNCHANGED ringVars PROVE RingTag'
BY HeldBlocks DEF RingTag, SameAt, ringVars, Live

\* The same for the compression queue.
LEMMA KeepCompq ==
  ASSUME TypeOK, CompqTag, SameAt("compq"), UNCHANGED compression_queue PROVE CompqTag'
BY HeldBlocks DEF CompqTag, SameAt

\* The same for the blocks in the hands of the compression threads.
LEMMA KeepComp ==
  ASSUME TypeOK, CompTag, SameAt("comp"), SameComps PROVE CompTag'
<1>1. ASSUME NEW t \in CompThreads, CompHolds(t)' PROVE holder'[cblk'[t]] = "comp"
  BY <1>1, HeldBlocks DEF CompTag, SameAt, SameComps
<1>2. ASSUME NEW t \in CompThreads, NEW u \in CompThreads, CompHolds(t)', CompHolds(u)',
             cblk'[t] = cblk'[u]
      PROVE  t = u
  BY <1>2 DEF CompTag, SameComps
<1>3. ASSUME NEW b \in Blocks, holder'[b] = "comp"
      PROVE  \E t \in CompThreads : CompHolds(t)' /\ cblk'[t] = b
  BY <1>3 DEF CompTag, SameAt, SameComps
<1> QED
  BY <1>1, <1>2, <1>3 DEF CompTag

\* The same for the IO queue.
LEMMA KeepIoq ==
  ASSUME TypeOK, IoqTag, SameAt("ioq"), UNCHANGED io_queue PROVE IoqTag'
BY HeldBlocks DEF IoqTag, SameAt

\* The same for the blocks in the hands of the IO threads.
LEMMA KeepIo ==
  ASSUME TypeOK, IoTag, SameAt("io"), SameIOs PROVE IoTag'
<1>1. ASSUME NEW g \in IOThreads, IOHolds(g)' PROVE holder'[idata'[g].blk] = "io"
  BY <1>1, HeldBlocks DEF IoTag, SameAt, SameIOs
<1>2. ASSUME NEW g \in IOThreads, NEW h \in IOThreads, IOHolds(g)', IOHolds(h)',
             idata'[g].blk = idata'[h].blk
      PROVE  g = h
  BY <1>2 DEF IoTag, SameIOs
<1>3. ASSUME NEW b \in Blocks, holder'[b] = "io"
      PROVE  \E g \in IOThreads : IOHolds(g)' /\ idata'[g].blk = b
  BY <1>3 DEF IoTag, SameAt, SameIOs
<1> QED
  BY <1>1, <1>2, <1>3 DEF IoTag

\* The same for the blocks that do not exist yet.
LEMMA KeepNone ==
  ASSUME NoneTag, SameAt("none"), SameOpening PROVE NoneTag'
BY BlockFacts DEF NoneTag, SameAt, SameOpening

\* A step that moves no block keeps all of them.
LEMMA Steady ==
  ASSUME TypeOK, Tags, UNCHANGED <<holder, ringVars, queueVars>>, SameClosures, SameComps,
         SameIOs, SameOpening
  PROVE  Tags'
<1>1. \A p : SameAt(p)
  BY DEF SameAt
<1> QED
  BY <1>1, KeepClosure, KeepRing, KeepCompq, KeepComp, KeepIoq, KeepIo, KeepNone
     DEF Tags, queueVars

-----------------------------------------------------------------------------
\* The indices of the ring: a push makes the slot at the write index live, a pop takes
\* the one at the read index away, and another ring is not concerned.
LEMMA PushIndex ==
  ASSUME TypeOK, NEW c \in Chans, ~ring_full(c),
         widx' = [widx EXCEPT ![c] = next_index(widx[c])], ridx' = ridx
  PROVE  /\ \A i \in RingSlots : Live(c, i)' <=> Live(c, i) \/ i = widx[c]
         /\ ~Live(c, widx[c]) /\ widx[c] \in RingSlots
         /\ \A d \in Chans : d # c => \A i \in RingSlots : Live(d, i)' <=> Live(d, i)
<1>1. widx[c] \in RingSlots /\ ridx[c] \in RingSlots /\ ridx'[c] = ridx[c]
      /\ widx'[c] = next_index(widx[c])
  BY DEF TypeOK, RingOK
<1>2. \A d \in Chans : d # c => ridx'[d] = ridx[d] /\ widx'[d] = widx[d]
  BY DEF TypeOK, RingOK
<1>3. \A i \in RingSlots : Live(c, i)' <=> Live(c, i) \/ i = widx[c]
  BY <1>1, SizesAssumption DEF Live, ring_full, next_index, RingSlots
<1>4. ~Live(c, widx[c])
  BY <1>1, SizesAssumption DEF Live, RingSlots
<1> QED
  BY <1>1, <1>2, <1>3, <1>4 DEF Live

\* A pop takes the slot at the read index out of the ring and leaves the others.
LEMMA PopIndex ==
  ASSUME TypeOK, NEW c \in Chans, ~ring_empty(c),
         ridx' = [ridx EXCEPT ![c] = next_index(ridx[c])], widx' = widx
  PROVE  /\ \A i \in RingSlots : Live(c, i)' <=> Live(c, i) /\ i # ridx[c]
         /\ Live(c, ridx[c]) /\ ridx[c] \in RingSlots
         /\ \A d \in Chans : d # c => \A i \in RingSlots : Live(d, i)' <=> Live(d, i)
<1>1. widx[c] \in RingSlots /\ ridx[c] \in RingSlots /\ widx'[c] = widx[c]
      /\ ridx'[c] = next_index(ridx[c])
  BY DEF TypeOK, RingOK
<1>2. \A d \in Chans : d # c => ridx'[d] = ridx[d] /\ widx'[d] = widx[d]
  BY DEF TypeOK, RingOK
<1>3. \A i \in RingSlots : Live(c, i)' <=> Live(c, i) /\ i # ridx[c]
  BY <1>1, SizesAssumption DEF Live, ring_empty, next_index, RingSlots
<1>4. Live(c, ridx[c])
  BY <1>1, SizesAssumption DEF Live, ring_empty, RingSlots
<1> QED
  BY <1>1, <1>2, <1>3, <1>4 DEF Live

\* A block that comes back to the ring of its channel is in it once.
LEMMA EnterRing ==
  ASSUME TypeOK, RingTag, NEW c \in Chans, NEW b \in BlocksOf(c), holder[b] # "ring",
         ~ring_full(c),
         slots' = [slots EXCEPT ![c] = [slots[c] EXCEPT ![widx[c]] = b]],
         widx' = [widx EXCEPT ![c] = next_index(widx[c])], ridx' = ridx,
         holder' = [holder EXCEPT ![b] = "ring"]
  PROVE  RingTag'
<1>1. b \in Blocks /\ b[1] = c /\ b # NULL
  BY BlockFacts
<1>2. /\ \A i \in RingSlots : Live(c, i)' <=> Live(c, i) \/ i = widx[c]
      /\ ~Live(c, widx[c]) /\ widx[c] \in RingSlots
      /\ \A d \in Chans : d # c => \A i \in RingSlots : Live(d, i)' <=> Live(d, i)
  BY PushIndex
<1>3. /\ slots'[c][widx[c]] = b
      /\ \A i \in RingSlots : i # widx[c] => slots'[c][i] = slots[c][i]
      /\ \A d \in Chans : d # c => slots'[d] = slots[d]
  BY <1>2 DEF TypeOK, RingOK
<1>4. holder'[b] = "ring" /\ \A d \in Blocks : d # b => holder'[d] = holder[d]
  BY <1>1 DEF TypeOK, HistOK
<1>5. ASSUME NEW d \in Chans, NEW i \in RingSlots, Live(d, i)', slots'[d][i] # NULL
      PROVE  /\ holder'[slots'[d][i]] = "ring"
             /\ (Live(d, i) /\ slots'[d][i] = slots[d][i]) \/ (d = c /\ i = widx[c])
  <2>1. CASE d = c /\ i = widx[c]
    BY <2>1, <1>3, <1>4
  <2>2. CASE ~(d = c /\ i = widx[c])
    <3>1. Live(d, i) /\ slots'[d][i] = slots[d][i]
      BY <2>2, <1>2, <1>3, <1>5
    <3>2. holder[slots[d][i]] = "ring" /\ slots[d][i] \in Blocks
      BY <3>1, <1>5, HeldBlocks DEF RingTag
    <3> QED
      BY <3>1, <3>2, <1>4
  <2> QED
    BY <2>1, <2>2
<1>6. ASSUME NEW d \in Chans, NEW i \in RingSlots, NEW j \in RingSlots, Live(d, i)',
             Live(d, j)', slots'[d][i] = slots'[d][j], slots'[d][i] # NULL
      PROVE  i = j
  <2>1. \A k \in RingSlots : Live(d, k) /\ slots[d][k] # NULL => slots[d][k] # b
    BY DEF RingTag
  <2> QED
    BY <1>2, <1>3, <1>5, <1>6, <2>1 DEF RingTag
<1>7. ASSUME NEW d \in Blocks, holder'[d] = "ring"
      PROVE  \E i \in RingSlots : Live(d[1], i)' /\ slots'[d[1]][i] = d
  <2>1. CASE d = b
    BY <2>1, <1>1, <1>2, <1>3
  <2>2. CASE d # b
    <3>1. d[1] \in Chans
      BY BlockFacts
    <3>2. PICK i \in RingSlots : Live(d[1], i) /\ slots[d[1]][i] = d
      BY <2>2, <1>4, <1>7 DEF RingTag
    <3>3. Live(d[1], i)' /\ slots'[d[1]][i] = d
      BY <3>1, <3>2, <1>2, <1>3
    <3> QED
      BY <3>3
  <2> QED
    BY <2>1, <2>2
<1> QED
  BY <1>5, <1>6, <1>7 DEF RingTag

\* A block the owner takes from its ring is not in it any more.
LEMMA LeaveRing ==
  ASSUME TypeOK, RingTag, NEW c \in Chans, ~ring_empty(c), NEW b \in Blocks,
         b = slots[c][ridx[c]], slots' = slots, widx' = widx,
         ridx' = [ridx EXCEPT ![c] = next_index(ridx[c])],
         holder' = [holder EXCEPT ![b] = "closure"]
  PROVE  RingTag' /\ holder[b] = "ring" /\ b[1] = c
<1>1. /\ \A i \in RingSlots : Live(c, i)' <=> Live(c, i) /\ i # ridx[c]
      /\ Live(c, ridx[c]) /\ ridx[c] \in RingSlots
      /\ \A d \in Chans : d # c => \A i \in RingSlots : Live(d, i)' <=> Live(d, i)
  BY PopIndex
<1>2. b # NULL /\ b \in BlocksOf(c) /\ b[1] = c /\ holder[b] = "ring"
  BY <1>1, BlockFacts, HeldBlocks DEF RingTag
<1>3. holder'[b] = "closure" /\ \A d \in Blocks : d # b => holder'[d] = holder[d]
  BY DEF TypeOK, HistOK
<1>4. ASSUME NEW d \in Chans, NEW i \in RingSlots, Live(d, i)', slots[d][i] # NULL
      PROVE  holder'[slots[d][i]] = "ring" /\ Live(d, i)
  <2>1. Live(d, i) /\ slots[d][i] \in BlocksOf(d) /\ slots[d][i] \in Blocks
    BY <1>1, <1>4, HeldBlocks
  <2>2. slots[d][i] # b
    <3>1. CASE d = c
      BY <3>1, <2>1, <1>1, <1>2, <1>4 DEF RingTag
    <3>2. CASE d # c
      BY <3>2, <2>1, <1>2, BlockFacts
    <3> QED
      BY <3>1, <3>2
  <2> QED
    BY <2>1, <2>2, <1>3, <1>4 DEF RingTag
<1>5. ASSUME NEW d \in Blocks, holder'[d] = "ring"
      PROVE  \E i \in RingSlots : Live(d[1], i)' /\ slots[d[1]][i] = d
  <2>1. d # b /\ d[1] \in Chans
    BY <1>3, <1>5, BlockFacts
  <2>2. PICK i \in RingSlots : Live(d[1], i) /\ slots[d[1]][i] = d
    BY <2>1, <1>3, <1>5 DEF RingTag
  <2>3. Live(d[1], i)'
    BY <2>1, <2>2, <1>1
  <2> QED
    BY <2>2, <2>3
<1> QED
  BY <1>2, <1>4, <1>5 DEF RingTag

\* A step that moves one block concerns the place it leaves and the one it goes to.
LEMMA MoveOne ==
  ASSUME TypeOK, NEW b \in Blocks, NEW p, holder' = [holder EXCEPT ![b] = p]
  PROVE  /\ holder'[b] = p /\ \A d \in Blocks : d # b => holder'[d] = holder[d]
         /\ \A q : q # p /\ q # holder[b] => SameAt(q)
<1>1. holder'[b] = p /\ \A d \in Blocks : d # b => holder'[d] = holder[d]
  BY DEF TypeOK, HistOK
<1> QED
  BY <1>1 DEF SameAt

\* A block the closure has is put at the end of the queue of its kind.
LEMMA EnterQueue ==
  ASSUME HolderInv, NEW b \in Blocks, holder[b] = "closure", enqueueBlock(b)
  PROVE  /\ CompqTag' /\ IoqTag' /\ holder'[b] \in {"compq", "ioq"}
         /\ holder' = [holder EXCEPT ![b] = holder'[b]]
         /\ (\A i \in 1..Len(compression_queue') : compression_queue'[i][1] \in Compressed)
         /\ \A i \in 1..Len(io_queue') : IF io_queue'[i].compress THEN io_queue'[i].blk = NULL
                                         ELSE io_queue'[i].ch \notin Compressed
<1> USE DEF HolderInv, Tags
<1>0. compression_queue \in Seq(Blocks) /\ io_queue \in Seq(Item)
  BY HeldBlocks
<1>1. CASE b[1] \in Compressed
  <2>1. /\ compression_queue' = Append(compression_queue, b) /\ io_queue' = io_queue
        /\ holder' = [holder EXCEPT ![b] = "compq"]
    BY <1>1 DEF enqueueBlock
  <2>2. /\ holder'[b] = "compq" /\ \A d \in Blocks : d # b => holder'[d] = holder[d]
        /\ SameAt("ioq")
    BY <2>1, MoveOne
  <2>3. /\ Len(compression_queue') = Len(compression_queue) + 1
        /\ compression_queue'[Len(compression_queue) + 1] = b
        /\ \A i \in 1..Len(compression_queue) : compression_queue'[i] = compression_queue[i]
        /\ Len(compression_queue) \in Nat
    BY <1>0, <2>1, SeqAppend
  <2>4. \A i \in 1..Len(compression_queue) :
          /\ compression_queue[i] \in Blocks /\ compression_queue[i] # b
          /\ holder[compression_queue[i]] = "compq"
    BY <1>0 DEF CompqTag
  <2>5. \A i \in 1..Len(compression_queue') :
          i \in 1..Len(compression_queue) \/ i = Len(compression_queue) + 1
    BY <2>3
  <2>6. CompqTag'
    <3>1. ASSUME NEW i \in 1..Len(compression_queue')
          PROVE  holder'[compression_queue'[i]] = "compq"
      BY <2>2, <2>3, <2>4, <2>5
    <3>2. ASSUME NEW i \in 1..Len(compression_queue'), NEW j \in 1..Len(compression_queue'),
                 compression_queue'[i] = compression_queue'[j]
          PROVE  i = j
      BY <2>3, <2>4, <2>5, <3>2 DEF CompqTag
    <3>3. ASSUME NEW d \in Blocks, holder'[d] = "compq"
          PROVE  \E i \in 1..Len(compression_queue') : compression_queue'[i] = d
      <4>1. CASE d = b
        BY <4>1, <2>3
      <4>2. CASE d # b
        <5>1. PICK i \in 1..Len(compression_queue) : compression_queue[i] = d
          BY <4>2, <2>2, <3>3 DEF CompqTag
        <5>2. i \in 1..Len(compression_queue')
          BY <2>3
        <5> QED
          BY <5>1, <5>2, <2>3
      <4> QED
        BY <4>1, <4>2
    <3> QED
      BY <3>1, <3>2, <3>3 DEF CompqTag
  <2>7. IoqTag'
    BY <2>1, <2>2, KeepIoq
  <2> QED
    BY <1>1, <2>1, <2>2, <2>3, <2>5, <2>6, <2>7 DEF KindsRight
<1>2. CASE b[1] \notin Compressed
  <2>1. /\ compression_queue' = compression_queue /\ io_queue' = Append(io_queue, RawItem(b))
        /\ holder' = [holder EXCEPT ![b] = "ioq"]
    BY <1>2 DEF enqueueBlock
  <2>2. /\ holder'[b] = "ioq" /\ \A d \in Blocks : d # b => holder'[d] = holder[d]
        /\ SameAt("compq")
    BY <2>1, MoveOne
  <2>3. /\ Len(io_queue') = Len(io_queue) + 1
        /\ io_queue'[Len(io_queue) + 1] = RawItem(b)
        /\ \A i \in 1..Len(io_queue) : io_queue'[i] = io_queue[i]
        /\ Len(io_queue) \in Nat
    BY <1>0, <2>1, SeqAppend, BlockFacts
  <2>4. /\ RawItem(b).blk = b /\ RawItem(b).ch = b[1] /\ ~RawItem(b).compress
        /\ \A i \in 1..Len(io_queue) : ~io_queue[i].compress =>
             /\ io_queue[i].blk \in Blocks /\ io_queue[i].blk # b
             /\ holder[io_queue[i].blk] = "ioq"
    BY BlockFacts, HeldBlocks DEF IoqTag
  <2>5. \A i \in 1..Len(io_queue') : i \in 1..Len(io_queue) \/ i = Len(io_queue) + 1
    BY <2>3
  <2>6. IoqTag'
    <3>1. ASSUME NEW i \in 1..Len(io_queue'), ~io_queue'[i].compress
          PROVE  holder'[io_queue'[i].blk] = "ioq"
      BY <2>2, <2>3, <2>4, <2>5, <3>1
    <3>2. ASSUME NEW i \in 1..Len(io_queue'), NEW j \in 1..Len(io_queue'),
                 ~io_queue'[i].compress, ~io_queue'[j].compress,
                 io_queue'[i].blk = io_queue'[j].blk
          PROVE  i = j
      BY <2>3, <2>4, <2>5, <3>2 DEF IoqTag
    <3>3. ASSUME NEW d \in Blocks, holder'[d] = "ioq"
          PROVE  \E i \in 1..Len(io_queue') : ~io_queue'[i].compress /\ io_queue'[i].blk = d
      <4>1. CASE d = b
        BY <4>1, <2>3, <2>4
      <4>2. CASE d # b
        <5>1. PICK i \in 1..Len(io_queue) : ~io_queue[i].compress /\ io_queue[i].blk = d
          BY <4>2, <2>2, <3>3 DEF IoqTag
        <5>2. i \in 1..Len(io_queue')
          BY <2>3
        <5> QED
          BY <5>1, <5>2, <2>3
      <4> QED
        BY <4>1, <4>2
    <3> QED
      BY <3>1, <3>2, <3>3 DEF IoqTag
  <2>7. CompqTag'
    BY <2>1, <2>2, KeepCompq
  <2> QED
    <3>1. ASSUME NEW i \in 1..Len(io_queue')
          PROVE  IF io_queue'[i].compress THEN io_queue'[i].blk = NULL
                 ELSE io_queue'[i].ch \notin Compressed
      BY <1>2, <2>3, <2>4, <2>5 DEF KindsRight
    <3>2. \A i \in 1..Len(compression_queue') : compression_queue'[i][1] \in Compressed
      BY <2>1 DEF KindsRight
    <3> QED
      BY <3>1, <3>2, <2>1, <2>2, <2>6, <2>7
<1> QED
  BY <1>1, <1>2

\* The closure's block, handed over: the closure is its holder no more.
LEMMA HandOver ==
  ASSUME HolderInv, NEW c \in Chans, ClosureHolds(c), enqueueBlock(block[c]),
         ~ClosureHolds(c)', block' = block,
         \A d \in Chans : d # c => (ClosureHolds(d)' <=> ClosureHolds(d)),
         UNCHANGED ringVars, SameComps, SameIOs, SameOpening
  PROVE  Tags'
<1> USE DEF HolderInv, Tags
<1>1. PICK b \in Blocks : b = block[c] /\ b[1] = c
  BY HeldBlocks, BlockFacts
<1>2. holder[b] = "closure"
  BY <1>1 DEF ClosureTag
<1>3. CompqTag' /\ IoqTag' /\ holder'[b] \in {"compq", "ioq"}
      /\ holder' = [holder EXCEPT ![b] = holder'[b]]
  BY <1>1, <1>2, EnterQueue
<1>4. PICK p \in {"compq", "ioq"} : p = holder'[b] /\ holder' = [holder EXCEPT ![b] = p]
  BY <1>3
<1>5. /\ \A d \in Blocks : d # b => holder'[d] = holder[d]
      /\ SameAt("ring") /\ SameAt("comp") /\ SameAt("io") /\ SameAt("none")
  BY <1>2, <1>4, MoveOne
<1>6. ClosureTag'
  <2>1. ASSUME NEW d \in Chans, ClosureHolds(d)' PROVE holder'[block'[d]] = "closure"
    <3>1. d # c /\ ClosureHolds(d) /\ block[d] \in BlocksOf(d) /\ block[d] \in Blocks
      BY <2>1, HeldBlocks
    <3>2. block[d] # b
      BY <3>1, <1>1, BlockFacts
    <3> QED
      BY <3>1, <3>2, <1>5 DEF ClosureTag
  <2>2. ASSUME NEW d \in Blocks, holder'[d] = "closure"
        PROVE  ClosureHolds(d[1])' /\ block'[d[1]] = d
    <3>1. d # b
      BY <1>3, <2>2
    <3>2. d[1] \in Chans /\ ClosureHolds(d[1]) /\ block[d[1]] = d
      BY <3>1, <2>2, <1>5, BlockFacts DEF ClosureTag
    <3>3. d[1] # c
      BY <3>1, <3>2, <1>1
    <3> QED
      BY <3>2, <3>3
  <2> QED
    BY <2>1, <2>2 DEF ClosureTag
<1> QED
  BY <1>3, <1>5, <1>6, KeepRing, KeepComp, KeepIo, KeepNone

\* dequeueEmptyBlockPolling gives the owner a block that was in its ring.
LEMMA TakeEmpty ==
  ASSUME HolderInv, NEW c \in Chans, DequeueEmpty(c)
  PROVE  Tags'
<1> USE DEF HolderInv, Tags
<1>0. /\ pc[c] = "fetch" /\ ~ring_empty(c) /\ slots' = slots /\ widx' = widx
      /\ UNCHANGED <<queueVars, compVars, ioVars, closeVars>> /\ closing[c] = "no"
  BY DEF DequeueEmpty, CallsApart, TypeOK, ChanOK
<1>1. CASE slots[c][ridx[c]] = NULL
  <2>1. UNCHANGED <<pc, block, ridx, holder>>
    BY <1>1 DEF DequeueEmpty
  <2> QED
    BY <1>0, <2>1, Steady DEF ringVars, closeVars, compVars, ioVars, SameClosures, SameComps,
       SameIOs, SameOpening, ClosureHolds, CompHolds, IOHolds
<1>2. CASE slots[c][ridx[c]] # NULL
  <2>1. PICK b \in Blocks : b = slots[c][ridx[c]]
    BY <1>2, HeldBlocks DEF TypeOK, RingOK
  <2>2. /\ block' = [block EXCEPT ![c] = b] /\ ridx' = [ridx EXCEPT ![c] = next_index(ridx[c])]
        /\ holder' = [holder EXCEPT ![b] = "closure"] /\ pc' = [pc EXCEPT ![c] = "idle"]
    BY <1>2, <2>1 DEF DequeueEmpty
  <2>3. RingTag' /\ holder[b] = "ring" /\ b[1] = c
    BY <1>0, <2>1, <2>2, LeaveRing
  <2>4. /\ holder'[b] = "closure" /\ \A d \in Blocks : d # b => holder'[d] = holder[d]
        /\ SameAt("compq") /\ SameAt("comp") /\ SameAt("ioq") /\ SameAt("io") /\ SameAt("none")
    BY <2>2, <2>3, MoveOne
  <2>5. /\ pc'[c] = "idle" /\ block'[c] = b /\ closing' = closing
        /\ \A d \in Chans : d # c => pc'[d] = pc[d] /\ block'[d] = block[d]
    BY <1>0, <2>2 DEF closeVars, TypeOK, ChanOK
  <2>6. /\ ClosureHolds(c)' /\ ~ClosureHolds(c)
        /\ \A d \in Chans : d # c => (ClosureHolds(d)' <=> ClosureHolds(d))
    BY <1>0, <2>5 DEF ClosureHolds
  <2>7. ClosureTag'
    <3>1. ASSUME NEW d \in Chans, ClosureHolds(d)' PROVE holder'[block'[d]] = "closure"
      <4>1. CASE d = c
        BY <4>1, <2>4, <2>5
      <4>2. CASE d # c
        <5>1. ClosureHolds(d) /\ block[d] \in Blocks /\ block[d] \in BlocksOf(d)
          BY <4>2, <3>1, <2>6, HeldBlocks
        <5>2. block[d] # b
          BY <4>2, <5>1, <2>3, BlockFacts
        <5> QED
          BY <4>2, <5>1, <5>2, <2>4, <2>5 DEF ClosureTag
      <4> QED
        BY <4>1, <4>2
    <3>2. ASSUME NEW d \in Blocks, holder'[d] = "closure"
          PROVE  ClosureHolds(d[1])' /\ block'[d[1]] = d
      <4>1. CASE d = b
        BY <4>1, <2>3, <2>5, <2>6
      <4>2. CASE d # b
        <5>1. d[1] \in Chans /\ ClosureHolds(d[1]) /\ block[d[1]] = d
          BY <4>2, <3>2, <2>4, BlockFacts DEF ClosureTag
        <5> QED
          BY <5>1, <2>5, <2>6
      <4> QED
        BY <4>1, <4>2
    <3> QED
      BY <3>1, <3>2 DEF ClosureTag
  <2>8. SameComps /\ SameIOs
    BY <1>0 DEF SameComps, SameIOs, CompHolds, IOHolds, compVars, ioVars
  <2>9. SameOpening
    BY <1>0, <2>5 DEF SameOpening, Opening
  <2> QED
    BY <1>0, <2>3, <2>4, <2>7, <2>8, <2>9, KeepCompq, KeepComp, KeepIoq, KeepIo, KeepNone
       DEF queueVars
<1> QED
  BY <1>1, <1>2

\* A compression thread takes the first block of the queue.
LEMMA TakeCompq ==
  ASSUME HolderInv, NEW t \in CompThreads, CompPop(t)
  PROVE  Tags'
<1> USE DEF HolderInv, Tags
<1>1. /\ compression_queue \in Seq(Blocks) /\ compression_queue # <<>>
      /\ cpc[t] = "poll" /\ cblk' = [cblk EXCEPT ![t] = Head(compression_queue)]
      /\ compression_queue' = Tail(compression_queue)
      /\ cpc' = [cpc EXCEPT ![t] = "compress"]
      /\ holder' = [holder EXCEPT ![Head(compression_queue)] = "comp"]
      /\ UNCHANGED <<chanVars, closeVars, ringVars, io_queue, ioVars>>
  BY HeldBlocks DEF CompPop
<1>2. /\ Len(compression_queue) \in Nat \ {0}
      /\ Len(compression_queue') = Len(compression_queue) - 1
      /\ Head(compression_queue) = compression_queue[1]
      /\ \A i \in 1..Len(compression_queue') : compression_queue'[i] = compression_queue[i + 1]
  BY <1>1, HeadTail
<1>3. PICK b \in Blocks : b = Head(compression_queue) /\ b = compression_queue[1]
  BY <1>1, <1>2, HeadTail
<1>4. holder[b] = "compq" /\ \A i \in 2..Len(compression_queue) : compression_queue[i] # b
  BY <1>2, <1>3 DEF CompqTag
<1>5. /\ holder'[b] = "comp" /\ \A d \in Blocks : d # b => holder'[d] = holder[d]
      /\ SameAt("closure") /\ SameAt("ring") /\ SameAt("ioq") /\ SameAt("io") /\ SameAt("none")
  <2>1. holder' = [holder EXCEPT ![b] = "comp"]
    BY <1>1, <1>3
  <2> QED
    BY <2>1, <1>4, MoveOne
<1>6. CompqTag'
  <2>1. \A i \in 1..Len(compression_queue') : i + 1 \in 2..Len(compression_queue)
    BY <1>2
  <2>2. \A i \in 2..Len(compression_queue) :
          /\ compression_queue[i] \in Blocks /\ holder[compression_queue[i]] = "compq"
          /\ i - 1 \in 1..Len(compression_queue') /\ compression_queue'[i - 1] = compression_queue[i]
    BY <1>1, <1>2 DEF CompqTag
  <2>3. ASSUME NEW i \in 1..Len(compression_queue')
        PROVE  holder'[compression_queue'[i]] = "compq"
    BY <1>2, <1>4, <1>5, <2>1, <2>2
  <2>4. ASSUME NEW i \in 1..Len(compression_queue'), NEW j \in 1..Len(compression_queue'),
               compression_queue'[i] = compression_queue'[j]
        PROVE  i = j
    BY <1>2, <2>1, <2>4 DEF CompqTag
  <2>5. ASSUME NEW d \in Blocks, holder'[d] = "compq"
        PROVE  \E i \in 1..Len(compression_queue') : compression_queue'[i] = d
    <3>1. d # b /\ holder[d] = "compq"
      BY <1>5, <2>5
    <3>2. PICK i \in 1..Len(compression_queue) : compression_queue[i] = d
      BY <3>1 DEF CompqTag
    <3>3. i \in 2..Len(compression_queue)
      BY <3>1, <3>2, <1>3
    <3> QED
      BY <3>2, <3>3, <2>2
  <2> QED
    BY <2>3, <2>4, <2>5 DEF CompqTag
<1>7. /\ cpc'[t] = "compress" /\ cblk'[t] = b
      /\ \A u \in CompThreads : u # t => cpc'[u] = cpc[u] /\ cblk'[u] = cblk[u]
  BY <1>1, <1>3 DEF TypeOK, CompOK
<1>8. CompTag'
  <2>1. ~CompHolds(t)
    BY <1>1 DEF CompHolds
  <2>2. \A u \in CompThreads : u # t => (CompHolds(u)' <=> CompHolds(u))
    BY <1>7 DEF CompHolds
  <2>3. \A u \in CompThreads : CompHolds(u) => cblk[u] # b /\ cblk[u] \in Blocks
    BY <1>4, HeldBlocks DEF CompTag
  <2>4. CompHolds(t)'
    BY <1>7 DEF CompHolds
  <2>5. ASSUME NEW u \in CompThreads, CompHolds(u)' PROVE holder'[cblk'[u]] = "comp"
    BY <1>5, <1>7, <2>2, <2>3, <2>5 DEF CompTag
  <2>6. ASSUME NEW u \in CompThreads, NEW v \in CompThreads, CompHolds(u)', CompHolds(v)',
               cblk'[u] = cblk'[v]
        PROVE  u = v
    BY <1>7, <2>2, <2>3, <2>6 DEF CompTag
  <2>7. ASSUME NEW d \in Blocks, holder'[d] = "comp"
        PROVE  \E u \in CompThreads : CompHolds(u)' /\ cblk'[u] = d
    <3>1. CASE d = b
      BY <3>1, <1>7, <2>4
    <3>2. CASE d # b
      <4>1. PICK u \in CompThreads : CompHolds(u) /\ cblk[u] = d
        BY <3>2, <1>5, <2>7 DEF CompTag
      <4> QED
        BY <4>1, <1>7, <2>1, <2>2
    <3> QED
      BY <3>1, <3>2
  <2> QED
    BY <2>5, <2>6, <2>7 DEF CompTag
<1>9. SameClosures /\ SameIOs /\ SameOpening
  BY <1>1 DEF SameClosures, SameIOs, SameOpening, ClosureHolds, IOHolds, chanVars, closeVars, ioVars
<1> QED
  BY <1>1, <1>5, <1>6, <1>8, <1>9, KeepClosure, KeepRing, KeepIoq, KeepIo, KeepNone

\* A compression thread puts its block back into the ring: the slot whose index it has
\* loaded is still the one at the write index, and free.
LEMMA GiveBackComp ==
  ASSUME HolderInv, NEW t \in CompThreads, SendBackStore(t)
  PROVE  Tags'
<1> USE DEF HolderInv, Tags
<1>1. CompHolds(t)
  BY DEF SendBackStore, CompHolds
<1>2. PICK b \in Blocks : b = cblk[t] /\ holder[b] = "comp" /\ b[1] \in Chans /\ b \in BlocksOf(b[1])
  BY <1>1, HeldBlocks, BlockFacts DEF CompTag
<1>3. PICK c \in Chans : c = b[1]
  BY <1>2
<1>4. /\ cpc[t] = "store" /\ cw[t] = widx[c] /\ ~ring_full(c)
  BY <1>2, <1>3 DEF SendBackStore, StoreRight
<1>5. /\ slots' = [slots EXCEPT ![c] = [slots[c] EXCEPT ![widx[c]] = b]]
      /\ widx' = [widx EXCEPT ![c] = next_index(widx[c])] /\ ridx' = ridx
      /\ holder' = [holder EXCEPT ![b] = "ring"] /\ cpc' = [cpc EXCEPT ![t] = "push"]
      /\ UNCHANGED <<chanVars, closeVars, queueVars, cblk, ioVars>>
  BY <1>2, <1>3, <1>4 DEF SendBackStore
<1>6. RingTag'
  BY <1>2, <1>3, <1>4, <1>5, EnterRing
<1>7. /\ holder'[b] = "ring" /\ \A d \in Blocks : d # b => holder'[d] = holder[d]
      /\ SameAt("closure") /\ SameAt("compq") /\ SameAt("ioq") /\ SameAt("io") /\ SameAt("none")
  BY <1>2, <1>5, MoveOne
<1>8. CompTag'
  <2>1. ~CompHolds(t)' /\ \A u \in CompThreads : u # t => (CompHolds(u)' <=> CompHolds(u))
    BY <1>5 DEF CompHolds, TypeOK, CompOK
  <2>2. \A u \in CompThreads : u # t /\ CompHolds(u) => cblk[u] # b /\ cblk[u] \in Blocks
    BY <1>1, <1>2, HeldBlocks DEF CompTag
  <2>3. ASSUME NEW u \in CompThreads, CompHolds(u)' PROVE holder'[cblk'[u]] = "comp"
    BY <1>5, <1>7, <2>1, <2>2, <2>3 DEF CompTag
  <2>4. ASSUME NEW u \in CompThreads, NEW v \in CompThreads, CompHolds(u)', CompHolds(v)',
               cblk'[u] = cblk'[v]
        PROVE  u = v
    BY <1>5, <2>1, <2>4 DEF CompTag
  <2>5. ASSUME NEW d \in Blocks, holder'[d] = "comp"
        PROVE  \E u \in CompThreads : CompHolds(u)' /\ cblk'[u] = d
    BY <1>2, <1>5, <1>7, <2>1, <2>5 DEF CompTag
  <2> QED
    BY <2>3, <2>4, <2>5 DEF CompTag
<1>9. SameClosures /\ SameIOs /\ SameOpening
  BY <1>5 DEF SameClosures, SameIOs, SameOpening, ClosureHolds, IOHolds, chanVars, closeVars, ioVars
<1> QED
  BY <1>5, <1>6, <1>7, <1>8, <1>9, KeepClosure, KeepCompq, KeepIoq, KeepIo, KeepNone DEF queueVars

\* The IO thread puts an uncompressed block it has written back into the ring.
LEMMA GiveBackRaw ==
  ASSUME HolderInv, NEW g \in IOThreads, SendBackUncompressed(g)
  PROVE  Tags'
<1> USE DEF HolderInv, Tags
<1>1. IOHolds(g)
  BY DEF SendBackUncompressed, IOHolds
<1>2. PICK b \in Blocks : b = idata[g].blk /\ holder[b] = "io" /\ b \in BlocksOf(idata[g].ch)
  BY <1>1, HeldBlocks DEF IoTag
<1>3. PICK c \in Chans : c = idata[g].ch /\ b \in BlocksOf(c)
  BY <1>1, <1>2, ItemFacts DEF TypeOK, IOOK, IOHolds
<1>4. /\ ~ring_full(c)
      /\ slots' = [slots EXCEPT ![c] = [slots[c] EXCEPT ![widx[c]] = b]]
      /\ widx' = [widx EXCEPT ![c] = next_index(widx[c])] /\ ridx' = ridx
      /\ holder' = [holder EXCEPT ![b] = "ring"]
      /\ ipc' = [ipc EXCEPT ![g] = AfterBlock(g)] /\ idata' = [idata EXCEPT ![g] = NULL]
      /\ UNCHANGED <<chanVars, closeVars, queueVars, compVars>>
  BY <1>2, <1>3 DEF SendBackUncompressed, sendBackBlock
<1>5. RingTag'
  BY <1>2, <1>3, <1>4, EnterRing
<1>6. /\ holder'[b] = "ring" /\ \A d \in Blocks : d # b => holder'[d] = holder[d]
      /\ SameAt("closure") /\ SameAt("compq") /\ SameAt("comp") /\ SameAt("ioq") /\ SameAt("none")
  BY <1>2, <1>4, MoveOne
<1>7. IoTag'
  <2>1. /\ ~IOHolds(g)' /\ \A h \in IOThreads : h # g => (IOHolds(h)' <=> IOHolds(h))
        /\ \A h \in IOThreads : h # g => idata'[h] = idata[h]
    BY <1>4 DEF IOHolds, AfterBlock, TypeOK, IOOK
  <2>2. \A h \in IOThreads : h # g /\ IOHolds(h) => idata[h].blk # b /\ idata[h].blk \in Blocks
    BY <1>1, <1>2, HeldBlocks DEF IoTag
  <2>3. ASSUME NEW h \in IOThreads, IOHolds(h)' PROVE holder'[idata'[h].blk] = "io"
    BY <1>6, <2>1, <2>2, <2>3 DEF IoTag
  <2>4. ASSUME NEW h \in IOThreads, NEW k \in IOThreads, IOHolds(h)', IOHolds(k)',
               idata'[h].blk = idata'[k].blk
        PROVE  h = k
    BY <2>1, <2>4 DEF IoTag
  <2>5. ASSUME NEW d \in Blocks, holder'[d] = "io"
        PROVE  \E h \in IOThreads : IOHolds(h)' /\ idata'[h].blk = d
    BY <1>2, <1>6, <2>1, <2>5 DEF IoTag
  <2> QED
    BY <2>3, <2>4, <2>5 DEF IoTag
<1>8. SameClosures /\ SameComps /\ SameOpening
  BY <1>4 DEF SameClosures, SameComps, SameOpening, ClosureHolds, CompHolds, chanVars, closeVars, compVars
<1> QED
  BY <1>4, <1>5, <1>6, <1>7, <1>8, KeepClosure, KeepCompq, KeepComp, KeepIoq, KeepNone DEF queueVars

\* The IO thread takes the first item of its queue: a block, or the copy of one.
LEMMA TakeIoq ==
  ASSUME HolderInv, NEW g \in IOThreads, IOPop(g)
  PROVE  Tags'
<1> USE DEF HolderInv, Tags
<1>1. /\ io_queue \in Seq(Item) /\ io_queue # <<>> /\ ipc[g] = "pop"
      /\ idata' = [idata EXCEPT ![g] = Head(io_queue)] /\ io_queue' = Tail(io_queue)
      /\ holder' = IF Head(io_queue).compress THEN holder
                    ELSE [holder EXCEPT ![Head(io_queue).blk] = "io"]
      /\ ipc' = [ipc EXCEPT ![g] = IF Head(io_queue).compress THEN "writecomp" ELSE "writeraw"]
      /\ UNCHANGED <<chanVars, closeVars, ringVars, compression_queue, compVars>>
  BY HeldBlocks DEF IOPop
<1>2. /\ Len(io_queue) \in Nat \ {0} /\ Len(io_queue') = Len(io_queue) - 1
      /\ Head(io_queue) = io_queue[1] /\ Head(io_queue) \in Item
      /\ \A i \in 1..Len(io_queue') : io_queue'[i] = io_queue[i + 1]
  BY <1>1, HeadTail
<1>3. PICK d \in Item : d = Head(io_queue) /\ d = io_queue[1]
  BY <1>2
<1>4. /\ idata'[g] = d /\ ipc'[g] = IF d.compress THEN "writecomp" ELSE "writeraw"
      /\ \A h \in IOThreads : h # g => ipc'[h] = ipc[h] /\ idata'[h] = idata[h]
      /\ holder' = IF d.compress THEN holder ELSE [holder EXCEPT ![d.blk] = "io"]
  BY <1>1, <1>3 DEF TypeOK, IOOK
<1>5. ~IOHolds(g) /\ \A h \in IOThreads : h # g => (IOHolds(h)' <=> IOHolds(h))
  BY <1>1, <1>4 DEF IOHolds
<1>6. /\ \A i \in 1..Len(io_queue') : i + 1 \in 1..Len(io_queue) /\ io_queue'[i] = io_queue[i + 1]
      /\ \A i \in 1..Len(io_queue) : i # 1 =>
            i - 1 \in 1..Len(io_queue') /\ io_queue'[i - 1] = io_queue[i]
  BY <1>2
<1>7. SameClosures /\ SameComps /\ SameOpening
  BY <1>1 DEF SameClosures, SameComps, SameOpening, ClosureHolds, CompHolds, chanVars, closeVars, compVars
<1>8. ASSUME NEW i \in 1..Len(io_queue'), NEW j \in 1..Len(io_queue'),
             ~io_queue'[i].compress, ~io_queue'[j].compress,
             io_queue'[i].blk = io_queue'[j].blk
      PROVE  i = j
  <2>1. PICK k \in 1..Len(io_queue) : k = i + 1 /\ io_queue'[i] = io_queue[k]
    BY <1>6
  <2>2. PICK l \in 1..Len(io_queue) : l = j + 1 /\ io_queue'[j] = io_queue[l]
    BY <1>6
  <2>3. k = l
    BY <1>8, <2>1, <2>2 DEF IoqTag
  <2> QED
    BY <2>1, <2>2, <2>3
<1>9. CASE d.compress
  <2>1. holder' = holder /\ \A p : SameAt(p)
    BY <1>4, <1>9 DEF SameAt
  <2>2. SameIOs
    BY <1>4, <1>5, <1>9 DEF SameIOs, IOHolds
  <2>3. IoqTag'
    <3>1. ASSUME NEW i \in 1..Len(io_queue'), ~io_queue'[i].compress
          PROVE  holder'[io_queue'[i].blk] = "ioq"
      BY <1>6, <2>1, <3>1 DEF IoqTag
    <3>2. ASSUME NEW b \in Blocks, holder'[b] = "ioq"
          PROVE  \E i \in 1..Len(io_queue') : ~io_queue'[i].compress /\ io_queue'[i].blk = b
      <4>1. PICK i \in 1..Len(io_queue) : ~io_queue[i].compress /\ io_queue[i].blk = b
        BY <2>1, <3>2 DEF IoqTag
      <4>2. i # 1
        BY <4>1, <1>3, <1>9
      <4> QED
        BY <4>1, <4>2, <1>6
    <3> QED
      BY <3>1, <3>2, <1>8 DEF IoqTag
  <2> QED
    BY <1>1, <1>7, <2>1, <2>2, <2>3, KeepClosure, KeepRing, KeepCompq, KeepComp, KeepIo, KeepNone
<1>10. CASE ~d.compress
  <2>1. PICK b \in Blocks : b = d.blk /\ holder[b] = "ioq"
    <3>1. 1 \in 1..Len(io_queue)
      BY <1>2
    <3> QED
      BY <3>1, <1>3, <1>10, HeldBlocks DEF IoqTag
  <2>2. /\ holder'[b] = "io" /\ \A e \in Blocks : e # b => holder'[e] = holder[e]
        /\ SameAt("closure") /\ SameAt("ring") /\ SameAt("compq") /\ SameAt("comp")
        /\ SameAt("none")
    <3>1. holder' = [holder EXCEPT ![b] = "io"]
      BY <1>4, <1>10, <2>1
    <3> QED
      BY <3>1, <2>1, MoveOne
  <2>3. IoqTag'
    <3>0. 1 \in 1..Len(io_queue)
      BY <1>2
    <3>1. ASSUME NEW i \in 1..Len(io_queue'), ~io_queue'[i].compress
          PROVE  holder'[io_queue'[i].blk] = "ioq"
      <4>1. /\ i + 1 \in 1..Len(io_queue) /\ io_queue'[i] = io_queue[i + 1] /\ i + 1 # 1
        BY <1>6
      <4>2. io_queue[i + 1].blk # b /\ io_queue[i + 1].blk \in Blocks
        BY <3>0, <3>1, <4>1, <1>3, <1>10, <2>1, HeldBlocks DEF IoqTag
      <4> QED
        BY <3>1, <4>1, <4>2, <2>2 DEF IoqTag
    <3>2. ASSUME NEW e \in Blocks, holder'[e] = "ioq"
          PROVE  \E i \in 1..Len(io_queue') : ~io_queue'[i].compress /\ io_queue'[i].blk = e
      <4>1. e # b /\ holder[e] = "ioq"
        BY <2>2, <3>2
      <4>2. PICK i \in 1..Len(io_queue) : ~io_queue[i].compress /\ io_queue[i].blk = e
        BY <4>1 DEF IoqTag
      <4>3. i # 1
        BY <4>1, <4>2, <1>3, <2>1
      <4> QED
        BY <4>2, <4>3, <1>6
    <3> QED
      BY <3>1, <3>2, <1>8 DEF IoqTag
  <2>4. IoTag'
    <3>1. \A h \in IOThreads : IOHolds(h) => idata[h].blk # b /\ idata[h].blk \in Blocks
      BY <2>1, HeldBlocks DEF IoTag
    <3>2. IOHolds(g)' /\ idata'[g].blk = b
      BY <1>4, <1>10, <2>1 DEF IOHolds
    <3>3. ASSUME NEW h \in IOThreads, IOHolds(h)' PROVE holder'[idata'[h].blk] = "io"
      BY <1>4, <1>5, <2>2, <3>1, <3>2, <3>3 DEF IoTag
    <3>4. ASSUME NEW h \in IOThreads, NEW k \in IOThreads, IOHolds(h)', IOHolds(k)',
                 idata'[h].blk = idata'[k].blk
          PROVE  h = k
      BY <1>4, <1>5, <3>1, <3>2, <3>4 DEF IoTag
    <3>5. ASSUME NEW e \in Blocks, holder'[e] = "io"
          PROVE  \E h \in IOThreads : IOHolds(h)' /\ idata'[h].blk = e
      <4>1. CASE e = b
        BY <4>1, <3>2
      <4>2. CASE e # b
        <5>1. PICK h \in IOThreads : IOHolds(h) /\ idata[h].blk = e
          BY <4>2, <2>2, <3>5 DEF IoTag
        <5> QED
          BY <5>1, <1>4, <1>5
      <4> QED
        BY <4>1, <4>2
    <3> QED
      BY <3>3, <3>4, <3>5 DEF IoTag
  <2> QED
    BY <1>1, <1>7, <2>2, <2>3, <2>4, KeepClosure, KeepRing, KeepCompq, KeepComp, KeepNone
<1> QED
  BY <1>3, <1>9, <1>10, ItemFacts

\* A compression thread sends a copy on, or drops it: no block moves.
LEMMA SendCopy ==
  ASSUME HolderInv, NEW t \in CompThreads, CompPush(t)
  PROVE  Tags'
<1> USE DEF HolderInv, Tags
<1>1. /\ cpc[t] = "push" /\ cpc' = [cpc EXCEPT ![t] = "poll"] /\ cblk' = [cblk EXCEPT ![t] = NULL]
      /\ io_queue' = Append(io_queue, new_block[t]) \/ io_queue' = io_queue
      /\ UNCHANGED <<chanVars, closeVars, ringVars, compression_queue, ioVars, holder>>
  BY DEF CompPush, histVars
<1>2. new_block[t] \in Item /\ new_block[t].compress /\ io_queue \in Seq(Item)
  BY <1>1 DEF TypeOK, CompOK, QueueOK
<1>3. SameComps
  BY <1>1 DEF SameComps, CompHolds, TypeOK, CompOK
<1>4. SameClosures /\ SameIOs /\ SameOpening
  BY <1>1 DEF SameClosures, SameIOs, SameOpening, ClosureHolds, IOHolds, chanVars, closeVars, ioVars
<1>5. \A p : SameAt(p)
  BY <1>1 DEF SameAt
<1>6. IoqTag'
  <2>1. CASE io_queue' = io_queue
    BY <2>1, <1>5, KeepIoq
  <2>2. CASE io_queue' = Append(io_queue, new_block[t])
    <3>1. /\ Len(io_queue') = Len(io_queue) + 1 /\ io_queue'[Len(io_queue) + 1].compress
          /\ \A i \in 1..Len(io_queue) : io_queue'[i] = io_queue[i]
          /\ Len(io_queue) \in Nat
      BY <1>2, <2>2, SeqAppend
    <3>2. /\ \A i \in 1..Len(io_queue') : ~io_queue'[i].compress =>
                i \in 1..Len(io_queue) /\ io_queue'[i] = io_queue[i]
          /\ \A i \in 1..Len(io_queue) : i \in 1..Len(io_queue')
      BY <3>1
    <3>3. ASSUME NEW b \in Blocks, holder'[b] = "ioq"
          PROVE  \E i \in 1..Len(io_queue') : ~io_queue'[i].compress /\ io_queue'[i].blk = b
      <4>1. PICK i \in 1..Len(io_queue) : ~io_queue[i].compress /\ io_queue[i].blk = b
        BY <1>1, <3>3 DEF IoqTag
      <4> QED
        BY <4>1, <3>1, <3>2
    <3>4. ASSUME NEW i \in 1..Len(io_queue'), ~io_queue'[i].compress
          PROVE  holder'[io_queue'[i].blk] = "ioq"
      BY <1>1, <3>2, <3>4 DEF IoqTag
    <3>5. ASSUME NEW i \in 1..Len(io_queue'), NEW j \in 1..Len(io_queue'),
                 ~io_queue'[i].compress, ~io_queue'[j].compress,
                 io_queue'[i].blk = io_queue'[j].blk
          PROVE  i = j
      BY <3>2, <3>5 DEF IoqTag
    <3> QED
      BY <3>3, <3>4, <3>5 DEF IoqTag
  <2> QED
    BY <1>1, <2>1, <2>2
<1> QED
  BY <1>1, <1>3, <1>4, <1>5, <1>6, KeepClosure, KeepRing, KeepCompq, KeepComp, KeepIo, KeepNone

\* openChannel makes the blocks of a channel: one for the closure, the rest in its ring.
LEMMA MakeBlocks ==
  ASSUME HolderInv, NEW c \in Chans, OpenDone(c)
  PROVE  Tags'
<1> USE DEF HolderInv, Tags
<1>1. /\ pc[c] \in Opening /\ closing[c] = "no" /\ pc' = [pc EXCEPT ![c] = "idle"]
      /\ slots' = [slots EXCEPT ![c] = [i \in RingSlots |->
                      IF i < NUM_BUFFER_BLOCK THEN <<c, i + 1>> ELSE NULL]]
      /\ ridx' = [ridx EXCEPT ![c] = 1] /\ widx' = [widx EXCEPT ![c] = NUM_BUFFER_BLOCK]
      /\ block' = [block EXCEPT ![c] = <<c, 1>>]
      /\ holder' = [b \in Blocks |-> IF b[1] # c THEN holder[b]
                                     ELSE IF b[2] = 1 THEN "closure" ELSE "ring"]
      /\ UNCHANGED <<closeVars, queueVars, compVars, ioVars>>
  BY DEF OpenDone, InitBlocks, TypeOK, ChanOK, Opening
<1>2. \A b \in Blocks : b[1] = c <=> \E n \in 1..NUM_BUFFER_BLOCK : b = <<c, n>>
  BY DEF Blocks
<1>3. \A n \in 1..NUM_BUFFER_BLOCK : <<c, n>> \in Blocks
  BY DEF Blocks
<1>4. /\ \A b \in Blocks : b[1] # c => holder'[b] = holder[b]
      /\ \A n \in 1..NUM_BUFFER_BLOCK :
            /\ holder[<<c, n>>] = "none"
            /\ holder'[<<c, n>>] = IF n = 1 THEN "closure" ELSE "ring"
  BY <1>1, <1>3 DEF NoneTag
<1>5. \A p \in {"compq", "comp", "ioq", "io"} : SameAt(p)
  BY <1>2, <1>4 DEF SameAt
<1>6. /\ pc'[c] = "idle" /\ block'[c] = <<c, 1>> /\ closing' = closing
      /\ \A d \in Chans : d # c => pc'[d] = pc[d] /\ block'[d] = block[d]
  BY <1>1 DEF closeVars, TypeOK, ChanOK
<1>7. NoneTag'
  <2>1. ASSUME NEW b \in Blocks PROVE holder'[b] = "none" <=> pc'[b[1]] \in Opening
    <3>1. CASE b[1] = c
      BY <3>1, <1>2, <1>4, <1>6 DEF Opening
    <3>2. CASE b[1] # c
      BY <3>2, <1>4, <1>6, BlockFacts DEF NoneTag
    <3> QED
      BY <3>1, <3>2
  <2> QED
    BY <2>1 DEF NoneTag
<1>8. ClosureTag'
  <2>1. /\ ClosureHolds(c)'
        /\ \A d \in Chans : d # c => (ClosureHolds(d)' <=> ClosureHolds(d))
    BY <1>1, <1>6 DEF ClosureHolds
  <2>2. 1 \in 1..NUM_BUFFER_BLOCK
    BY SizesAssumption
  <2>3. ASSUME NEW d \in Chans, ClosureHolds(d)' PROVE holder'[block'[d]] = "closure"
    <3>1. CASE d = c
      BY <3>1, <1>4, <1>6, <2>2
    <3>2. CASE d # c
      <4>1. ClosureHolds(d) /\ block[d] \in Blocks /\ block[d][1] = d
        BY <3>2, <2>1, <2>3, HeldBlocks, BlockFacts
      <4> QED
        BY <3>2, <4>1, <1>4, <1>6 DEF ClosureTag
    <3> QED
      BY <3>1, <3>2
  <2>4. ASSUME NEW b \in Blocks, holder'[b] = "closure"
        PROVE  ClosureHolds(b[1])' /\ block'[b[1]] = b
    <3>1. CASE b[1] = c
      <4>1. b = <<c, 1>>
        BY <3>1, <2>4, <1>2, <1>4
      <4> QED
        BY <4>1, <3>1, <1>6, <2>1
    <3>2. CASE b[1] # c
      <4>1. b[1] \in Chans /\ ClosureHolds(b[1]) /\ block[b[1]] = b
        BY <3>2, <2>4, <1>4, BlockFacts DEF ClosureTag
      <4> QED
        BY <3>2, <4>1, <1>6, <2>1
    <3> QED
      BY <3>1, <3>2
  <2> QED
    BY <2>3, <2>4 DEF ClosureTag
<1>9. RingTag'
  <2>1. /\ ridx'[c] = 1 /\ widx'[c] = NUM_BUFFER_BLOCK
        /\ \A i \in RingSlots : slots'[c][i] = IF i < NUM_BUFFER_BLOCK THEN <<c, i + 1>> ELSE NULL
        /\ \A d \in Chans : d # c => slots'[d] = slots[d] /\ ridx'[d] = ridx[d] /\ widx'[d] = widx[d]
    BY <1>1 DEF TypeOK, RingOK
  <2>2. \A i \in RingSlots : Live(c, i)' <=> 1 <= i /\ i < NUM_BUFFER_BLOCK
    BY <2>1, SizesAssumption DEF Live, RingSlots
  <2>3. \A d \in Chans : d # c => \A i \in RingSlots : Live(d, i)' <=> Live(d, i)
    BY <2>1 DEF Live
  <2>4. \A i \in RingSlots : 1 <= i /\ i < NUM_BUFFER_BLOCK =>
          i + 1 \in 1..NUM_BUFFER_BLOCK /\ i + 1 # 1
    BY SizesAssumption DEF RingSlots
  <2>5. ASSUME NEW d \in Chans, NEW i \in RingSlots, Live(d, i)', slots'[d][i] # NULL
        PROVE  holder'[slots'[d][i]] = "ring"
    <3>1. CASE d = c
      <4>1. PICK n \in 1..NUM_BUFFER_BLOCK : n = i + 1 /\ n # 1 /\ slots'[c][i] = <<c, n>>
        BY <3>1, <2>1, <2>2, <2>4, <2>5
      <4> QED
        BY <3>1, <4>1, <1>4
    <3>2. CASE d # c
      <4>1. /\ slots[d][i] \in Blocks /\ slots[d][i][1] = d /\ slots'[d][i] = slots[d][i]
            /\ holder[slots[d][i]] = "ring"
        BY <3>2, <2>1, <2>3, <2>5, HeldBlocks, BlockFacts DEF RingTag
      <4> QED
        BY <3>2, <4>1, <1>4
    <3> QED
      BY <3>1, <3>2
  <2>6. ASSUME NEW d \in Chans, NEW i \in RingSlots, NEW j \in RingSlots, Live(d, i)',
               Live(d, j)', slots'[d][i] = slots'[d][j], slots'[d][i] # NULL
        PROVE  i = j
    <3>1. CASE d = c
      <4>1. <<c, i + 1>> = <<c, j + 1>>
        BY <3>1, <2>1, <2>2, <2>6
      <4> QED
        BY <4>1, IndexFacts
    <3>2. CASE d # c
      BY <3>2, <2>1, <2>3, <2>6 DEF RingTag
    <3> QED
      BY <3>1, <3>2
  <2>7. ASSUME NEW b \in Blocks, holder'[b] = "ring"
        PROVE  \E i \in RingSlots : Live(b[1], i)' /\ slots'[b[1]][i] = b
    <3>1. CASE b[1] = c
      <4>1. PICK n \in 1..NUM_BUFFER_BLOCK : b = <<c, n>> /\ n # 1
        BY <3>1, <2>7, <1>2, <1>4
      <4>2. /\ n - 1 \in RingSlots /\ 1 <= n - 1 /\ n - 1 < NUM_BUFFER_BLOCK /\ n - 1 + 1 = n
        BY <4>1, SizesAssumption DEF RingSlots
      <4>3. Live(c, n - 1)' /\ slots'[c][n - 1] = b
        BY <4>1, <4>2, <2>1, <2>2
      <4> QED
        BY <3>1, <4>2, <4>3
    <3>2. CASE b[1] # c
      <4>1. b[1] \in Chans
        BY BlockFacts
      <4>2. PICK i \in RingSlots : Live(b[1], i) /\ slots[b[1]][i] = b
        BY <3>2, <2>7, <1>4 DEF RingTag
      <4> QED
        BY <3>2, <4>1, <4>2, <2>1, <2>3
    <3> QED
      BY <3>1, <3>2
  <2> QED
    BY <2>5, <2>6, <2>7 DEF RingTag
<1>10. SameComps /\ SameIOs
  BY <1>1 DEF SameComps, SameIOs, CompHolds, IOHolds, compVars, ioVars
<1> QED
  BY <1>1, <1>5, <1>7, <1>8, <1>9, <1>10, KeepCompq, KeepComp, KeepIoq, KeepIo DEF queueVars

\* No block moves, or the same blocks are where they were: what a step leaves alone.
LEMMA HolderFrame ==
  /\ CallsApart /\ UNCHANGED <<pc, handler_f, closing, xpc>> => CallsApart'
  /\ Unborn /\ UNCHANGED <<pc, ipc, cpc>> => Unborn'
  /\ KindsRight /\ UNCHANGED <<compression_queue, io_queue, cpc, cblk, new_block, ipc, idata>> =>
       KindsRight'
  /\ StoreRight /\ UNCHANGED <<pc, cpc, cblk, cw, ridx, widx>> => StoreRight'
  /\ UNCHANGED <<pc, closing, block>> => SameClosures
  /\ UNCHANGED pc => SameOpening
  /\ UNCHANGED <<cpc, cblk>> => SameComps
  /\ UNCHANGED <<ipc, idata>> => SameIOs
<1>1. CallsApart /\ UNCHANGED <<pc, handler_f, closing, xpc>> => CallsApart'
  BY DEF CallsApart
<1>2. Unborn /\ UNCHANGED <<pc, ipc, cpc>> => Unborn'
  BY DEF Unborn
<1>3. KindsRight /\ UNCHANGED <<compression_queue, io_queue, cpc, cblk, new_block, ipc, idata>> =>
        KindsRight'
  BY DEF KindsRight, CompHolds, IOHolds
<1>4. StoreRight /\ UNCHANGED <<pc, cpc, cblk, cw, ridx, widx>> => StoreRight'
  BY DEF StoreRight, ring_full
<1>5. UNCHANGED <<pc, closing, block>> => SameClosures
  BY DEF SameClosures, ClosureHolds
<1>6. UNCHANGED pc => SameOpening
  BY DEF SameOpening
<1>7. UNCHANGED <<cpc, cblk>> => SameComps
  BY DEF SameComps, CompHolds
<1>8. UNCHANGED <<ipc, idata>> => SameIOs
  BY DEF SameIOs, IOHolds
<1> QED
  BY <1>1, <1>2, <1>3, <1>4, <1>5, <1>6, <1>7, <1>8

\* No two threads are in the middle of a push to the same return ring: compression threads
\* take turns, or there are none, since channels that are not compressed get their blocks
\* back from the IO thread alone.
PushesApart == "return_push" \notin Races \/ Compressed = {}

\* Every step keeps the invariant, unless two compression threads share a ring or the
\* process ends under the feet of a logTS.
LEMMA HolderStep ==
  ASSUME "async_exit" \notin Races, PushesApart
  PROVE  HolderInv /\ [Next]_vars => HolderInv'
<1> SUFFICES ASSUME HolderInv, [Next]_vars PROVE HolderInv'
  OBVIOUS
<1>0. /\ TypeOK /\ CallsApart /\ Unborn /\ KindsRight /\ StoreRight /\ Tags /\ TypeOK'
  BY TypeStep DEF HolderInv
<1> USE <1>0
<1>1. ASSUME NEW c \in Chans, OpenChannel(c) PROVE HolderInv'
  <2>1. CallsApart'
    BY <1>1 DEF OpenChannel, AppRunning, CallsApart, TypeOK, ChanOK, Opening, closeVars, chanVars, exitVars
  <2>2. Unborn'
    BY <1>1 DEF OpenChannel, AppRunning, Unborn, TypeOK, ChanOK, CompOK, IOOK, Opening, IOThreads, chanVars, compVars, ioVars
  <2>3. StoreRight'
    BY <1>1 DEF OpenChannel, AppRunning, StoreRight, ring_full, TypeOK, ChanOK, CompOK, RingOK, Opening, chanVars, compVars, ringVars
  <2>4. SameClosures
    BY <1>1 DEF OpenChannel, AppRunning, SameClosures, ClosureHolds, CallsApart, TypeOK, ChanOK, Opening, closeVars, chanVars
  <2>5. SameOpening
    BY <1>1 DEF OpenChannel, AppRunning, SameOpening, TypeOK, ChanOK, Opening, chanVars
  <2>6. Tags'
    BY <1>1, <2>1, <2>2, <2>3, <2>4, <2>5, Steady, HolderFrame DEF OpenChannel, AppRunning, chanVars, closeVars, blockVars, ringVars, queueVars, compVars, ioVars, exitVars, histVars
  <2> QED
    BY <1>1, <2>1, <2>2, <2>3, <2>4, <2>5, <2>6, HolderFrame DEF HolderInv, OpenChannel, AppRunning, chanVars, closeVars, blockVars, ringVars, queueVars, compVars, ioVars, exitVars, histVars
<1>2. ASSUME NEW c \in Chans, OpenIOThread(c) PROVE HolderInv'
  <2>1. CallsApart'
    BY <1>2 DEF OpenIOThread, AfterIO, CallsApart, TypeOK, ChanOK, Opening, closeVars, chanVars, exitVars
  <2>2. Unborn'
    <3>1. /\ pc[c] = "io" /\ pc'[c] \in {"iostore", "count", "init"} /\ cpc' = cpc
          /\ \A d \in Chans : d # c => pc'[d] = pc[d] /\ ipc'[d] = ipc[d]
      BY <1>2 DEF OpenIOThread, AfterIO, TypeOK, ChanOK, IOOK, IOThreads, compVars
    <3>2. \A t \in CompThreads : t[1] \in Chans
      BY DEF CompThreads
    <3> QED
      BY <3>1, <3>2 DEF Unborn, Opening
  <2>3. KindsRight'
    BY <1>2, HeadTail, SeqAppend, BlockFacts, HeldBlocks DEF OpenIOThread, AfterIO, KindsRight, CompHolds, IOHolds, TypeOK, CompOK, IOOK, QueueOK, compVars, ioVars, queueVars
  <2>4. StoreRight'
    BY <1>2 DEF OpenIOThread, AfterIO, StoreRight, ring_full, TypeOK, ChanOK, CompOK, RingOK, Opening, chanVars, compVars, ringVars
  <2>5. SameClosures
    BY <1>2 DEF OpenIOThread, AfterIO, SameClosures, ClosureHolds, CallsApart, TypeOK, ChanOK, Opening, closeVars, chanVars
  <2>6. SameOpening
    BY <1>2 DEF OpenIOThread, AfterIO, SameOpening, TypeOK, ChanOK, Opening, chanVars
  <2>7. SameIOs
    BY <1>2 DEF OpenIOThread, AfterIO, SameIOs, IOHolds, Unborn, TypeOK, IOOK, ioVars, IOThreads
  <2>8. Tags'
    BY <1>2, <2>1, <2>2, <2>3, <2>4, <2>5, <2>6, <2>7, Steady, HolderFrame DEF OpenIOThread, AfterIO, chanVars, closeVars, blockVars, ringVars, queueVars, compVars, ioVars, exitVars, histVars
  <2> QED
    BY <1>2, <2>1, <2>2, <2>3, <2>4, <2>5, <2>6, <2>7, <2>8, HolderFrame DEF HolderInv, OpenIOThread, AfterIO, chanVars, closeVars, blockVars, ringVars, queueVars, compVars, ioVars, exitVars, histVars
<1>3. ASSUME NEW c \in Chans, OpenIOStore(c) PROVE HolderInv'
  <2>1. CallsApart'
    BY <1>3 DEF OpenIOStore, AfterIO, CallsApart, TypeOK, ChanOK, Opening, closeVars, chanVars, exitVars
  <2>2. Unborn'
    BY <1>3 DEF OpenIOStore, AfterIO, Unborn, TypeOK, ChanOK, CompOK, IOOK, Opening, IOThreads, chanVars, compVars, ioVars
  <2>3. StoreRight'
    BY <1>3 DEF OpenIOStore, AfterIO, StoreRight, ring_full, TypeOK, ChanOK, CompOK, RingOK, Opening, chanVars, compVars, ringVars
  <2>4. SameClosures
    BY <1>3 DEF OpenIOStore, AfterIO, SameClosures, ClosureHolds, CallsApart, TypeOK, ChanOK, Opening, closeVars, chanVars
  <2>5. SameOpening
    BY <1>3 DEF OpenIOStore, AfterIO, SameOpening, TypeOK, ChanOK, Opening, chanVars
  <2>6. Tags'
    BY <1>3, <2>1, <2>2, <2>3, <2>4, <2>5, Steady, HolderFrame DEF OpenIOStore, AfterIO, chanVars, closeVars, blockVars, ringVars, queueVars, compVars, ioVars, exitVars, histVars
  <2> QED
    BY <1>3, <2>1, <2>2, <2>3, <2>4, <2>5, <2>6, HolderFrame DEF HolderInv, OpenIOStore, AfterIO, chanVars, closeVars, blockVars, ringVars, queueVars, compVars, ioVars, exitVars, histVars
<1>4. ASSUME NEW c \in Chans, OpenCountComp(c) PROVE HolderInv'
  <2>1. CallsApart'
    BY <1>4 DEF OpenCountComp, CallsApart, TypeOK, ChanOK, Opening, closeVars, chanVars, exitVars
  <2>2. Unborn'
    BY <1>4 DEF OpenCountComp, Unborn, TypeOK, ChanOK, CompOK, IOOK, Opening, IOThreads, chanVars, compVars, ioVars
  <2>3. StoreRight'
    BY <1>4 DEF OpenCountComp, StoreRight, ring_full, TypeOK, ChanOK, CompOK, RingOK, Opening, chanVars, compVars, ringVars
  <2>4. SameClosures
    BY <1>4 DEF OpenCountComp, SameClosures, ClosureHolds, CallsApart, TypeOK, ChanOK, Opening, closeVars, chanVars
  <2>5. SameOpening
    BY <1>4 DEF OpenCountComp, SameOpening, TypeOK, ChanOK, Opening, chanVars
  <2>6. Tags'
    BY <1>4, <2>1, <2>2, <2>3, <2>4, <2>5, Steady, HolderFrame DEF OpenCountComp, chanVars, closeVars, blockVars, ringVars, queueVars, compVars, ioVars, exitVars, histVars
  <2> QED
    BY <1>4, <2>1, <2>2, <2>3, <2>4, <2>5, <2>6, HolderFrame DEF HolderInv, OpenCountComp, chanVars, closeVars, blockVars, ringVars, queueVars, compVars, ioVars, exitVars, histVars
<1>5. ASSUME NEW c \in Chans, OpenCompThreads(c) PROVE HolderInv'
  <2>1. CallsApart'
    BY <1>5 DEF OpenCompThreads, CallsApart, TypeOK, ChanOK, Opening, closeVars, chanVars, exitVars
  <2>2. Unborn'
    BY <1>5 DEF OpenCompThreads, Unborn, TypeOK, ChanOK, CompOK, IOOK, Opening, IOThreads, chanVars, compVars, ioVars
  <2>3. KindsRight'
    BY <1>5, HeadTail, SeqAppend, BlockFacts, HeldBlocks DEF OpenCompThreads, KindsRight, CompHolds, IOHolds, TypeOK, CompOK, IOOK, QueueOK, compVars, ioVars, queueVars
  <2>4. StoreRight'
    BY <1>5 DEF OpenCompThreads, StoreRight, ring_full, TypeOK, ChanOK, CompOK, RingOK, Opening, chanVars, compVars, ringVars
  <2>5. SameClosures
    BY <1>5 DEF OpenCompThreads, SameClosures, ClosureHolds, CallsApart, TypeOK, ChanOK, Opening, closeVars, chanVars
  <2>6. SameOpening
    BY <1>5 DEF OpenCompThreads, SameOpening, TypeOK, ChanOK, Opening, chanVars
  <2>7. SameComps
    <3>1. \A t \in CompThreads : t[1] = c => cpc[t] = "unborn"
      BY <1>5 DEF OpenCompThreads, Unborn, Opening
    <3> QED
      BY <1>5, <3>1 DEF OpenCompThreads, SameComps, CompHolds, TypeOK, CompOK
  <2>8. Tags'
    BY <1>5, <2>1, <2>2, <2>3, <2>4, <2>5, <2>6, <2>7, Steady, HolderFrame DEF OpenCompThreads, chanVars, closeVars, blockVars, ringVars, queueVars, compVars, ioVars, exitVars, histVars
  <2> QED
    BY <1>5, <2>1, <2>2, <2>3, <2>4, <2>5, <2>6, <2>7, <2>8, HolderFrame DEF HolderInv, OpenCompThreads, chanVars, closeVars, blockVars, ringVars, queueVars, compVars, ioVars, exitVars, histVars
<1>6. ASSUME NEW c \in Chans, OpenDone(c) PROVE HolderInv'
  <2>1. CallsApart'
    BY <1>6 DEF OpenDone, InitBlocks, CallsApart, TypeOK, ChanOK, Opening, closeVars, chanVars, exitVars
  <2>2. Unborn'
    BY <1>6 DEF OpenDone, InitBlocks, Unborn, TypeOK, ChanOK, CompOK, IOOK, Opening, IOThreads, chanVars, compVars, ioVars
  <2>3. StoreRight'
    <3>1. /\ pc[c] \in Opening /\ pc'[c] = "idle"
          /\ \A d \in Chans : d # c => pc'[d] = pc[d] /\ ridx'[d] = ridx[d] /\ widx'[d] = widx[d]
          /\ UNCHANGED <<cpc, cblk, cw>>
      BY <1>6 DEF OpenDone, InitBlocks, Opening, TypeOK, ChanOK, RingOK, compVars
    <3>2. ASSUME NEW t \in CompThreads, cpc[t] = "store"
          PROVE  cblk[t][1] \in Chans /\ cblk[t][1] # c
      BY <3>1, <3>2, HeldBlocks, BlockFacts DEF CompHolds, Tags, CompTag, NoneTag
    <3> QED
      BY <3>1, <3>2 DEF StoreRight, ring_full, Opening
  <2>4. Tags'
    BY <1>6, MakeBlocks
  <2> QED
    BY <1>6, <2>1, <2>2, <2>3, <2>4, HolderFrame DEF HolderInv, OpenDone, InitBlocks, chanVars, closeVars, blockVars, ringVars, queueVars, compVars, ioVars, exitVars, histVars
<1>7. ASSUME NEW c \in Chans, LogTS(c) PROVE HolderInv'
  <2>1. CallsApart'
    BY <1>7 DEF LogTS, AppRunning, CallsApart, TypeOK, ChanOK, Opening, closeVars, chanVars, exitVars
  <2>2. Unborn'
    BY <1>7 DEF LogTS, AppRunning, Unborn, TypeOK, ChanOK, CompOK, IOOK, Opening, IOThreads, chanVars, compVars, ioVars
  <2>3. StoreRight'
    BY <1>7 DEF LogTS, AppRunning, StoreRight, ring_full, TypeOK, ChanOK, CompOK, RingOK, Opening, chanVars, compVars, ringVars
  <2>4. SameClosures
    BY <1>7 DEF LogTS, AppRunning, SameClosures, ClosureHolds, CallsApart, TypeOK, ChanOK, Opening, closeVars, chanVars
  <2>5. SameOpening
    BY <1>7 DEF LogTS, AppRunning, SameOpening, TypeOK, ChanOK, Opening, chanVars
  <2>6. Tags'
    BY <1>7, <2>1, <2>2, <2>3, <2>4, <2>5, Steady, HolderFrame DEF LogTS, AppRunning, chanVars, closeVars, blockVars, ringVars, queueVars, compVars, ioVars, exitVars, histVars
  <2> QED
    BY <1>7, <2>1, <2>2, <2>3, <2>4, <2>5, <2>6, HolderFrame DEF HolderInv, LogTS, AppRunning, chanVars, closeVars, blockVars, ringVars, queueVars, compVars, ioVars, exitVars, histVars
<1>8. ASSUME NEW c \in Chans, WriteFirst(c) PROVE HolderInv'
  <2>1. CallsApart'
    BY <1>8 DEF WriteFirst, RecordTuple, CallsApart, TypeOK, ChanOK, Opening, closeVars, chanVars, exitVars
  <2>2. Unborn'
    BY <1>8 DEF WriteFirst, RecordTuple, Unborn, TypeOK, ChanOK, CompOK, IOOK, Opening, IOThreads, chanVars, compVars, ioVars
  <2>3. StoreRight'
    BY <1>8 DEF WriteFirst, RecordTuple, StoreRight, ring_full, TypeOK, ChanOK, CompOK, RingOK, Opening, chanVars, compVars, ringVars
  <2>4. SameClosures
    BY <1>8 DEF WriteFirst, RecordTuple, SameClosures, ClosureHolds, CallsApart, TypeOK, ChanOK, Opening, closeVars, chanVars
  <2>5. SameOpening
    BY <1>8 DEF WriteFirst, RecordTuple, SameOpening, TypeOK, ChanOK, Opening, chanVars
  <2>6. Tags'
    BY <1>8, <2>1, <2>2, <2>3, <2>4, <2>5, Steady, HolderFrame DEF WriteFirst, RecordTuple, chanVars, closeVars, blockVars, ringVars, queueVars, compVars, ioVars, exitVars, histVars
  <2> QED
    BY <1>8, <2>1, <2>2, <2>3, <2>4, <2>5, <2>6, HolderFrame DEF HolderInv, WriteFirst, RecordTuple, chanVars, closeVars, blockVars, ringVars, queueVars, compVars, ioVars, exitVars, histVars
<1>9. ASSUME NEW c \in Chans, WriteOnBlock(c) PROVE HolderInv'
  <2>1. CallsApart'
    BY <1>9 DEF WriteOnBlock, RecordTuple, CallsApart, TypeOK, ChanOK, Opening, closeVars, chanVars, exitVars
  <2>2. Unborn'
    BY <1>9 DEF WriteOnBlock, RecordTuple, Unborn, TypeOK, ChanOK, CompOK, IOOK, Opening, IOThreads, chanVars, compVars, ioVars
  <2>3. StoreRight'
    BY <1>9 DEF WriteOnBlock, RecordTuple, StoreRight, ring_full, TypeOK, ChanOK, CompOK, RingOK, Opening, chanVars, compVars, ringVars
  <2>4. SameClosures
    BY <1>9 DEF WriteOnBlock, RecordTuple, SameClosures, ClosureHolds, CallsApart, TypeOK, ChanOK, Opening, closeVars, chanVars
  <2>5. SameOpening
    BY <1>9 DEF WriteOnBlock, RecordTuple, SameOpening, TypeOK, ChanOK, Opening, chanVars
  <2>6. Tags'
    BY <1>9, <2>1, <2>2, <2>3, <2>4, <2>5, Steady, HolderFrame DEF WriteOnBlock, RecordTuple, chanVars, closeVars, blockVars, ringVars, queueVars, compVars, ioVars, exitVars, histVars
  <2> QED
    BY <1>9, <2>1, <2>2, <2>3, <2>4, <2>5, <2>6, HolderFrame DEF HolderInv, WriteOnBlock, RecordTuple, chanVars, closeVars, blockVars, ringVars, queueVars, compVars, ioVars, exitVars, histVars
<1>10. ASSUME NEW c \in Chans, EnqueueFull(c) PROVE HolderInv'
  <2>1. CallsApart'
    BY <1>10 DEF EnqueueFull, CallsApart, TypeOK, ChanOK, Opening, closeVars, chanVars, exitVars
  <2>2. Unborn'
    BY <1>10 DEF EnqueueFull, Unborn, TypeOK, ChanOK, CompOK, IOOK, Opening, IOThreads, chanVars, compVars, ioVars
  <2>3. KindsRight'
    <3>1. ClosureHolds(c)
      BY <1>10 DEF EnqueueFull, ClosureHolds, CallsApart
    <3>2. PICK b \in Blocks : b = block[c] /\ holder[b] = "closure" /\ enqueueBlock(b)
      BY <1>10, <3>1, HeldBlocks DEF EnqueueFull, Tags, ClosureTag
    <3> QED
      BY <1>10, <3>2, EnterQueue DEF EnqueueFull, KindsRight, CompHolds, IOHolds, compVars, ioVars
  <2>4. StoreRight'
    BY <1>10 DEF EnqueueFull, StoreRight, ring_full, TypeOK, ChanOK, CompOK, RingOK, Opening, chanVars, compVars, ringVars
  <2>5. SameOpening
    BY <1>10 DEF EnqueueFull, SameOpening, TypeOK, ChanOK, Opening, chanVars
  <2>6. Tags'
    <3>1. ClosureHolds(c) /\ ~ClosureHolds(c)'
      BY <1>10 DEF EnqueueFull, ClosureHolds, CallsApart, TypeOK, ChanOK
    <3>2. \A d \in Chans : d # c => (ClosureHolds(d)' <=> ClosureHolds(d))
      BY <1>10 DEF EnqueueFull, ClosureHolds, closeVars, TypeOK, ChanOK
    <3>3. enqueueBlock(block[c]) /\ UNCHANGED <<block, ringVars, cpc, cblk, ipc, idata>>
      BY <1>10 DEF EnqueueFull, compVars, ioVars
    <3>4. SameComps /\ SameIOs
      BY <3>3, HolderFrame
    <3> QED
      BY <3>1, <3>2, <3>3, <3>4, <2>5, HandOver
  <2> QED
    BY <1>10, <2>1, <2>2, <2>3, <2>4, <2>5, <2>6, HolderFrame DEF HolderInv, EnqueueFull, chanVars, closeVars, blockVars, ringVars, queueVars, compVars, ioVars, exitVars, histVars
<1>11. ASSUME NEW c \in Chans, DequeueEmpty(c) PROVE HolderInv'
  <2>1. CallsApart'
    BY <1>11 DEF DequeueEmpty, CallsApart, TypeOK, ChanOK, Opening, closeVars, chanVars, exitVars
  <2>2. Unborn'
    <3>1. /\ pc[c] = "fetch" /\ pc'[c] \in {"fetch", "idle"} /\ UNCHANGED <<cpc, ipc>>
          /\ \A d \in Chans : d # c => pc'[d] = pc[d]
      BY <1>11 DEF DequeueEmpty, TypeOK, ChanOK, compVars, ioVars
    <3>2. \A t \in CompThreads : t[1] \in Chans
      BY DEF CompThreads
    <3> QED
      BY <3>1, <3>2 DEF Unborn, Opening
  <2>3. StoreRight'
    <3>1. /\ pc[c] = "fetch" /\ pc'[c] \in {"fetch", "idle"} /\ UNCHANGED <<cpc, cblk, cw, widx>>
          /\ ~ring_empty(c)
          /\ ridx' = ridx \/ ridx' = [ridx EXCEPT ![c] = next_index(ridx[c])]
          /\ \A d \in Chans : d # c => pc'[d] = pc[d]
      BY <1>11 DEF DequeueEmpty, TypeOK, ChanOK, compVars
    <3>2. \A d \in Chans : d # c => ridx'[d] = ridx[d]
      BY <3>1 DEF TypeOK, RingOK
    <3>3. ASSUME ~ring_full(c) PROVE ~ring_full(c)'
      <4>1. /\ ridx[c] \in RingSlots /\ widx[c] \in RingSlots /\ widx'[c] = widx[c]
            /\ (ridx'[c] = ridx[c] \/ ridx'[c] = next_index(ridx[c]))
        BY <3>1 DEF TypeOK, RingOK
      <4> QED
        BY <3>1, <3>3, <4>1, SizesAssumption DEF ring_full, ring_empty, next_index, RingSlots
    <3>4. ASSUME NEW t \in CompThreads, cpc[t] = "store" PROVE cblk[t][1] \in Chans
      BY <3>4, HeldBlocks, BlockFacts DEF CompHolds
    <3>5. ASSUME NEW t \in CompThreads, cpc'[t] = "store"
          PROVE  cw'[t] = widx'[cblk'[t][1]] /\ ~ring_full(cblk[t][1])'
      BY <3>1, <3>2, <3>3, <3>4, <3>5 DEF StoreRight, ring_full
    <3>6. \A d \in Chans : pc'[d] \in Opening => ridx'[d] = widx'[d]
      BY <3>1, <3>2 DEF StoreRight, Opening
    <3> QED
      BY <3>1, <3>5, <3>6 DEF StoreRight
  <2>4. Tags'
    BY <1>11, TakeEmpty
  <2> QED
    BY <1>11, <2>1, <2>2, <2>3, <2>4, HolderFrame DEF HolderInv, DequeueEmpty, chanVars, closeVars, blockVars, ringVars, queueVars, compVars, ioVars, exitVars, histVars
<1>12. ASSUME NEW c \in Chans, CloseChannel(c) PROVE HolderInv'
  <2>1. CallsApart'
    BY <1>12 DEF CloseChannel, CloseExchange, CallsApart, TypeOK, ChanOK, Opening, closeVars, chanVars, exitVars
  <2>2. SameClosures
    BY <1>12 DEF CloseChannel, CloseExchange, SameClosures, ClosureHolds, CallsApart, TypeOK, ChanOK, Opening, closeVars, chanVars
  <2>3. Tags'
    BY <1>12, <2>1, <2>2, Steady, HolderFrame DEF CloseChannel, CloseExchange, chanVars, closeVars, blockVars, ringVars, queueVars, compVars, ioVars, exitVars, histVars
  <2> QED
    BY <1>12, <2>1, <2>2, <2>3, HolderFrame DEF HolderInv, CloseChannel, CloseExchange, chanVars, closeVars, blockVars, ringVars, queueVars, compVars, ioVars, exitVars, histVars
<1>13. ASSUME NEW c \in Chans, CloseMark(c) PROVE HolderInv'
  <2>1. CallsApart'
    BY <1>13 DEF CloseMark, CallsApart, TypeOK, ChanOK, Opening, closeVars, chanVars, exitVars
  <2>2. SameClosures
    BY <1>13 DEF CloseMark, SameClosures, ClosureHolds, CallsApart, TypeOK, ChanOK, Opening, closeVars, chanVars
  <2>3. Tags'
    BY <1>13, <2>1, <2>2, Steady, HolderFrame DEF CloseMark, chanVars, closeVars, blockVars, ringVars, queueVars, compVars, ioVars, exitVars, histVars
  <2> QED
    BY <1>13, <2>1, <2>2, <2>3, HolderFrame DEF HolderInv, CloseMark, chanVars, closeVars, blockVars, ringVars, queueVars, compVars, ioVars, exitVars, histVars
<1>14. ASSUME NEW c \in Chans, CloseEnqueue(c) PROVE HolderInv'
  <2>1. CallsApart'
    BY <1>14 DEF CloseEnqueue, CallsApart, TypeOK, ChanOK, Opening, closeVars, chanVars, exitVars
  <2>2. KindsRight'
    <3>1. ClosureHolds(c)
      BY <1>14 DEF CloseEnqueue, ClosureHolds, CallsApart
    <3>2. PICK b \in Blocks : b = block[c] /\ holder[b] = "closure" /\ enqueueBlock(b)
      BY <1>14, <3>1, HeldBlocks DEF CloseEnqueue, Tags, ClosureTag
    <3> QED
      BY <1>14, <3>2, EnterQueue DEF CloseEnqueue, KindsRight, CompHolds, IOHolds, compVars, ioVars
  <2>3. Tags'
    <3>1. ClosureHolds(c) /\ ~ClosureHolds(c)'
      BY <1>14 DEF CloseEnqueue, ClosureHolds, CallsApart, TypeOK, ChanOK, chanVars
    <3>2. \A d \in Chans : d # c => (ClosureHolds(d)' <=> ClosureHolds(d))
      BY <1>14 DEF CloseEnqueue, ClosureHolds, chanVars, TypeOK, ChanOK
    <3>3. enqueueBlock(block[c]) /\ UNCHANGED <<pc, block, ringVars, cpc, cblk, ipc, idata>>
      BY <1>14 DEF CloseEnqueue, chanVars, compVars, ioVars
    <3>4. SameComps /\ SameIOs /\ SameOpening
      BY <3>3, HolderFrame
    <3> QED
      BY <3>1, <3>2, <3>3, <3>4, HandOver
  <2> QED
    BY <1>14, <2>1, <2>2, <2>3, HolderFrame DEF HolderInv, CloseEnqueue, chanVars, closeVars, blockVars, ringVars, queueVars, compVars, ioVars, exitVars, histVars
<1>15. ASSUME NEW c \in Chans, CloseDecComp(c) PROVE HolderInv'
  <2>1. CallsApart'
    BY <1>15 DEF CloseDecComp, CallsApart, TypeOK, ChanOK, Opening, closeVars, chanVars, exitVars
  <2>2. SameClosures
    BY <1>15 DEF CloseDecComp, SameClosures, ClosureHolds, CallsApart, TypeOK, ChanOK, Opening, closeVars, chanVars
  <2>3. Tags'
    BY <1>15, <2>1, <2>2, Steady, HolderFrame DEF CloseDecComp, chanVars, closeVars, blockVars, ringVars, queueVars, compVars, ioVars, exitVars, histVars
  <2> QED
    BY <1>15, <2>1, <2>2, <2>3, HolderFrame DEF HolderInv, CloseDecComp, chanVars, closeVars, blockVars, ringVars, queueVars, compVars, ioVars, exitVars, histVars
<1>16. ASSUME NEW c \in Chans, CloseDec(c) PROVE HolderInv'
  <2>1. CallsApart'
    BY <1>16 DEF CloseDec, CallsApart, TypeOK, ChanOK, Opening, closeVars, chanVars, exitVars
  <2>2. SameClosures
    BY <1>16 DEF CloseDec, SameClosures, ClosureHolds, CallsApart, TypeOK, ChanOK, Opening, closeVars, chanVars
  <2>3. Tags'
    BY <1>16, <2>1, <2>2, Steady, HolderFrame DEF CloseDec, chanVars, closeVars, blockVars, ringVars, queueVars, compVars, ioVars, exitVars, histVars
  <2> QED
    BY <1>16, <2>1, <2>2, <2>3, HolderFrame DEF HolderInv, CloseDec, chanVars, closeVars, blockVars, ringVars, queueVars, compVars, ioVars, exitVars, histVars
<1>17. ASSUME NEW t \in CompThreads, CompPop(t) PROVE HolderInv'
  <2>1. Unborn'
    BY <1>17 DEF CompPop, Unborn, TypeOK, ChanOK, CompOK, IOOK, Opening, IOThreads, chanVars, compVars, ioVars
  <2>2. KindsRight'
    BY <1>17, HeadTail, SeqAppend, BlockFacts, HeldBlocks DEF CompPop, KindsRight, CompHolds, IOHolds, TypeOK, CompOK, IOOK, QueueOK, compVars, ioVars, queueVars
  <2>3. StoreRight'
    BY <1>17 DEF CompPop, StoreRight, ring_full, TypeOK, ChanOK, CompOK, RingOK, Opening, chanVars, compVars, ringVars
  <2>4. Tags'
    BY <1>17, TakeCompq
  <2> QED
    BY <1>17, <2>1, <2>2, <2>3, <2>4, HolderFrame DEF HolderInv, CompPop, chanVars, closeVars, blockVars, ringVars, queueVars, compVars, ioVars, exitVars, histVars
<1>18. ASSUME NEW t \in CompThreads, CompLeaveLoop(t) PROVE HolderInv'
  <2>1. Tags'
    BY <1>18, Steady, HolderFrame DEF CompLeaveLoop, chanVars, closeVars, blockVars, ringVars, queueVars, compVars, ioVars, exitVars, histVars
  <2> QED
    BY <1>18, <2>1, HolderFrame DEF HolderInv, CompLeaveLoop, chanVars, closeVars, blockVars, ringVars, queueVars, compVars, ioVars, exitVars, histVars
<1>19. ASSUME NEW t \in CompThreads, CompDrained(t) PROVE HolderInv'
  <2>1. Unborn'
    BY <1>19 DEF CompDrained, Unborn, TypeOK, ChanOK, CompOK, IOOK, Opening, IOThreads, chanVars, compVars, ioVars
  <2>2. KindsRight'
    BY <1>19, HeadTail, SeqAppend, BlockFacts, HeldBlocks DEF CompDrained, KindsRight, CompHolds, IOHolds, TypeOK, CompOK, IOOK, QueueOK, compVars, ioVars, queueVars
  <2>3. StoreRight'
    BY <1>19 DEF CompDrained, StoreRight, ring_full, TypeOK, ChanOK, CompOK, RingOK, Opening, chanVars, compVars, ringVars
  <2>4. SameComps
    BY <1>19 DEF CompDrained, SameComps, CompHolds, Unborn, TypeOK, CompOK, compVars
  <2>5. Tags'
    BY <1>19, <2>1, <2>2, <2>3, <2>4, Steady, HolderFrame DEF CompDrained, chanVars, closeVars, blockVars, ringVars, queueVars, compVars, ioVars, exitVars, histVars
  <2> QED
    BY <1>19, <2>1, <2>2, <2>3, <2>4, <2>5, HolderFrame DEF HolderInv, CompDrained, chanVars, closeVars, blockVars, ringVars, queueVars, compVars, ioVars, exitVars, histVars
<1>20. ASSUME NEW t \in CompThreads, CompStop(t) PROVE HolderInv'
  <2>1. Unborn'
    BY <1>20 DEF CompStop, Unborn, TypeOK, ChanOK, CompOK, IOOK, Opening, IOThreads, chanVars, compVars, ioVars
  <2>2. KindsRight'
    BY <1>20, HeadTail, SeqAppend, BlockFacts, HeldBlocks DEF CompStop, KindsRight, CompHolds, IOHolds, TypeOK, CompOK, IOOK, QueueOK, compVars, ioVars, queueVars
  <2>3. StoreRight'
    BY <1>20 DEF CompStop, StoreRight, ring_full, TypeOK, ChanOK, CompOK, RingOK, Opening, chanVars, compVars, ringVars
  <2>4. SameComps
    BY <1>20 DEF CompStop, SameComps, CompHolds, Unborn, TypeOK, CompOK, compVars
  <2>5. Tags'
    BY <1>20, <2>1, <2>2, <2>3, <2>4, Steady, HolderFrame DEF CompStop, chanVars, closeVars, blockVars, ringVars, queueVars, compVars, ioVars, exitVars, histVars
  <2> QED
    BY <1>20, <2>1, <2>2, <2>3, <2>4, <2>5, HolderFrame DEF HolderInv, CompStop, chanVars, closeVars, blockVars, ringVars, queueVars, compVars, ioVars, exitVars, histVars
<1>21. ASSUME NEW t \in CompThreads, CompressBlock(t) PROVE HolderInv'
  <2>1. Unborn'
    BY <1>21 DEF CompressBlock, CompressedCopy, Unborn, TypeOK, ChanOK, CompOK, IOOK, Opening, IOThreads, chanVars, compVars, ioVars
  <2>2. KindsRight'
    BY <1>21, HeadTail, SeqAppend, BlockFacts, HeldBlocks DEF CompressBlock, CompressedCopy, KindsRight, CompHolds, IOHolds, TypeOK, CompOK, IOOK, QueueOK, compVars, ioVars, queueVars
  <2>3. StoreRight'
    BY <1>21 DEF CompressBlock, CompressedCopy, StoreRight, ring_full, TypeOK, ChanOK, CompOK, RingOK, Opening, chanVars, compVars, ringVars
  <2>4. SameComps
    BY <1>21 DEF CompressBlock, CompressedCopy, SameComps, CompHolds, Unborn, TypeOK, CompOK, compVars
  <2>5. Tags'
    BY <1>21, <2>1, <2>2, <2>3, <2>4, Steady, HolderFrame DEF CompressBlock, CompressedCopy, chanVars, closeVars, blockVars, ringVars, queueVars, compVars, ioVars, exitVars, histVars
  <2> QED
    BY <1>21, <2>1, <2>2, <2>3, <2>4, <2>5, HolderFrame DEF HolderInv, CompressBlock, CompressedCopy, chanVars, closeVars, blockVars, ringVars, queueVars, compVars, ioVars, exitVars, histVars
<1>22. ASSUME NEW t \in CompThreads, SendBackLoad(t) PROVE HolderInv'
  <2>1. Unborn'
    BY <1>22 DEF SendBackLoad, Unborn, TypeOK, ChanOK, CompOK, IOOK, Opening, IOThreads, chanVars, compVars, ioVars
  <2>2. KindsRight'
    BY <1>22, HeadTail, SeqAppend, BlockFacts, HeldBlocks DEF SendBackLoad, KindsRight, CompHolds, IOHolds, TypeOK, CompOK, IOOK, QueueOK, compVars, ioVars, queueVars
  <2>3. StoreRight'
    <3>1. cblk[t][1] \in Compressed
      BY <1>22 DEF SendBackLoad, KindsRight, CompHolds
    <3>2. "return_push" \notin Races
      BY <3>1 DEF PushesApart
    <3> QED
      BY <1>22, <3>2 DEF SendBackLoad, StoreRight, ring_full, TypeOK, ChanOK, CompOK, RingOK, Opening, chanVars, compVars, ringVars
  <2>4. SameComps
    BY <1>22 DEF SendBackLoad, SameComps, CompHolds, Unborn, TypeOK, CompOK, compVars
  <2>5. Tags'
    BY <1>22, <2>1, <2>2, <2>3, <2>4, Steady, HolderFrame DEF SendBackLoad, chanVars, closeVars, blockVars, ringVars, queueVars, compVars, ioVars, exitVars, histVars
  <2> QED
    BY <1>22, <2>1, <2>2, <2>3, <2>4, <2>5, HolderFrame DEF HolderInv, SendBackLoad, chanVars, closeVars, blockVars, ringVars, queueVars, compVars, ioVars, exitVars, histVars
<1>23. ASSUME NEW t \in CompThreads, SendBackStore(t) PROVE HolderInv'
  <2>1. Unborn'
    BY <1>23 DEF SendBackStore, Unborn, TypeOK, ChanOK, CompOK, IOOK, Opening, IOThreads, chanVars, compVars, ioVars
  <2>2. KindsRight'
    BY <1>23, HeadTail, SeqAppend, BlockFacts, HeldBlocks DEF SendBackStore, KindsRight, CompHolds, IOHolds, TypeOK, CompOK, IOOK, QueueOK, compVars, ioVars, queueVars
  <2>3. StoreRight'
    <3>1. PICK b \in Blocks : b = cblk[t] /\ b[1] \in Chans /\ holder[b] = "comp" /\ cpc[t] = "store"
      BY <1>23, HeldBlocks, BlockFacts DEF SendBackStore, CompHolds, Tags, CompTag
    <3>2. /\ UNCHANGED <<pc, cblk, cw, ridx>> /\ cpc'[t] = "push"
          /\ \A u \in CompThreads : u # t => cpc'[u] = cpc[u]
          /\ \A d \in Chans : d # b[1] => widx'[d] = widx[d]
      BY <1>23, <3>1 DEF SendBackStore, TypeOK, CompOK, RingOK, chanVars
    <3>3. ASSUME NEW u \in CompThreads, cpc'[u] = "store"
          PROVE  cpc[u] = "store" /\ cblk[u][1] \in Chans /\ cblk[u][1] # b[1]
      BY <3>1, <3>2, <3>3, HeldBlocks, BlockFacts DEF CompHolds, StoreRight
    <3>4. pc[b[1]] \notin Opening
      BY <3>1 DEF Tags, NoneTag
    <3> QED
      BY <3>2, <3>3, <3>4 DEF StoreRight, ring_full
  <2>4. Tags'
    BY <1>23, GiveBackComp
  <2> QED
    BY <1>23, <2>1, <2>2, <2>3, <2>4, HolderFrame DEF HolderInv, SendBackStore, chanVars, closeVars, blockVars, ringVars, queueVars, compVars, ioVars, exitVars, histVars
<1>24. ASSUME NEW t \in CompThreads, CompPush(t) PROVE HolderInv'
  <2>1. Unborn'
    BY <1>24 DEF CompPush, Unborn, TypeOK, ChanOK, CompOK, IOOK, Opening, IOThreads, chanVars, compVars, ioVars
  <2>2. KindsRight'
    BY <1>24, HeadTail, SeqAppend, BlockFacts, HeldBlocks DEF CompPush, KindsRight, CompHolds, IOHolds, TypeOK, CompOK, IOOK, QueueOK, compVars, ioVars, queueVars
  <2>3. StoreRight'
    BY <1>24 DEF CompPush, StoreRight, ring_full, TypeOK, ChanOK, CompOK, RingOK, Opening, chanVars, compVars, ringVars
  <2>4. Tags'
    BY <1>24, SendCopy
  <2> QED
    BY <1>24, <2>1, <2>2, <2>3, <2>4, HolderFrame DEF HolderInv, CompPush, chanVars, closeVars, blockVars, ringVars, queueVars, compVars, ioVars, exitVars, histVars
<1>25. ASSUME NEW g \in IOThreads, IOTest(g) PROVE HolderInv'
  <2>1. Unborn'
    BY <1>25 DEF IOTest, IOLoopTest, Unborn, TypeOK, ChanOK, CompOK, IOOK, Opening, IOThreads, chanVars, compVars, ioVars
  <2>2. KindsRight'
    BY <1>25, HeadTail, SeqAppend, BlockFacts, HeldBlocks DEF IOTest, IOLoopTest, KindsRight, CompHolds, IOHolds, TypeOK, CompOK, IOOK, QueueOK, compVars, ioVars, queueVars
  <2>3. SameIOs
    BY <1>25 DEF IOTest, IOLoopTest, SameIOs, IOHolds, Unborn, TypeOK, IOOK, ioVars, IOThreads
  <2>4. Tags'
    BY <1>25, <2>1, <2>2, <2>3, Steady, HolderFrame DEF IOTest, IOLoopTest, chanVars, closeVars, blockVars, ringVars, queueVars, compVars, ioVars, exitVars, histVars
  <2> QED
    BY <1>25, <2>1, <2>2, <2>3, <2>4, HolderFrame DEF HolderInv, IOTest, IOLoopTest, chanVars, closeVars, blockVars, ringVars, queueVars, compVars, ioVars, exitVars, histVars
<1>26. ASSUME NEW g \in IOThreads, IOTestLeft(g) PROVE HolderInv'
  <2>1. Unborn'
    BY <1>26 DEF IOTestLeft, Unborn, TypeOK, ChanOK, CompOK, IOOK, Opening, IOThreads, chanVars, compVars, ioVars
  <2>2. KindsRight'
    BY <1>26, HeadTail, SeqAppend, BlockFacts, HeldBlocks DEF IOTestLeft, KindsRight, CompHolds, IOHolds, TypeOK, CompOK, IOOK, QueueOK, compVars, ioVars, queueVars
  <2>3. SameIOs
    BY <1>26 DEF IOTestLeft, SameIOs, IOHolds, Unborn, TypeOK, IOOK, ioVars, IOThreads
  <2>4. Tags'
    BY <1>26, <2>1, <2>2, <2>3, Steady, HolderFrame DEF IOTestLeft, chanVars, closeVars, blockVars, ringVars, queueVars, compVars, ioVars, exitVars, histVars
  <2> QED
    BY <1>26, <2>1, <2>2, <2>3, <2>4, HolderFrame DEF HolderInv, IOTestLeft, chanVars, closeVars, blockVars, ringVars, queueVars, compVars, ioVars, exitVars, histVars
<1>27. ASSUME NEW g \in IOThreads, IOTestRight(g) PROVE HolderInv'
  <2>1. Unborn'
    BY <1>27 DEF IOTestRight, IOLoopTest, Unborn, TypeOK, ChanOK, CompOK, IOOK, Opening, IOThreads, chanVars, compVars, ioVars
  <2>2. KindsRight'
    BY <1>27, HeadTail, SeqAppend, BlockFacts, HeldBlocks DEF IOTestRight, IOLoopTest, KindsRight, CompHolds, IOHolds, TypeOK, CompOK, IOOK, QueueOK, compVars, ioVars, queueVars
  <2>3. SameIOs
    BY <1>27 DEF IOTestRight, IOLoopTest, SameIOs, IOHolds, Unborn, TypeOK, IOOK, ioVars, IOThreads
  <2>4. Tags'
    BY <1>27, <2>1, <2>2, <2>3, Steady, HolderFrame DEF IOTestRight, IOLoopTest, chanVars, closeVars, blockVars, ringVars, queueVars, compVars, ioVars, exitVars, histVars
  <2> QED
    BY <1>27, <2>1, <2>2, <2>3, <2>4, HolderFrame DEF HolderInv, IOTestRight, IOLoopTest, chanVars, closeVars, blockVars, ringVars, queueVars, compVars, ioVars, exitVars, histVars
<1>28. ASSUME NEW g \in IOThreads, IOPop(g) PROVE HolderInv'
  <2>1. Unborn'
    BY <1>28 DEF IOPop, Unborn, TypeOK, ChanOK, CompOK, IOOK, Opening, IOThreads, chanVars, compVars, ioVars
  <2>2. KindsRight'
    BY <1>28, HeadTail, SeqAppend, BlockFacts, HeldBlocks DEF IOPop, KindsRight, CompHolds, IOHolds, TypeOK, CompOK, IOOK, QueueOK, compVars, ioVars, queueVars
  <2>3. Tags'
    BY <1>28, TakeIoq
  <2> QED
    BY <1>28, <2>1, <2>2, <2>3, HolderFrame DEF HolderInv, IOPop, chanVars, closeVars, blockVars, ringVars, queueVars, compVars, ioVars, exitVars, histVars
<1>29. ASSUME NEW g \in IOThreads, IOEmpty(g) PROVE HolderInv'
  <2>1. Unborn'
    BY <1>29 DEF IOEmpty, Unborn, TypeOK, ChanOK, CompOK, IOOK, Opening, IOThreads, chanVars, compVars, ioVars
  <2>2. KindsRight'
    BY <1>29, HeadTail, SeqAppend, BlockFacts, HeldBlocks DEF IOEmpty, KindsRight, CompHolds, IOHolds, TypeOK, CompOK, IOOK, QueueOK, compVars, ioVars, queueVars
  <2>3. SameIOs
    BY <1>29 DEF IOEmpty, SameIOs, IOHolds, Unborn, TypeOK, IOOK, ioVars, IOThreads
  <2>4. Tags'
    BY <1>29, <2>1, <2>2, <2>3, Steady, HolderFrame DEF IOEmpty, chanVars, closeVars, blockVars, ringVars, queueVars, compVars, ioVars, exitVars, histVars
  <2> QED
    BY <1>29, <2>1, <2>2, <2>3, <2>4, HolderFrame DEF HolderInv, IOEmpty, chanVars, closeVars, blockVars, ringVars, queueVars, compVars, ioVars, exitVars, histVars
<1>30. ASSUME NEW g \in IOThreads, WriteUncompressed(g) PROVE HolderInv'
  <2>1. Unborn'
    BY <1>30 DEF WriteUncompressed, Unborn, TypeOK, ChanOK, CompOK, IOOK, Opening, IOThreads, chanVars, compVars, ioVars
  <2>2. KindsRight'
    BY <1>30, HeadTail, SeqAppend, BlockFacts, HeldBlocks DEF WriteUncompressed, KindsRight, CompHolds, IOHolds, TypeOK, CompOK, IOOK, QueueOK, compVars, ioVars, queueVars
  <2>3. SameIOs
    BY <1>30 DEF WriteUncompressed, SameIOs, IOHolds, Unborn, TypeOK, IOOK, ioVars, IOThreads
  <2>4. Tags'
    BY <1>30, <2>1, <2>2, <2>3, Steady, HolderFrame DEF WriteUncompressed, chanVars, closeVars, blockVars, ringVars, queueVars, compVars, ioVars, exitVars, histVars
  <2> QED
    BY <1>30, <2>1, <2>2, <2>3, <2>4, HolderFrame DEF HolderInv, WriteUncompressed, chanVars, closeVars, blockVars, ringVars, queueVars, compVars, ioVars, exitVars, histVars
<1>31. ASSUME NEW g \in IOThreads, SendBackUncompressed(g) PROVE HolderInv'
  <2>1. Unborn'
    BY <1>31 DEF SendBackUncompressed, sendBackBlock, AfterBlock, Unborn, TypeOK, ChanOK, CompOK, IOOK, Opening, IOThreads, chanVars, compVars, ioVars
  <2>2. KindsRight'
    BY <1>31, HeadTail, SeqAppend, BlockFacts, HeldBlocks DEF SendBackUncompressed, sendBackBlock, AfterBlock, KindsRight, CompHolds, IOHolds, TypeOK, CompOK, IOOK, QueueOK, compVars, ioVars, queueVars
  <2>3. StoreRight'
    <3>1. PICK b \in Blocks : /\ b = idata[g].blk /\ b[1] \in Chans /\ holder[b] = "io"
                             /\ b[1] = idata[g].ch /\ b[1] \notin Compressed
      BY <1>31, HeldBlocks, BlockFacts, ItemFacts
         DEF SendBackUncompressed, IOHolds, Tags, IoTag, KindsRight, TypeOK, IOOK
    <3>2. /\ UNCHANGED <<pc, cpc, cblk, cw, ridx>>
          /\ \A d \in Chans : d # b[1] => widx'[d] = widx[d]
      BY <1>31, <3>1 DEF SendBackUncompressed, sendBackBlock, TypeOK, RingOK, chanVars, compVars
    <3>3. ASSUME NEW u \in CompThreads, cpc[u] = "store"
          PROVE  cblk[u][1] \in Chans /\ cblk[u][1] # b[1]
      BY <3>1, <3>3, HeldBlocks, BlockFacts DEF CompHolds, KindsRight
    <3>4. pc[b[1]] \notin Opening
      BY <3>1 DEF Tags, NoneTag
    <3> QED
      BY <3>2, <3>3, <3>4 DEF StoreRight, ring_full
  <2>4. Tags'
    BY <1>31, GiveBackRaw
  <2> QED
    BY <1>31, <2>1, <2>2, <2>3, <2>4, HolderFrame DEF HolderInv, SendBackUncompressed, sendBackBlock, AfterBlock, chanVars, closeVars, blockVars, ringVars, queueVars, compVars, ioVars, exitVars, histVars
<1>32. ASSUME NEW g \in IOThreads, ParkCompressed(g) PROVE HolderInv'
  <2>1. Unborn'
    BY <1>32 DEF ParkCompressed, AfterBlock, Unborn, TypeOK, ChanOK, CompOK, IOOK, Opening, IOThreads, chanVars, compVars, ioVars
  <2>2. KindsRight'
    BY <1>32, HeadTail, SeqAppend, BlockFacts, HeldBlocks DEF ParkCompressed, AfterBlock, KindsRight, CompHolds, IOHolds, TypeOK, CompOK, IOOK, QueueOK, compVars, ioVars, queueVars
  <2>3. SameIOs
    BY <1>32 DEF ParkCompressed, AfterBlock, SameIOs, IOHolds, Unborn, TypeOK, IOOK, ioVars, IOThreads
  <2>4. Tags'
    BY <1>32, <2>1, <2>2, <2>3, Steady, HolderFrame DEF ParkCompressed, AfterBlock, chanVars, closeVars, blockVars, ringVars, queueVars, compVars, ioVars, exitVars, histVars
  <2> QED
    BY <1>32, <2>1, <2>2, <2>3, <2>4, HolderFrame DEF HolderInv, ParkCompressed, AfterBlock, chanVars, closeVars, blockVars, ringVars, queueVars, compVars, ioVars, exitVars, histVars
<1>33. ASSUME NEW g \in IOThreads, WriteCompressed(g) PROVE HolderInv'
  <2>1. Unborn'
    BY <1>33 DEF WriteCompressed, Unborn, TypeOK, ChanOK, CompOK, IOOK, Opening, IOThreads, chanVars, compVars, ioVars
  <2>2. KindsRight'
    BY <1>33, HeadTail, SeqAppend, BlockFacts, HeldBlocks DEF WriteCompressed, KindsRight, CompHolds, IOHolds, TypeOK, CompOK, IOOK, QueueOK, compVars, ioVars, queueVars
  <2>3. SameIOs
    BY <1>33 DEF WriteCompressed, SameIOs, IOHolds, Unborn, TypeOK, IOOK, ioVars, IOThreads
  <2>4. Tags'
    BY <1>33, <2>1, <2>2, <2>3, Steady, HolderFrame DEF WriteCompressed, chanVars, closeVars, blockVars, ringVars, queueVars, compVars, ioVars, exitVars, histVars
  <2> QED
    BY <1>33, <2>1, <2>2, <2>3, <2>4, HolderFrame DEF HolderInv, WriteCompressed, chanVars, closeVars, blockVars, ringVars, queueVars, compVars, ioVars, exitVars, histVars
<1>34. ASSUME NEW g \in IOThreads, UnparkCompressed(g) PROVE HolderInv'
  <2>1. Tags'
    BY <1>34, Steady, HolderFrame DEF UnparkCompressed, chanVars, closeVars, blockVars, ringVars, queueVars, compVars, ioVars, exitVars, histVars
  <2> QED
    BY <1>34, <2>1, HolderFrame DEF HolderInv, UnparkCompressed, chanVars, closeVars, blockVars, ringVars, queueVars, compVars, ioVars, exitVars, histVars
<1>35. ASSUME NEW g \in IOThreads, UnparkDone(g) PROVE HolderInv'
  <2>1. Unborn'
    BY <1>35 DEF UnparkDone, AfterBlock, Unborn, TypeOK, ChanOK, CompOK, IOOK, Opening, IOThreads, chanVars, compVars, ioVars
  <2>2. KindsRight'
    BY <1>35, HeadTail, SeqAppend, BlockFacts, HeldBlocks DEF UnparkDone, AfterBlock, KindsRight, CompHolds, IOHolds, TypeOK, CompOK, IOOK, QueueOK, compVars, ioVars, queueVars
  <2>3. SameIOs
    BY <1>35 DEF UnparkDone, AfterBlock, SameIOs, IOHolds, Unborn, TypeOK, IOOK, ioVars, IOThreads
  <2>4. Tags'
    BY <1>35, <2>1, <2>2, <2>3, Steady, HolderFrame DEF UnparkDone, AfterBlock, chanVars, closeVars, blockVars, ringVars, queueVars, compVars, ioVars, exitVars, histVars
  <2> QED
    BY <1>35, <2>1, <2>2, <2>3, <2>4, HolderFrame DEF HolderInv, UnparkDone, AfterBlock, chanVars, closeVars, blockVars, ringVars, queueVars, compVars, ioVars, exitVars, histVars
<1>36. ASSUME NEW g \in IOThreads, IOTerminate(g) PROVE HolderInv'
  <2>1. Unborn'
    BY <1>36 DEF IOTerminate, Unborn, TypeOK, ChanOK, CompOK, IOOK, Opening, IOThreads, chanVars, compVars, ioVars
  <2>2. KindsRight'
    BY <1>36, HeadTail, SeqAppend, BlockFacts, HeldBlocks DEF IOTerminate, KindsRight, CompHolds, IOHolds, TypeOK, CompOK, IOOK, QueueOK, compVars, ioVars, queueVars
  <2>3. SameIOs
    BY <1>36 DEF IOTerminate, SameIOs, IOHolds, Unborn, TypeOK, IOOK, ioVars, IOThreads
  <2>4. Tags'
    BY <1>36, <2>1, <2>2, <2>3, Steady, HolderFrame DEF IOTerminate, chanVars, closeVars, blockVars, ringVars, queueVars, compVars, ioVars, exitVars, histVars
  <2> QED
    BY <1>36, <2>1, <2>2, <2>3, <2>4, HolderFrame DEF HolderInv, IOTerminate, chanVars, closeVars, blockVars, ringVars, queueVars, compVars, ioVars, exitVars, histVars
<1>37. ASSUME NEW g \in IOThreads, IOClearIO(g) PROVE HolderInv'
  <2>1. Unborn'
    BY <1>37 DEF IOClearIO, Unborn, TypeOK, ChanOK, CompOK, IOOK, Opening, IOThreads, chanVars, compVars, ioVars
  <2>2. KindsRight'
    BY <1>37, HeadTail, SeqAppend, BlockFacts, HeldBlocks DEF IOClearIO, KindsRight, CompHolds, IOHolds, TypeOK, CompOK, IOOK, QueueOK, compVars, ioVars, queueVars
  <2>3. SameIOs
    BY <1>37 DEF IOClearIO, SameIOs, IOHolds, Unborn, TypeOK, IOOK, ioVars, IOThreads
  <2>4. Tags'
    BY <1>37, <2>1, <2>2, <2>3, Steady, HolderFrame DEF IOClearIO, chanVars, closeVars, blockVars, ringVars, queueVars, compVars, ioVars, exitVars, histVars
  <2> QED
    BY <1>37, <2>1, <2>2, <2>3, <2>4, HolderFrame DEF HolderInv, IOClearIO, chanVars, closeVars, blockVars, ringVars, queueVars, compVars, ioVars, exitVars, histVars
<1>38. ASSUME NEW g \in IOThreads, IOClearComp(g) PROVE HolderInv'
  <2>1. Unborn'
    BY <1>38 DEF IOClearComp, Unborn, TypeOK, ChanOK, CompOK, IOOK, Opening, IOThreads, chanVars, compVars, ioVars
  <2>2. KindsRight'
    BY <1>38, HeadTail, SeqAppend, BlockFacts, HeldBlocks DEF IOClearComp, KindsRight, CompHolds, IOHolds, TypeOK, CompOK, IOOK, QueueOK, compVars, ioVars, queueVars
  <2>3. SameIOs
    BY <1>38 DEF IOClearComp, SameIOs, IOHolds, Unborn, TypeOK, IOOK, ioVars, IOThreads
  <2>4. Tags'
    BY <1>38, <2>1, <2>2, <2>3, Steady, HolderFrame DEF IOClearComp, chanVars, closeVars, blockVars, ringVars, queueVars, compVars, ioVars, exitVars, histVars
  <2> QED
    BY <1>38, <2>1, <2>2, <2>3, <2>4, HolderFrame DEF HolderInv, IOClearComp, chanVars, closeVars, blockVars, ringVars, queueVars, compVars, ioVars, exitVars, histVars
<1>39. ASSUME NormalExit PROVE HolderInv'
  <2>1. CallsApart'
    BY <1>39 DEF NormalExit, ExitAllowed, InCall, CallsApart, TypeOK, ChanOK, Opening, closeVars, chanVars, exitVars
  <2>2. Tags'
    BY <1>39, <2>1, Steady, HolderFrame DEF NormalExit, ExitAllowed, InCall, chanVars, closeVars, blockVars, ringVars, queueVars, compVars, ioVars, exitVars, histVars
  <2> QED
    BY <1>39, <2>1, <2>2, HolderFrame DEF HolderInv, NormalExit, ExitAllowed, InCall, chanVars, closeVars, blockVars, ringVars, queueVars, compVars, ioVars, exitVars, histVars
<1>40. ASSUME Signal PROVE HolderInv'
  <2>1. CallsApart'
    BY <1>40 DEF Signal, ExitAllowed, InCall, CallsApart, TypeOK, ChanOK, Opening, closeVars, chanVars, exitVars
  <2>2. Tags'
    BY <1>40, <2>1, Steady, HolderFrame DEF Signal, ExitAllowed, InCall, chanVars, closeVars, blockVars, ringVars, queueVars, compVars, ioVars, exitVars, histVars
  <2> QED
    BY <1>40, <2>1, <2>2, HolderFrame DEF HolderInv, Signal, ExitAllowed, InCall, chanVars, closeVars, blockVars, ringVars, queueVars, compVars, ioVars, exitVars, histVars
<1>41. ASSUME NEW c \in Chans, ExitClose(c) PROVE HolderInv'
  <2>1. CallsApart'
    BY <1>41 DEF ExitClose, CloseExchange, CallsApart, TypeOK, ChanOK, Opening, closeVars, chanVars, exitVars
  <2>2. SameClosures
    BY <1>41 DEF ExitClose, CloseExchange, SameClosures, ClosureHolds, CallsApart, TypeOK, ChanOK, Opening, closeVars, chanVars
  <2>3. Tags'
    BY <1>41, <2>1, <2>2, Steady, HolderFrame DEF ExitClose, CloseExchange, chanVars, closeVars, blockVars, ringVars, queueVars, compVars, ioVars, exitVars, histVars
  <2> QED
    BY <1>41, <2>1, <2>2, <2>3, HolderFrame DEF HolderInv, ExitClose, CloseExchange, chanVars, closeVars, blockVars, ringVars, queueVars, compVars, ioVars, exitVars, histVars
<1>42. ASSUME ExitClosed PROVE HolderInv'
  <2>1. CallsApart'
    BY <1>42 DEF ExitClosed, CallsApart, TypeOK, ChanOK, Opening, closeVars, chanVars, exitVars
  <2>2. Tags'
    BY <1>42, <2>1, Steady, HolderFrame DEF ExitClosed, chanVars, closeVars, blockVars, ringVars, queueVars, compVars, ioVars, exitVars, histVars
  <2> QED
    BY <1>42, <2>1, <2>2, HolderFrame DEF HolderInv, ExitClosed, chanVars, closeVars, blockVars, ringVars, queueVars, compVars, ioVars, exitVars, histVars
<1>43. ASSUME ExitCheck PROVE HolderInv'
  <2>1. CallsApart'
    BY <1>43 DEF ExitCheck, CallsApart, TypeOK, ChanOK, Opening, closeVars, chanVars, exitVars
  <2>2. Tags'
    BY <1>43, <2>1, Steady, HolderFrame DEF ExitCheck, chanVars, closeVars, blockVars, ringVars, queueVars, compVars, ioVars, exitVars, histVars
  <2> QED
    BY <1>43, <2>1, <2>2, HolderFrame DEF HolderInv, ExitCheck, chanVars, closeVars, blockVars, ringVars, queueVars, compVars, ioVars, exitVars, histVars
<1>44. ASSUME ExitLoad PROVE HolderInv'
  <2>1. CallsApart'
    BY <1>44 DEF ExitLoad, CallsApart, TypeOK, ChanOK, Opening, closeVars, chanVars, exitVars
  <2>2. Tags'
    BY <1>44, <2>1, Steady, HolderFrame DEF ExitLoad, chanVars, closeVars, blockVars, ringVars, queueVars, compVars, ioVars, exitVars, histVars
  <2> QED
    BY <1>44, <2>1, <2>2, HolderFrame DEF HolderInv, ExitLoad, chanVars, closeVars, blockVars, ringVars, queueVars, compVars, ioVars, exitVars, histVars
<1>45. ASSUME ExitJoin PROVE HolderInv'
  <2>1. Tags'
    BY <1>45, Steady, HolderFrame DEF ExitJoin, chanVars, closeVars, blockVars, ringVars, queueVars, compVars, ioVars, exitVars, histVars
  <2> QED
    BY <1>45, <2>1, HolderFrame DEF HolderInv, ExitJoin, chanVars, closeVars, blockVars, ringVars, queueVars, compVars, ioVars, exitVars, histVars
<1>46. CASE UNCHANGED vars
  <2>1. UNCHANGED <<pc, handler_f, block, closing, slots, ridx, widx, compression_queue, io_queue,
                    cpc, cblk, new_block, cw, ipc, idata, xpc, holder>>
    BY <1>46 DEF vars, chanVars, closeVars, blockVars, ringVars, queueVars, compVars, ioVars, exitVars, histVars
  <2> QED
    BY <2>1, Steady, HolderFrame DEF HolderInv, ringVars, queueVars
<1> QED
  BY <1>1, <1>2, <1>3, <1>4, <1>5, <1>6, <1>7, <1>8, <1>9, <1>10, <1>11, <1>12, <1>13, <1>14, <1>15, <1>16, <1>17, <1>18, <1>19, <1>20, <1>21, <1>22, <1>23, <1>24, <1>25, <1>26, <1>27, <1>28, <1>29, <1>30, <1>31, <1>32, <1>33, <1>34, <1>35, <1>36, <1>37, <1>38, <1>39, <1>40, <1>41, <1>42, <1>43, <1>44, <1>45, <1>46 DEF Next, Request, CallStep, CloseStep,
     CompStep, IOStep, ExitRequest, ExitStep, Terminated

\* At the start there is no block and no thread.
LEMMA HolderInit == Init => HolderInv
<1> SUFFICES ASSUME Init PROVE HolderInv
  OBVIOUS
<1>1. TypeOK
  BY TypeInit
<1>2. /\ \A c \in Chans : pc[c] = "new" /\ closing[c] = "no" /\ handler_f[c] = "none"
      /\ \A b \in Blocks : holder[b] = "none"
      /\ \A t \in CompThreads : cpc[t] = "unborn"
      /\ \A g \in IOThreads : ipc[g] = "unborn"
      /\ compression_queue = <<>> /\ io_queue = <<>> /\ xpc = "no"
      /\ \A c \in Chans : ridx[c] = 0 /\ widx[c] = 0
  BY DEF Init
<1>3. \A t \in CompThreads : ~CompHolds(t)
  BY <1>2 DEF CompHolds
<1>4. \A g \in IOThreads : ~IOHolds(g)
  BY <1>2 DEF IOHolds
<1>5. \A c \in Chans : ~ClosureHolds(c)
  BY <1>2 DEF ClosureHolds, Opening
<1>6. \A c \in Chans : \A i \in RingSlots : ~Live(c, i)
  BY <1>2 DEF Live, RingSlots
<1>7. CallsApart /\ Unborn
  BY <1>2 DEF CallsApart, Unborn, IOThreads, CompThreads
<1>8. KindsRight /\ StoreRight
  BY <1>2, <1>3, <1>4 DEF KindsRight, StoreRight
<1>9. ClosureTag /\ RingTag /\ NoneTag
  BY <1>2, <1>5, <1>6, BlockFacts DEF ClosureTag, RingTag, NoneTag, Opening
<1>10. CompqTag /\ CompTag /\ IoqTag /\ IoTag
  BY <1>2, <1>3, <1>4 DEF CompqTag, CompTag, IoqTag, IoTag
<1> QED
  BY <1>1, <1>7, <1>8, <1>9, <1>10 DEF HolderInv, Tags

\* The invariant says where the one holder of a block is.
LEMMA HolderOne == HolderInv => OneHolder
<1> SUFFICES ASSUME HolderInv, NEW c \in Chans, pc[c] \notin Opening, NEW b \in BlocksOf(c)
             PROVE  \E h \in Holders(b) : Holders(b) = {h}
  BY DEF OneHolder
<1>0. TypeOK /\ KindsRight /\ Tags
  BY DEF HolderInv
<1>1. b \in Blocks /\ b[1] = c /\ b # NULL
  BY BlockFacts
<1>2. holder[b] \in {"closure", "ring", "compq", "comp", "ioq", "io"}
  BY <1>0, <1>1 DEF TypeOK, HistOK, Tags, NoneTag
<1>3. \A d \in Chans : ClosureHolds(d) /\ block[d] = b <=> d = c /\ holder[b] = "closure"
  BY <1>0, <1>1, HeldBlocks, BlockFacts DEF Tags, ClosureTag
<1>4. /\ \A i \in RingSlots : Live(c, i) /\ slots[c][i] = b => holder[b] = "ring"
      /\ \A i, j \in RingSlots : Live(c, i) /\ slots[c][i] = b /\ Live(c, j) /\ slots[c][j] = b => i = j
      /\ holder[b] = "ring" => \E i \in RingSlots : Live(c, i) /\ slots[c][i] = b
  BY <1>0, <1>1 DEF Tags, RingTag
<1>5. /\ \A i \in 1..Len(compression_queue) : compression_queue[i] = b => holder[b] = "compq"
      /\ \A i, j \in 1..Len(compression_queue) : compression_queue[i] = b /\ compression_queue[j] = b => i = j
      /\ holder[b] = "compq" => \E i \in 1..Len(compression_queue) : compression_queue[i] = b
  BY <1>0, <1>1 DEF Tags, CompqTag
<1>6. /\ \A t \in CompThreads : CompHolds(t) /\ cblk[t] = b => holder[b] = "comp"
      /\ \A t, u \in CompThreads : CompHolds(t) /\ cblk[t] = b /\ CompHolds(u) /\ cblk[u] = b => t = u
      /\ holder[b] = "comp" => \E t \in CompThreads : CompHolds(t) /\ cblk[t] = b
  BY <1>0, <1>1 DEF Tags, CompTag
<1>7. /\ \A i \in 1..Len(io_queue) : io_queue[i].blk = b => holder[b] = "ioq"
      /\ \A i, j \in 1..Len(io_queue) : io_queue[i].blk = b /\ io_queue[j].blk = b => i = j
      /\ holder[b] = "ioq" => \E i \in 1..Len(io_queue) : io_queue[i].blk = b
  <2>1. \A i \in 1..Len(io_queue) : io_queue[i].blk = b => ~io_queue[i].compress
    BY <1>0, <1>1 DEF KindsRight
  <2> QED
    BY <2>1, <1>0, <1>1 DEF Tags, IoqTag
<1>8. /\ \A g \in IOThreads : IOHolds(g) /\ idata[g].blk = b => holder[b] = "io"
      /\ \A g, h \in IOThreads : IOHolds(g) /\ idata[g].blk = b /\ IOHolds(h) /\ idata[h].blk = b => g = h
      /\ holder[b] = "io" => \E g \in IOThreads : IOHolds(g) /\ idata[g].blk = b
  BY <1>0, <1>1 DEF Tags, IoTag
<1>9. DOMAIN compression_queue = 1..Len(compression_queue) /\ DOMAIN io_queue = 1..Len(io_queue)
  BY <1>0, HeldBlocks
<1> DEFINE AtClosure == {d \in Chans : ClosureHolds(d) /\ block[d] = b}
           AtRing == {j \in RingSlots : Live(b[1], j) /\ slots[b[1]][j] = b}
           AtCompq == {j \in DOMAIN compression_queue : compression_queue[j] = b}
           AtComp == {u \in CompThreads : CompHolds(u) /\ cblk[u] = b}
           AtIoq == {j \in DOMAIN io_queue : io_queue[j].blk = b}
           AtIo == {h \in IOThreads : IOHolds(h) /\ idata[h].blk = b}
           None(S) == \A x : x \notin S
           One(S) == \E x \in S : \A y \in S : y = x
<1>10. /\ IF holder[b] = "closure" THEN One(AtClosure) ELSE None(AtClosure)
       /\ IF holder[b] = "ring" THEN One(AtRing) ELSE None(AtRing)
       /\ IF holder[b] = "compq" THEN One(AtCompq) ELSE None(AtCompq)
       /\ IF holder[b] = "comp" THEN One(AtComp) ELSE None(AtComp)
       /\ IF holder[b] = "ioq" THEN One(AtIoq) ELSE None(AtIoq)
       /\ IF holder[b] = "io" THEN One(AtIo) ELSE None(AtIo)
  <2>1. IF holder[b] = "closure" THEN One(AtClosure) ELSE None(AtClosure)
    BY <1>3
  <2>2. IF holder[b] = "ring" THEN One(AtRing) ELSE None(AtRing)
    BY <1>1, <1>4
  <2>3. IF holder[b] = "compq" THEN One(AtCompq) ELSE None(AtCompq)
    BY <1>5, <1>9
  <2>4. IF holder[b] = "comp" THEN One(AtComp) ELSE None(AtComp)
    BY <1>6
  <2>5. IF holder[b] = "ioq" THEN One(AtIoq) ELSE None(AtIoq)
    BY <1>7, <1>9
  <2>6. IF holder[b] = "io" THEN One(AtIo) ELSE None(AtIo)
    BY <1>8
  <2> QED
    BY <2>1, <2>2, <2>3, <2>4, <2>5, <2>6
<1>11. Holders(b) = {<<"closure", d>> : d \in AtClosure} \cup {<<"ring", i>> : i \in AtRing}
                    \cup {<<"compq", i>> : i \in AtCompq} \cup {<<"comp", t>> : t \in AtComp}
                    \cup {<<"ioq", i>> : i \in AtIoq} \cup {<<"io", g>> : g \in AtIo}
  BY DEF Holders
<1> HIDE DEF AtClosure, AtRing, AtCompq, AtComp, AtIoq, AtIo
<1> DEFINE Tagged(p, S) == {<<p, x>> : x \in S}
           Single(T) == \E h : T = {h}
<1>12. ASSUME NEW p, NEW S, None(S) PROVE Tagged(p, S) = {}
  BY <1>12
<1>13. ASSUME NEW p, NEW S, One(S) PROVE Single(Tagged(p, S))
  <2>1. PICK x \in S : \A y \in S : y = x
    BY <1>13
  <2>2. Tagged(p, S) = {<<p, x>>}
    BY <2>1
  <2> QED
    BY <2>2
<1> HIDE DEF None, One, Single, Tagged
<1>14. IF holder[b] = "closure" THEN Single(Tagged("closure", AtClosure)) ELSE Tagged("closure", AtClosure) = {}
  BY <1>10, <1>12, <1>13
<1>15. IF holder[b] = "ring" THEN Single(Tagged("ring", AtRing)) ELSE Tagged("ring", AtRing) = {}
  BY <1>10, <1>12, <1>13
<1>16. IF holder[b] = "compq" THEN Single(Tagged("compq", AtCompq)) ELSE Tagged("compq", AtCompq) = {}
  BY <1>10, <1>12, <1>13
<1>17. IF holder[b] = "comp" THEN Single(Tagged("comp", AtComp)) ELSE Tagged("comp", AtComp) = {}
  BY <1>10, <1>12, <1>13
<1>18. IF holder[b] = "ioq" THEN Single(Tagged("ioq", AtIoq)) ELSE Tagged("ioq", AtIoq) = {}
  BY <1>10, <1>12, <1>13
<1>19. IF holder[b] = "io" THEN Single(Tagged("io", AtIo)) ELSE Tagged("io", AtIo) = {}
  BY <1>10, <1>12, <1>13
<1>20. Holders(b) = Tagged("closure", AtClosure) \cup Tagged("ring", AtRing) \cup Tagged("compq", AtCompq)
                    \cup Tagged("comp", AtComp) \cup Tagged("ioq", AtIoq) \cup Tagged("io", AtIo)
  BY <1>11 DEF Tagged
<1>21. Single(Holders(b))
  BY <1>2, <1>14, <1>15, <1>16, <1>17, <1>18, <1>19, <1>20 DEF Single
<1> QED
  BY <1>21 DEF Single

\* In a process without compressed channels a block of a channel that is open is in
\* exactly one place: the closure, the return ring, a queue or the hands of the IO thread.
\* It is never lost and never handed out twice, for every number of channels, blocks and
\* places in the queues, whichever of the other races happen.  The IO thread is then the
\* only one that pushes to the rings; with compression threads the statement is false
\* (sendBackBlockUntilSuccess, block_data.cpp).
THEOREM BlockHeldOnce ==
  ASSUME "async_exit" \notin Races, Compressed = {}
  PROVE  Spec => []OneHolder
<1>1. HolderInv /\ [Next]_vars => HolderInv'
  BY HolderStep DEF PushesApart
<1>2. Init => HolderInv
  BY HolderInit
<1>3. HolderInv => OneHolder
  BY HolderOne
<1> QED
  BY <1>1, <1>2, <1>3, PTL DEF Spec

-----------------------------------------------------------------------------
(* What the log files hold.  The invariant follows a chunk of the log:      *)
(* while the closure fills a block, the block has the last chunk; once the  *)
(* block is handed over, the chunk does not change any more, and the block, *)
(* then its copy, carries it under its number.  One IO thread at a time     *)
(* takes what the queue holds: compressed copies are written when their     *)
(* number is next, and the blocks of the other channels come in the order   *)
(* of their numbers without a gap.                                          *)

\* Blocks that the handler and closeChannel have handed over.
Enqueued(c) ==
  IF pc[c] \in Opening THEN 0
  ELSE IF ClosureHolds(c) THEN block_cnt[c] - 1 ELSE block_cnt[c]

\* The chunk of the log that the channel's block number n carries.
Chunk(c, n) == log[c][n + 1 + Direct(c)]

\* The caller has yet to write the first tuple of a TSC channel.
FirstDue(c) == c \in Tsc /\ first_logging[c]

\* Blocks in a file that is open.
Done(c) == IF FirstDue(c) THEN 0 ELSE Len(file[c]) - Direct(c)

\* closeChannel has handed over the last block.
Flushed(c) == closing[c] \in {"deccomp", "dec", "done"} /\ c \notin Tsc

\* One IO thread at a time works: from its start until it says that it ends.
Busy(g) == ipc[g] \notin {"unborn", "clear_comp", "dead"}

OneIO ==
  /\ \A g \in IOThreads : Busy(g) => io_thread_created
  /\ \A g, h \in IOThreads : Busy(g) /\ Busy(h) => g = h

\* Before a channel is open it has no block and no file; afterwards its log has one
\* chunk for each block number given out, and one for the first tuple of a TSC channel.
LogShape ==
  \A c \in Chans :
    /\ pc[c] \in Opening => /\ file[c] = <<>> /\ ch_logf[c] = "none"
                            /\ next_block[c] = 0 /\ first_logging[c]
    /\ pc[c] \notin Opening => block_cnt[c] >= 1 /\ Len(log[c]) = block_cnt[c] + Direct(c)
    /\ pc[c] \notin Opening /\ FirstDue(c) =>
         /\ block_cnt[c] = 1 /\ pc[c] \in {"idle", "write"}
         /\ file[c] = <<>> /\ log[c][1] = <<>>

\* The closure fills the block with the highest number, which has the last chunk.
ClosureBlock ==
  \A c \in Chans : ClosureHolds(c) =>
    /\ block_id[block[c]] = block_cnt[c] - 1
    /\ data[block[c]] = Chunk(c, block_id[block[c]])

\* A block that was handed over and is not yet emptied carries its chunk.
Carrying(b) ==
  \/ holder[b] \in {"compq", "ioq"}
  \/ \E t \in CompThreads : cpc[t] = "compress" /\ cblk[t] = b
  \/ \E g \in IOThreads : ipc[g] = "writeraw" /\ idata[g].blk = b

Full(b) == block_id[b] < Enqueued(b[1]) /\ data[b] = Chunk(b[1], block_id[b])

BlocksFull == \A b \in Blocks : Carrying(b) => Full(b)

\* A block that waits for use, or is on its way back from a compression thread, is empty.
Waiting(b) ==
  \/ holder[b] \in {"none", "ring"}
  \/ \E t \in CompThreads : cpc[t] \in {"slot", "store"} /\ cblk[t] = b

BlocksEmpty == \A b \in Blocks : Waiting(b) => data[b] = <<>>

\* The block that is marked is the last one of its channel.
MarkedLast ==
  \A b \in Blocks : close_file[b] =>
    /\ b[1] \notin Tsc /\ closing[b[1]] \notin {"no", "mark"}
    /\ block_id[b] + 1 = block_cnt[b[1]]

\* The copies on their way to a file, each with its chunk and its mark.
Copies(d) ==
  \/ \E t \in CompThreads : cpc[t] \in {"slot", "store", "push"} /\ new_block[t] = d
  \/ \E i \in 1..Len(io_queue) : io_queue[i] = d /\ d.compress
  \/ \E g \in IOThreads : ipc[g] \in {"writecomp", "unpark"} /\ idata[g] = d
  \/ \E c \in Chans : \E i \in 1..Len(pending[c]) : pending[c][i] = d

CopyRight(d) ==
  /\ d.ch \in Compressed
  /\ d.block_id < Enqueued(d.ch) /\ d.data = Chunk(d.ch, d.block_id)
  /\ d.close_file => Flushed(d.ch) /\ d.block_id + 1 = block_cnt[d.ch]

CopiesRight == \A d \in Item : Copies(d) => CopyRight(d)

\* The copies are parked by channel, and the one the IO thread still has at hand while it
\* looks at them is in the file.
ParkedRight ==
  /\ \A c \in Chans : \A i \in 1..Len(pending[c]) : pending[c][i].ch = c
  /\ \A g \in IOThreads : ipc[g] = "unpark" => idata[g].block_id < next_block[idata[g].ch]

\* A file is a prefix of the log that stops before the block in use; next_block counts
\* the blocks of a compressed one; one that is closed has all of the log.
FileAt(c) ==
  /\ \A i \in 1..Len(file[c]) : file[c][i] = log[c][i]
  /\ Done(c) <= Enqueued(c)
  /\ ch_logf[c] = "open" => Done(c) >= 0
  /\ ch_logf[c] = "open" /\ c \in Compressed => next_block[c] = Done(c)
  /\ ch_logf[c] = "closed" => file[c] = log[c] /\ Flushed(c)

FileRight == \A c \in Chans : FileAt(c)

\* The blocks of a channel that is not compressed come to the IO thread in order: the one
\* at hand, those in the queue, without a gap up to the last one handed over.
AtHand(g, c) == ipc[g] = "writeraw" /\ idata[g].ch = c

RawAt(c) ==
  /\ \A g \in IOThreads : AtHand(g, c) => block_id[idata[g].blk] = Done(c)
  /\ \A i \in 1..Len(io_queue) : io_queue[i].ch = c => block_id[io_queue[i].blk] >= Done(c)
  /\ \A i, j \in 1..Len(io_queue) : i < j /\ io_queue[i].ch = c /\ io_queue[j].ch = c =>
       block_id[io_queue[i].blk] < block_id[io_queue[j].blk]
  /\ \A g \in IOThreads : \A i \in 1..Len(io_queue) : AtHand(g, c) /\ io_queue[i].ch = c =>
       block_id[idata[g].blk] < block_id[io_queue[i].blk]
  /\ \A n \in Nat : Done(c) <= n /\ n < Enqueued(c) =>
       \/ \E i \in 1..Len(io_queue) : io_queue[i].ch = c /\ block_id[io_queue[i].blk] = n
       \/ \E g \in IOThreads : AtHand(g, c) /\ block_id[idata[g].blk] = n

RawOrder == \A c \in Chans \ Compressed : ch_logf[c] = "open" => RawAt(c)

\* The inductive invariant
OrderParts == /\ LogShape /\ ClosureBlock /\ BlocksFull /\ BlocksEmpty /\ MarkedLast
              /\ CopiesRight /\ ParkedRight /\ FileRight /\ RawOrder

OrderInv == HolderInv /\ OneIO /\ OrderParts

-----------------------------------------------------------------------------
\* The numbers of blocks are natural numbers, and the block in use has the last one.
LEMMA CountFacts ==
  ASSUME TypeOK, LogShape, NEW c \in Chans
  PROVE  /\ Enqueued(c) \in Nat
         /\ pc[c] \notin Opening => Enqueued(c) <= block_cnt[c]
         /\ pc[c] \notin Opening /\ ClosureHolds(c) => Enqueued(c) = block_cnt[c] - 1
         /\ pc[c] \notin Opening /\ ~ClosureHolds(c) => Enqueued(c) = block_cnt[c]
         /\ pc[c] \in Opening => Enqueued(c) = 0 /\ ~ClosureHolds(c)
         /\ block_cnt[c] \in Nat /\ Direct(c) \in {0, 1} /\ Len(log[c]) \in Nat /\ Len(file[c]) \in Nat
         /\ Done(c) \in Int
<1>1. /\ block_cnt[c] \in Nat /\ log[c] \in Seq(Seq(Nat)) /\ file[c] \in Seq(Seq(Nat))
      /\ pc[c] \notin Opening => block_cnt[c] >= 1
  BY DEF TypeOK, ChanOK, HistOK, FileOK, LogShape
<1>2. pc[c] \in Opening => ~ClosureHolds(c)
  BY DEF Opening, ClosureHolds
<1> QED
  BY <1>1, <1>2 DEF Enqueued, Direct, Done

\* The same after a step.
LEMMA CountFactsNext ==
  ASSUME TypeOK', LogShape', NEW c \in Chans
  PROVE  /\ Enqueued(c)' \in Nat
         /\ pc'[c] \notin Opening /\ ClosureHolds(c)' => Enqueued(c)' = block_cnt'[c] - 1
         /\ pc'[c] \notin Opening /\ ~ClosureHolds(c)' => Enqueued(c)' = block_cnt'[c]
         /\ pc'[c] \in Opening => Enqueued(c)' = 0 /\ ~ClosureHolds(c)'
<1>1. /\ block_cnt'[c] \in Nat
      /\ pc'[c] \notin Opening => block_cnt'[c] >= 1
  BY DEF TypeOK, ChanOK, LogShape
<1>2. pc'[c] \in Opening => ~ClosureHolds(c)'
  BY DEF Opening, ClosureHolds
<1> QED
  BY <1>1, <1>2 DEF Enqueued

\* What a step must leave alone of a channel's log: the chunks of the blocks that were
\* handed over, the first tuple of a TSC channel, and everything once it is flushed.
KeptAt(c) ==
  /\ Enqueued(c)' >= Enqueued(c)
  /\ \A n \in Nat : n < Enqueued(c) => Chunk(c, n)' = Chunk(c, n)
  /\ c \in Tsc /\ ~first_logging[c] => log'[c][1] = log[c][1]
  /\ Flushed(c) => Flushed(c)' /\ block_cnt'[c] = block_cnt[c] /\ log'[c] = log[c]

Kept == \A c \in Chans : KeptAt(c)

\* A block that carries its chunk goes on to do so.
LEMMA KeepFull ==
  ASSUME TypeOK, LogShape, LogShape', TypeOK', BlocksFull, Kept,
         \A b \in Blocks : Carrying(b)' =>
           \/ Carrying(b) /\ data'[b] = data[b] /\ block_id'[b] = block_id[b]
           \/ Full(b)'
  PROVE  BlocksFull'
<1> SUFFICES ASSUME NEW b \in Blocks, Carrying(b), data'[b] = data[b], block_id'[b] = block_id[b]
             PROVE  Full(b)'
  BY DEF BlocksFull
<1>1. PICK c \in Chans : c = b[1]
  BY BlockFacts
<1>2. /\ Full(b) /\ KeptAt(c)
  BY <1>1 DEF BlocksFull, Kept
<1>3. block_id[b] \in Nat /\ Enqueued(c) \in Nat /\ Enqueued(c)' \in Nat
  BY CountFacts, CountFactsNext DEF TypeOK, BlockOK
<1>4. block_id[b] < Enqueued(c) /\ data[b] = Chunk(c, block_id[b])
  BY <1>1, <1>2 DEF Full
<1>5. PICK n \in Nat : n = block_id[b]
  BY <1>3
<1>6. n < Enqueued(c)' /\ Chunk(c, n)' = Chunk(c, n)
  BY <1>2, <1>3, <1>4, <1>5 DEF KeptAt
<1>7. block_id'[b] = n /\ data'[b] = Chunk(c, n)'
  BY <1>4, <1>5, <1>6
<1> QED
  BY <1>1, <1>6, <1>7 DEF Full, Chunk

\* A copy goes on to be right.
LEMMA KeepCopies ==
  ASSUME TypeOK, LogShape, LogShape', TypeOK', CopiesRight, Kept,
         \A d \in Item : Copies(d)' => Copies(d) \/ CopyRight(d)'
  PROVE  CopiesRight'
<1> SUFFICES ASSUME NEW d \in Item, Copies(d) PROVE CopyRight(d)'
  BY DEF CopiesRight
<1>1. CopyRight(d) /\ d.ch \in Chans /\ d.block_id \in Nat
  BY ItemFacts DEF CopiesRight
<1>2. KeptAt(d.ch) /\ Enqueued(d.ch) \in Nat /\ Enqueued(d.ch)' \in Nat
  BY <1>1, CountFacts, CountFactsNext DEF Kept
<1>3. d.block_id < Enqueued(d.ch) /\ d.data = Chunk(d.ch, d.block_id)
  BY <1>1 DEF CopyRight
<1>4. d.block_id < Enqueued(d.ch)' /\ d.data = Chunk(d.ch, d.block_id)'
  BY <1>1, <1>2, <1>3 DEF KeptAt
<1>5. d.close_file => Flushed(d.ch)' /\ d.block_id + 1 = block_cnt'[d.ch]
  BY <1>1, <1>2 DEF CopyRight, KeptAt
<1> QED
  BY <1>1, <1>4, <1>5 DEF CopyRight

\* A block that waits is empty, if it waited before or has just been emptied.
LEMMA KeepEmpty ==
  ASSUME BlocksEmpty,
         \A b \in Blocks : Waiting(b)' => (Waiting(b) /\ data'[b] = data[b]) \/ data'[b] = <<>>
  PROVE  BlocksEmpty'
BY DEF BlocksEmpty

\* A mark stays right while its channel is being closed.
LEMMA KeepMarked ==
  ASSUME MarkedLast,
         \A b \in Blocks : close_file'[b] /\ close_file[b] =>
           /\ closing'[b[1]] \notin {"no", "mark"}
           /\ block_id'[b] = block_id[b] /\ block_cnt'[b[1]] = block_cnt[b[1]],
         \A b \in Blocks : close_file'[b] => close_file[b] \/
           /\ b[1] \notin Tsc /\ closing'[b[1]] \notin {"no", "mark"}
           /\ block_id'[b] + 1 = block_cnt'[b[1]]
  PROVE  MarkedLast'
BY DEF MarkedLast

\* A file that a step does not write to.
LEMMA KeepFile ==
  ASSUME TypeOK, LogShape, TypeOK', LogShape', NEW c \in Chans, FileAt(c), KeptAt(c),
         file'[c] = file[c], ch_logf'[c] = ch_logf[c],
         next_block'[c] = next_block[c] \/ ch_logf[c] # "open",
         first_logging'[c] = first_logging[c]
  PROVE  FileAt(c)'
<1>1. Done(c)' = Done(c)
  BY DEF Done, FirstDue
<1>2. /\ Enqueued(c) \in Nat /\ Enqueued(c)' \in Nat /\ Direct(c) \in {0, 1} /\ Len(file[c]) \in Nat
      /\ Done(c) \in Int
  BY CountFacts, CountFactsNext
<1>3. Done(c)' <= Enqueued(c)'
  BY <1>1, <1>2 DEF FileAt, KeptAt
<1>4. ASSUME NEW i \in 1..Len(file[c]) PROVE log'[c][i] = log[c][i]
  <2>1. ~FirstDue(c) /\ pc[c] \notin Opening
    BY <1>2, <1>4 DEF LogShape
  <2>2. CASE i = 1 /\ c \in Tsc
    BY <2>1, <2>2 DEF KeptAt, FirstDue
  <2>3. CASE ~(i = 1 /\ c \in Tsc)
    <3>1. PICK n \in Nat : n = i - 1 - Direct(c)
      BY <1>2, <2>3 DEF Direct
    <3>2. n < Enqueued(c) /\ n + 1 + Direct(c) = i
      BY <1>2, <1>4, <2>1, <3>1 DEF FileAt, Done
    <3> QED
      BY <3>2 DEF KeptAt, Chunk
  <2> QED
    BY <2>2, <2>3
<1> QED
  BY <1>1, <1>3, <1>4 DEF FileAt, KeptAt

\* The queue of a channel's blocks that a step does not concern.
LEMMA KeepRaw ==
  ASSUME NEW c \in Chans, RawAt(c), UNCHANGED io_queue, Done(c)' = Done(c),
         Enqueued(c)' = Enqueued(c),
         \A i \in 1..Len(io_queue) : io_queue[i].ch = c =>
           block_id'[io_queue[i].blk] = block_id[io_queue[i].blk],
         \A g \in IOThreads : /\ AtHand(g, c)' <=> AtHand(g, c)
                              /\ AtHand(g, c) => /\ idata'[g] = idata[g]
                                                 /\ block_id'[idata[g].blk] = block_id[idata[g].blk]
  PROVE  RawAt(c)'
BY DEF RawAt

\* A step that neither writes to a block or a file nor hands a block over.
QuietChans ==
  \A c \in Chans : /\ pc'[c] \in Opening <=> pc[c] \in Opening
                   /\ ClosureHolds(c)' <=> ClosureHolds(c)
                   /\ FirstDue(c) /\ pc[c] \in {"idle", "write"} => pc'[c] \in {"idle", "write"}
                   /\ closing[c] \notin {"no", "mark"} => closing'[c] \notin {"no", "mark"}
                   /\ Flushed(c) => Flushed(c)'

QuietBlocks == \A b \in Blocks : (Carrying(b)' => Carrying(b)) /\ (Waiting(b)' => Waiting(b))

QuietCopies == \A d \in Item : Copies(d)' => Copies(d)

QuietIO ==
  \A g \in IOThreads : /\ ipc'[g] = "writeraw" <=> ipc[g] = "writeraw"
                       /\ ipc'[g] = "unpark" <=> ipc[g] = "unpark"
                       /\ ipc[g] \in {"writeraw", "unpark"} => idata'[g] = idata[g]

Quiet ==
  /\ UNCHANGED <<block, block_cnt, first_logging, block_id, data, io_queue, fileVars, log>>
  /\ QuietChans /\ QuietBlocks /\ QuietCopies /\ QuietIO

\* A quiet step keeps all of it, if the marks are right.
LEMMA QuietRest ==
  ASSUME TypeOK, TypeOK', OrderParts, Quiet, MarkedLast'
  PROVE  OrderParts'
<1>0. /\ LogShape /\ ClosureBlock /\ BlocksFull /\ BlocksEmpty /\ MarkedLast
      /\ CopiesRight /\ ParkedRight /\ FileRight /\ RawOrder
  BY DEF OrderParts
<1>1. UNCHANGED <<block, block_cnt, first_logging, block_id, data, io_queue, next_block,
                  pending, file, ch_logf, log>>
  BY DEF Quiet, fileVars
<1>2. \A c \in Chans : Enqueued(c)' = Enqueued(c) /\ Done(c)' = Done(c) /\ (FirstDue(c)' <=> FirstDue(c))
  BY <1>1 DEF Quiet, QuietChans, Enqueued, Done, FirstDue
<1>3. \A c \in Chans : \A n \in Nat : Chunk(c, n)' = Chunk(c, n)
  BY <1>1 DEF Chunk
<1>4. \A c \in Chans : KeptAt(c)
  <2> SUFFICES ASSUME NEW c \in Chans PROVE KeptAt(c)
    OBVIOUS
  <2>1. Enqueued(c) \in Nat
    BY <1>0, CountFacts
  <2> QED
    BY <1>1, <1>2, <1>3, <2>1 DEF KeptAt, Quiet, QuietChans
<1>5. LogShape'
  BY <1>0, <1>1, <1>2 DEF LogShape, Quiet, QuietChans
<1>6. ClosureBlock'
  <2> SUFFICES ASSUME NEW c \in Chans, ClosureHolds(c)
               PROVE  /\ block_id'[block'[c]] = block_cnt'[c] - 1
                      /\ data'[block'[c]] = Chunk(c, block_id[block[c]])'
    BY DEF ClosureBlock, Quiet, QuietChans
  <2> QED
    BY <1>0, <1>1 DEF ClosureBlock, Chunk
<1>7. BlocksFull'
  BY <1>0, <1>1, <1>4, <1>5, KeepFull DEF Kept, Quiet, QuietBlocks, QuietCopies
<1>8. BlocksEmpty'
  BY <1>0, <1>1, KeepEmpty DEF Quiet, QuietBlocks
<1>10. CopiesRight'
  BY <1>0, <1>4, <1>5, KeepCopies DEF Kept, Quiet, QuietBlocks, QuietCopies
<1>11. ParkedRight'
  BY <1>0, <1>1 DEF ParkedRight, Quiet, QuietIO
<1>12. FileRight'
  BY <1>0, <1>1, <1>4, <1>5, KeepFile DEF FileRight
<1>13. RawOrder'
  <2> SUFFICES ASSUME NEW c \in Chans \ Compressed, ch_logf[c] = "open" PROVE RawAt(c)'
    BY <1>1 DEF RawOrder
  <2>1. RawAt(c)
    BY <1>0 DEF RawOrder
  <2>2. \A g \in IOThreads : /\ AtHand(g, c)' <=> AtHand(g, c)
                             /\ AtHand(g, c) => /\ idata'[g] = idata[g]
                                                /\ block_id'[idata[g].blk] = block_id[idata[g].blk]
    BY <1>1 DEF AtHand, Quiet, QuietIO
  <2> QED
    BY <1>1, <1>2, <2>1, <2>2, KeepRaw
<1> QED
  BY <1>5, <1>6, <1>7, <1>8, <1>10, <1>11, <1>12, <1>13 DEF OrderParts

\* The marks are right if none is set.
LEMMA QuietStep ==
  ASSUME TypeOK, TypeOK', OrderParts, Quiet, UNCHANGED close_file
  PROVE  OrderParts'
<1>1. MarkedLast'
  <2>1. MarkedLast
    BY DEF OrderParts
  <2> QED
    BY <2>1, BlockFacts, KeepMarked DEF Quiet, QuietChans, MarkedLast
<1> QED
  BY <1>1, QuietRest

\* The places of the threads, when a step moves none of them.
LEMMA SamePlaces ==
  /\ UNCHANGED <<holder, cpc, cblk, ipc, idata>> =>
       \A b \in Blocks : (Carrying(b)' <=> Carrying(b)) /\ (Waiting(b)' <=> Waiting(b))
  /\ UNCHANGED <<cpc, new_block, io_queue, ipc, idata, pending>> =>
       \A d \in Item : Copies(d)' <=> Copies(d)
  /\ UNCHANGED <<pc, closing>> => \A c \in Chans : ClosureHolds(c)' <=> ClosureHolds(c)
<1>1. UNCHANGED <<holder, cpc, cblk, ipc, idata>> =>
        \A b \in Blocks : (Carrying(b)' <=> Carrying(b)) /\ (Waiting(b)' <=> Waiting(b))
  BY DEF Carrying, Waiting
<1>2. UNCHANGED <<cpc, new_block, io_queue, ipc, idata, pending>> =>
        \A d \in Item : Copies(d)' <=> Copies(d)
  BY DEF Copies
<1>3. UNCHANGED <<pc, closing>> => \A c \in Chans : ClosureHolds(c)' <=> ClosureHolds(c)
  BY DEF ClosureHolds
<1> QED
  BY <1>1, <1>2, <1>3

\* One IO thread at a time works.
LEMMA OneIOStep ==
  ASSUME TypeOK, Unborn, OneIO, [Next]_vars
  PROVE  OneIO'
<1>1. ASSUME NEW c \in Chans, OpenIOThread(c) PROVE OneIO'
  BY <1>1 DEF OpenIOThread, OneIO, Busy, Unborn, IOThreads, TypeOK, IOOK, CtlOK
<1>2. ASSUME NEW g \in IOThreads, IOStep(g) PROVE OneIO'
  <2>1. /\ Busy(g) \/ (ipc[g] = "clear_comp" /\ ipc'[g] = "dead")
        /\ \A h \in IOThreads : h # g => ipc'[h] = ipc[h]
        /\ \/ UNCHANGED io_thread_created
           \/ Busy(g) /\ ipc'[g] = "clear_comp"
    BY <1>2 DEF IOStep, IOTest, IOLoopTest, IOTestLeft, IOTestRight, IOPop, IOEmpty, WriteUncompressed,
       SendBackUncompressed, ParkCompressed, WriteCompressed, UnparkCompressed, UnparkDone, IOTerminate,
       IOClearIO, IOClearComp, Busy, TypeOK, IOOK, ctlVars, ioVars
  <2>2. \A h \in IOThreads : Busy(h)' => Busy(h)
    BY <2>1 DEF Busy
  <2>3. CASE UNCHANGED io_thread_created
    BY <2>2, <2>3 DEF OneIO
  <2>4. CASE Busy(g) /\ ipc'[g] = "clear_comp"
    BY <2>2, <2>4 DEF OneIO, Busy
  <2> QED
    BY <2>1, <2>3, <2>4
<1>3. CASE UNCHANGED <<ipc, io_thread_created>>
  BY <1>3 DEF OneIO, Busy
<1>4. \/ UNCHANGED <<ipc, io_thread_created>>
      \/ \E c \in Chans : OpenIOThread(c)
      \/ \E g \in IOThreads : IOStep(g)
  <2>1. ASSUME NEW c \in Chans, Request(c) \/ CallStep(c) PROVE <1>4!1 \/ OpenIOThread(c)
    BY <2>1 DEF Request, OpenChannel, LogTS, CloseChannel, CloseExchange, CallStep, OpenIOStore, OpenCountComp,
       OpenCompThreads, OpenDone, WriteFirst, WriteOnBlock, EnqueueFull, DequeueEmpty, ctlVars, ioVars
  <2>2. ASSUME NEW c \in Chans, CloseStep(c) PROVE <1>4!1
    BY <2>2 DEF CloseStep, CloseMark, CloseEnqueue, CloseDecComp, CloseDec, ctlVars, ioVars
  <2>3. ASSUME NEW t \in CompThreads, CompStep(t) PROVE <1>4!1
    BY <2>3 DEF CompStep, CompPop, CompLeaveLoop, CompDrained, CompStop, CompressBlock, SendBackLoad,
       SendBackStore, CompPush, ctlVars, ioVars
  <2>4. CASE ExitRequest \/ ExitStep
    BY <2>4 DEF ExitRequest, NormalExit, Signal, ExitStep, ExitClose, CloseExchange, ExitClosed, ExitCheck,
       ExitLoad, ExitJoin, ctlVars, ioVars
  <2>5. CASE UNCHANGED vars
    BY <2>5 DEF vars, ctlVars, ioVars
  <2> QED
    BY <2>1, <2>2, <2>3, <2>4, <2>5 DEF Next, Terminated
<1> QED
  BY <1>1, <1>2, <1>3, <1>4

\* What the IO queue and the IO thread have of a channel that is not compressed is a
\* block of it.
LEMMA RawItems ==
  ASSUME HolderInv, CopiesRight, NEW c \in Chans \ Compressed
  PROVE  /\ \A i \in 1..Len(io_queue) : io_queue[i].ch = c =>
              /\ ~io_queue[i].compress /\ io_queue[i].blk \in Blocks
              /\ io_queue[i].blk[1] = c /\ holder[io_queue[i].blk] = "ioq"
         /\ \A g \in IOThreads : AtHand(g, c) =>
              /\ idata[g].blk \in Blocks /\ idata[g].blk[1] = c /\ holder[idata[g].blk] = "io"
<1>0. TypeOK /\ Tags
  BY DEF HolderInv
<1>1. ASSUME NEW i \in 1..Len(io_queue), io_queue[i].ch = c PROVE ~io_queue[i].compress
  <2>1. PICK d \in Item : d = io_queue[i]
    BY <1>0, HeldBlocks
  <2>2. d.compress => Copies(d)
    BY <2>1 DEF Copies
  <2> QED
    BY <1>1, <2>1, <2>2 DEF CopiesRight, CopyRight
<1>2. ASSUME NEW i \in 1..Len(io_queue), io_queue[i].ch = c
      PROVE  /\ ~io_queue[i].compress /\ io_queue[i].blk \in Blocks
             /\ io_queue[i].blk[1] = c /\ holder[io_queue[i].blk] = "ioq"
  BY <1>0, <1>1, <1>2, HeldBlocks, BlockFacts DEF Tags, IoqTag
<1>3. ASSUME NEW g \in IOThreads, AtHand(g, c)
      PROVE  idata[g].blk \in Blocks /\ idata[g].blk[1] = c /\ holder[idata[g].blk] = "io"
  BY <1>0, <1>3, HeldBlocks, BlockFacts DEF AtHand, IOHolds, Tags, IoTag
<1> QED
  BY <1>2, <1>3

\* A block that threads carry is with the compression or the IO threads.
LEMMA CarriedWhere ==
  ASSUME HolderInv, NEW b \in Blocks
  PROVE  /\ Carrying(b) => holder[b] \in {"compq", "ioq", "comp", "io"}
         /\ Waiting(b) => holder[b] \in {"none", "ring", "comp"}
BY DEF HolderInv, Carrying, Waiting, Tags, CompTag, IoTag, CompHolds, IOHolds

\* openChannel makes the blocks, gives the closure the first and opens the file.
LEMMA OpenDoneOrder ==
  ASSUME HolderInv, HolderInv', OrderParts, NEW c \in Chans, OpenDone(c)
  PROVE  OrderParts'
<1>0. /\ TypeOK /\ TypeOK' /\ Tags /\ LogShape /\ ClosureBlock /\ BlocksFull /\ BlocksEmpty /\ MarkedLast
      /\ CopiesRight /\ ParkedRight /\ FileRight /\ RawOrder
  BY DEF OrderParts, HolderInv
<1>1. /\ pc[c] = "init" /\ pc'[c] = "idle" /\ block_cnt'[c] = 1 /\ block'[c] = <<c, 1>>
      /\ <<c, 1>> \in Blocks /\ block_id'[<<c, 1>>] = 0 /\ ch_logf'[c] \in {"none", "open"}
      /\ log'[c] = [i \in 1..(1 + Direct(c)) |-> <<>>] /\ closing[c] = "no"
  BY <1>0, SizesAssumption DEF OpenDone, InitBlocks, openLogFile, TypeOK, ChanOK, BlockOK, FileOK,
     HistOK, Opening,
     Blocks
<1>2. /\ \A d \in Chans : d # c => /\ pc'[d] = pc[d] /\ block_cnt'[d] = block_cnt[d] /\ block'[d] = block[d]
                                   /\ ch_logf'[d] = ch_logf[d] /\ log'[d] = log[d]
      /\ \A b \in Blocks : b # <<c, 1>> => block_id'[b] = block_id[b]
      /\ UNCHANGED <<first_logging, closing, data, close_file, io_queue, cpc, cblk, new_block, ipc, idata,
                     file, next_block, pending>>
  BY <1>0 DEF OpenDone, InitBlocks, openLogFile, TypeOK, ChanOK, BlockOK, FileOK, HistOK, closeVars, queueVars,
     compVars, ioVars
<1>3. \A b \in Blocks : /\ b[1] # c => holder'[b] = holder[b]
                        /\ b[1] = c => holder[b] = "none" /\ holder'[b] \in {"closure", "ring"}
  BY <1>0, <1>1 DEF OpenDone, InitBlocks, Tags, NoneTag, Opening
<1>4. \A b \in Blocks : Carrying(b)' => Carrying(b) /\ data'[b] = data[b] /\ block_id'[b] = block_id[b]
  <2>1. \A b \in Blocks : Carrying(b)' => Carrying(b)
    BY <1>2, <1>3 DEF Carrying
  <2>2. \A b \in Blocks : Carrying(b) => b[1] # c
    BY <1>3, CarriedWhere
  <2> QED
    BY <1>2, <2>1, <2>2
<1>5. \A b \in Blocks : Waiting(b)' => Waiting(b)
  BY <1>2, <1>3 DEF Waiting
<1>6. \A d \in Item : Copies(d)' => Copies(d)
  BY <1>2, SamePlaces
<1>7. /\ \A d \in Chans : Enqueued(d)' = Enqueued(d)
      /\ \A d \in Chans : d # c => ClosureHolds(d)' = ClosureHolds(d)
      /\ Enqueued(c) = 0
  <2>1. ClosureHolds(c)'
    BY <1>1, <1>2 DEF ClosureHolds
  <2> QED
    BY <1>1, <1>2, <2>1 DEF Enqueued, ClosureHolds, Opening
<1>8. \A d \in Chans : Done(d)' = Done(d) /\ (FirstDue(d)' <=> FirstDue(d))
  BY <1>2 DEF Done, FirstDue
<1>9. \A d \in Chans : KeptAt(d)
  <2> SUFFICES ASSUME NEW d \in Chans PROVE KeptAt(d)
    OBVIOUS
  <2>1. Enqueued(d) \in Nat
    BY <1>0, CountFacts
  <2>2. CASE d = c
    BY <1>0, <1>1, <1>2, <1>7, <2>1, <2>2 DEF KeptAt, Flushed, LogShape, Opening
  <2>3. CASE d # c
    BY <1>2, <1>7, <2>1, <2>3 DEF KeptAt, Flushed, Chunk
  <2> QED
    BY <2>2, <2>3
<1>10. Len(log'[c]) = 1 + Direct(c) /\ log'[c][1] = <<>> /\ log'[c][1 + Direct(c)] = <<>>
  BY <1>1 DEF Direct
<1>11. LogShape'
  <2> SUFFICES ASSUME NEW d \in Chans PROVE LogShape!(d)'
    BY DEF LogShape
  <2>1. CASE d = c
    BY <1>0, <1>1, <1>2, <1>10, <2>1 DEF LogShape, Opening, Direct
  <2>2. CASE d # c
    BY <1>0, <1>2, <1>8, <2>2 DEF LogShape
  <2> QED
    BY <2>1, <2>2
<1>12. ClosureBlock'
  <2> SUFFICES ASSUME NEW d \in Chans, ClosureHolds(d)'
               PROVE  /\ block_id'[block'[d]] = block_cnt'[d] - 1
                      /\ data'[block'[d]] = log'[d][block_id'[block'[d]] + 1 + Direct(d)]
    BY DEF ClosureBlock, Chunk
  <2>1. CASE d = c
    <3>1. data[<<c, 1>>] = <<>>
      BY <1>0, <1>1, <1>3 DEF BlocksEmpty, Waiting
    <3> QED
      BY <1>1, <1>2, <1>10, <2>1, <3>1 DEF Direct
  <2>2. CASE d # c
    <3>1. ClosureHolds(d) /\ block[d] \in Blocks /\ block[d] # <<c, 1>>
      BY <1>0, <1>7, <2>2, HeldBlocks, BlockFacts
    <3> QED
      BY <1>0, <1>2, <2>2, <3>1 DEF ClosureBlock, Chunk
  <2> QED
    BY <2>1, <2>2
<1>13. BlocksFull'
  BY <1>0, <1>4, <1>9, <1>11, KeepFull DEF Kept
<1>14. BlocksEmpty'
  BY <1>0, <1>2, <1>5, KeepEmpty
<1>15. MarkedLast'
  <2>1. \A b \in Blocks : close_file[b] => b[1] # c
    BY <1>0, <1>1 DEF MarkedLast
  <2> QED
    BY <1>0, <1>2, <2>1, BlockFacts DEF MarkedLast
<1>16. CopiesRight'
  BY <1>0, <1>6, <1>9, <1>11, KeepCopies DEF Kept
<1>17. ParkedRight'
  BY <1>0, <1>2 DEF ParkedRight
<1>18. FileRight'
  <2> SUFFICES ASSUME NEW d \in Chans PROVE FileAt(d)'
    BY DEF FileRight
  <2>1. CASE d = c
    <3>1. file'[c] = <<>> /\ next_block'[c] = 0 /\ Done(c)' = 0
      BY <1>0, <1>1, <1>2 DEF LogShape, Done, FirstDue, Direct, Opening
    <3> QED
      BY <1>1, <1>7, <2>1, <3>1 DEF FileAt
  <2>2. CASE d # c
    BY <1>0, <1>2, <1>9, <1>11, <2>2, KeepFile DEF FileRight
  <2> QED
    BY <2>1, <2>2
<1>19. RawOrder'
  <2> SUFFICES ASSUME NEW d \in Chans \ Compressed, ch_logf'[d] = "open" PROVE RawAt(d)'
    BY DEF RawOrder
  <2>1. CASE d = c
    <3>1. \A i \in 1..Len(io_queue) : io_queue[i].ch # c
      BY <1>0, <1>3, <2>1, RawItems
    <3>2. \A g \in IOThreads : ~AtHand(g, c)
      BY <1>0, <1>3, <2>1, RawItems
    <3>3. \A g \in IOThreads : ~AtHand(g, c)'
      BY <1>2, <3>2 DEF AtHand
    <3>4. Enqueued(c)' = 0 /\ Done(c)' = 0
      BY <1>0, <1>1, <1>2, <1>7 DEF LogShape, Done, FirstDue, Direct, Opening
    <3> QED
      BY <1>2, <2>1, <3>1, <3>3, <3>4 DEF RawAt
  <2>2. CASE d # c
    <3>1. RawAt(d)
      BY <1>0, <1>2, <2>2 DEF RawOrder
    <3>2. \A i \in 1..Len(io_queue) : io_queue[i].ch = d =>
            block_id'[io_queue[i].blk] = block_id[io_queue[i].blk]
      BY <1>0, <1>2, <2>2, RawItems
    <3>3. \A g \in IOThreads : /\ AtHand(g, d)' <=> AtHand(g, d)
                               /\ AtHand(g, d) => /\ idata'[g] = idata[g]
                                                  /\ block_id'[idata[g].blk] = block_id[idata[g].blk]
      <4>1. \A g \in IOThreads : AtHand(g, d) => block_id'[idata[g].blk] = block_id[idata[g].blk]
        BY <1>0, <1>2, <2>2, RawItems
      <4> QED
        BY <1>2, <4>1 DEF AtHand
    <3> QED
      BY <1>2, <1>7, <1>8, <3>1, <3>2, <3>3, KeepRaw
  <2> QED
    BY <2>1, <2>2
<1> QED
  BY <1>11, <1>12, <1>13, <1>14, <1>15, <1>16, <1>17, <1>18, <1>19 DEF OrderParts

\* The first tuple of a TSC channel goes to the file, which is empty until then.
LEMMA WriteFirstOrder ==
  ASSUME HolderInv, HolderInv', OrderParts, NEW c \in Chans, WriteFirst(c)
  PROVE  OrderParts'
<1>0. /\ TypeOK /\ TypeOK' /\ Tags /\ CallsApart /\ LogShape /\ ClosureBlock /\ BlocksFull /\ BlocksEmpty
      /\ MarkedLast /\ CopiesRight /\ ParkedRight /\ FileRight /\ RawOrder
  BY DEF OrderParts, HolderInv
<1>1. /\ pc[c] = "write" /\ pc'[c] = "idle" /\ c \in Tsc /\ first_logging[c] /\ ~first_logging'[c]
      /\ file'[c] = IF ch_logf[c] = "open" THEN Append(file[c], <<logged[c] + 1>>) ELSE file[c]
      /\ log'[c] = [log[c] EXCEPT ![1] = Append(log[c][1], logged[c] + 1)]
  BY <1>0 DEF WriteFirst, Written, RecordTuple, TypeOK, ChanOK, FileOK, HistOK
<1>2. /\ \A d \in Chans : d # c => /\ pc'[d] = pc[d] /\ first_logging'[d] = first_logging[d]
                                   /\ file'[d] = file[d] /\ log'[d] = log[d]
      /\ UNCHANGED <<block, block_cnt, closing, block_id, data, close_file, io_queue, cpc, cblk, new_block,
                     ipc, idata, next_block, pending, ch_logf, holder>>
  BY <1>0 DEF WriteFirst, Written, RecordTuple, TypeOK, ChanOK, FileOK, HistOK, closeVars, blockVars, queueVars,
     compVars, ioVars
<1>3. /\ block_cnt[c] = 1 /\ Len(log[c]) = 2 /\ file[c] = <<>> /\ log[c][1] = <<>>
      /\ log[c] \in Seq(Seq(Nat)) /\ Direct(c) = 1 /\ logged[c] \in Nat
  <2>1. FirstDue(c) /\ pc[c] \notin Opening /\ Direct(c) = 1
    BY <1>1 DEF FirstDue, Opening, Direct
  <2>2. /\ block_cnt[c] = 1 /\ Len(log[c]) = block_cnt[c] + Direct(c) /\ file[c] = <<>> /\ log[c][1] = <<>>
    BY <1>0, <2>1 DEF LogShape
  <2> QED
    BY <1>0, <2>1, <2>2 DEF TypeOK, HistOK
<1>4. /\ Len(log'[c]) = 2 /\ log'[c][2] = log[c][2] /\ log'[c][1] = <<logged[c] + 1>>
  BY <1>1, <1>3
<1>5. /\ \A d \in Chans : (ClosureHolds(d)' <=> ClosureHolds(d)) /\ Enqueued(d)' = Enqueued(d)
      /\ ClosureHolds(c) /\ Enqueued(c) = 0
  <2>1. \A d \in Chans : ClosureHolds(d)' <=> ClosureHolds(d)
    BY <1>1, <1>2 DEF ClosureHolds
  <2>2. ClosureHolds(c)
    BY <1>1 DEF ClosureHolds
  <2>3. pc[c] \notin Opening /\ \A d \in Chans : pc'[d] \in Opening <=> pc[d] \in Opening
    BY <1>1, <1>2 DEF Opening
  <2>4. \A d \in Chans : Enqueued(d)' = Enqueued(d)
    BY <1>2, <2>1, <2>3 DEF Enqueued
  <2> QED
    BY <1>3, <2>1, <2>2, <2>3, <2>4 DEF Enqueued
<1>6. /\ \A d \in Chans : d # c => Done(d)' = Done(d) /\ (FirstDue(d)' <=> FirstDue(d))
      /\ Done(c) = 0 /\ Done(c)' = (IF ch_logf[c] = "open" THEN 0 ELSE -1) /\ ~FirstDue(c)'
  <2>1. Len(file'[c]) = IF ch_logf[c] = "open" THEN 1 ELSE 0
    BY <1>1, <1>3
  <2> QED
    BY <1>1, <1>2, <1>3, <2>1 DEF Done, FirstDue
<1>7. \A d \in Chans : KeptAt(d)
  <2> SUFFICES ASSUME NEW d \in Chans PROVE KeptAt(d)
    OBVIOUS
  <2>1. Enqueued(d) \in Nat
    BY <1>0, CountFacts
  <2>2. CASE d = c
    BY <1>1, <1>5, <2>1, <2>2 DEF KeptAt, Flushed
  <2>3. CASE d # c
    BY <1>2, <1>5, <2>1, <2>3 DEF KeptAt, Flushed, Chunk
  <2> QED
    BY <2>2, <2>3
<1>8. LogShape'
  <2> SUFFICES ASSUME NEW d \in Chans PROVE LogShape!(d)'
    BY DEF LogShape
  <2>1. CASE d = c
    <3>1. pc'[c] \notin Opening /\ ~FirstDue(c)' /\ block_cnt'[c] = 1 /\ Len(log'[c]) = 1 + Direct(c)
      BY <1>1, <1>2, <1>3, <1>4, <1>6 DEF Opening
    <3> QED
      BY <2>1, <3>1
  <2>2. CASE d # c
    BY <1>0, <1>2, <1>6, <2>2 DEF LogShape
  <2> QED
    BY <2>1, <2>2
<1>9. ClosureBlock'
  <2> SUFFICES ASSUME NEW d \in Chans, ClosureHolds(d)
               PROVE  /\ block_id[block[d]] = block_cnt[d] - 1
                      /\ data[block[d]] = log'[d][block_id[block[d]] + 1 + Direct(d)]
    BY <1>2, <1>5 DEF ClosureBlock, Chunk
  <2>1. /\ block_id[block[d]] = block_cnt[d] - 1
        /\ data[block[d]] = log[d][block_id[block[d]] + 1 + Direct(d)]
    BY <1>0 DEF ClosureBlock, Chunk
  <2>2. d = c => block_id[block[d]] + 1 + Direct(d) = 2
    BY <1>3, <2>1
  <2> QED
    BY <1>2, <1>4, <2>1, <2>2
<1>10. BlocksFull' /\ BlocksEmpty' /\ CopiesRight'
  <2>1. /\ \A b \in Blocks : (Carrying(b)' <=> Carrying(b)) /\ (Waiting(b)' <=> Waiting(b))
        /\ \A d \in Item : Copies(d)' <=> Copies(d)
    BY <1>2, SamePlaces
  <2> QED
    BY <1>0, <1>2, <1>7, <1>8, <2>1, KeepFull, KeepEmpty, KeepCopies DEF Kept
<1>11. MarkedLast' /\ ParkedRight'
  BY <1>0, <1>2 DEF MarkedLast, ParkedRight
<1>12. FileRight'
  <2> SUFFICES ASSUME NEW d \in Chans PROVE FileAt(d)'
    BY DEF FileRight
  <2>1. CASE d = c
    <3>1. ch_logf[c] # "closed" /\ (ch_logf[c] = "open" /\ c \in Compressed => next_block[c] = 0)
      BY <1>0, <1>1, <1>6 DEF FileRight, FileAt, Flushed
    <3>2. CASE ch_logf[c] = "open"
      <4>1. file'[c] = <<log'[c][1]>>
        BY <1>1, <1>3, <1>4, <3>2
      <4> QED
        BY <1>2, <1>5, <1>6, <2>1, <3>1, <3>2, <4>1 DEF FileAt
    <3>3. CASE ch_logf[c] # "open"
      BY <1>1, <1>2, <1>3, <1>5, <1>6, <2>1, <3>1, <3>3 DEF FileAt
    <3> QED
      BY <3>2, <3>3
  <2>2. CASE d # c
    BY <1>0, <1>2, <1>7, <1>8, <2>2, KeepFile DEF FileRight
  <2> QED
    BY <2>1, <2>2
<1>13. RawOrder'
  <2> SUFFICES ASSUME NEW d \in Chans \ Compressed, ch_logf[d] = "open" PROVE RawAt(d)'
    BY <1>2 DEF RawOrder
  <2>1. RawAt(d) /\ Done(d)' = Done(d)
    BY <1>0, <1>6 DEF RawOrder
  <2>2. \A g \in IOThreads : AtHand(g, d)' <=> AtHand(g, d)
    BY <1>2 DEF AtHand
  <2> QED
    BY <1>2, <1>5, <2>1, <2>2, KeepRaw
<1> QED
  BY <1>8, <1>9, <1>10, <1>11, <1>12, <1>13 DEF OrderParts

\* A tuple goes to the block in use and to the last chunk of the log.
LEMMA WriteOnBlockOrder ==
  ASSUME HolderInv, HolderInv', OrderParts, NEW c \in Chans, WriteOnBlock(c)
  PROVE  OrderParts'
<1>0. /\ TypeOK /\ TypeOK' /\ Tags /\ CallsApart /\ LogShape /\ ClosureBlock /\ BlocksFull /\ BlocksEmpty
      /\ MarkedLast /\ CopiesRight /\ ParkedRight /\ FileRight /\ RawOrder
  BY DEF OrderParts, HolderInv
<1>1. /\ pc[c] = "write" /\ pc'[c] \in {"full", "idle"} /\ ~FirstDue(c) /\ closing[c] = "no"
      /\ log'[c] = [log[c] EXCEPT ![Len(log[c])] = Append(log[c][Len(log[c])], logged[c] + 1)]
      /\ data' = [data EXCEPT ![block[c]] = Append(data[block[c]], logged[c] + 1)]
  BY <1>0 DEF WriteOnBlock, RecordTuple, FirstDue, CallsApart, TypeOK, ChanOK, HistOK
<1>2. /\ \A d \in Chans : d # c => pc'[d] = pc[d] /\ log'[d] = log[d]
      /\ UNCHANGED <<block, block_cnt, first_logging, closing, block_id, close_file, io_queue, cpc, cblk,
                     new_block, ipc, idata, next_block, pending, file, ch_logf, holder>>
  BY <1>0 DEF WriteOnBlock, RecordTuple, TypeOK, ChanOK, HistOK, closeVars, queueVars,
     compVars, ioVars, fileVars
<1>3. ClosureHolds(c) /\ pc[c] \notin Opening /\ \A d \in Chans : ClosureHolds(d)' <=> ClosureHolds(d)
  BY <1>1, <1>2 DEF ClosureHolds, Opening
<1>4. PICK e \in Blocks : e = block[c] /\ e[1] = c /\ holder[e] = "closure"
  BY <1>0, <1>3, HeldBlocks, BlockFacts DEF Tags, ClosureTag
<1>5. /\ \A b \in Blocks : b # e => data'[b] = data[b]
      /\ data'[e] = Append(data[e], logged[c] + 1)
  BY <1>0, <1>1, <1>4 DEF TypeOK, BlockOK
<1>6. /\ Len(log[c]) = block_cnt[c] + Direct(c) /\ block_cnt[c] \in Nat /\ block_cnt[c] >= 1
      /\ Direct(c) \in {0, 1} /\ log[c] \in Seq(Seq(Nat)) /\ Enqueued(c) = block_cnt[c] - 1
  BY <1>0, <1>3, CountFacts DEF LogShape, TypeOK, HistOK
<1>7. /\ Len(log'[c]) = Len(log[c])
      /\ log'[c][block_cnt[c] + Direct(c)] = Append(log[c][block_cnt[c] + Direct(c)], logged[c] + 1)
      /\ \A i \in 1..Len(log[c]) : i # block_cnt[c] + Direct(c) => log'[c][i] = log[c][i]
  BY <1>1, <1>6
<1>8. /\ \A d \in Chans : Enqueued(d)' = Enqueued(d) /\ Done(d)' = Done(d) /\ (FirstDue(d)' <=> FirstDue(d))
  <2>1. \A d \in Chans : pc'[d] \in Opening <=> pc[d] \in Opening
    BY <1>1, <1>2 DEF Opening
  <2> QED
    BY <1>2, <1>3, <2>1 DEF Enqueued, Done, FirstDue
<1>9. \A d \in Chans : KeptAt(d)
  <2> SUFFICES ASSUME NEW d \in Chans PROVE KeptAt(d)
    OBVIOUS
  <2>1. Enqueued(d) \in Nat
    BY <1>0, CountFacts
  <2>2. CASE d = c
    <3>1. \A n \in Nat : n < Enqueued(c) => log'[c][n + 1 + Direct(c)] = log[c][n + 1 + Direct(c)]
      <4> SUFFICES ASSUME NEW n \in Nat, n < Enqueued(c)
                   PROVE  log'[c][n + 1 + Direct(c)] = log[c][n + 1 + Direct(c)]
        OBVIOUS
      <4>1. n + 1 + Direct(c) \in 1..Len(log[c]) /\ n + 1 + Direct(c) # block_cnt[c] + Direct(c)
        BY <1>6
      <4> QED
        BY <1>7, <4>1
    <3>2. c \in Tsc => log'[c][1] = log[c][1]
      <4>1. c \in Tsc => 1 \in 1..Len(log[c]) /\ 1 # block_cnt[c] + Direct(c)
        BY <1>6 DEF Direct
      <4> QED
        BY <1>7, <4>1
    <3> QED
      <4>1. ~Flushed(c) /\ Enqueued(c)' >= Enqueued(c)
        BY <1>1, <1>8, <2>1, <2>2 DEF Flushed
      <4>2. \A n \in Nat : n < Enqueued(c) => Chunk(c, n)' = Chunk(c, n)
        BY <3>1 DEF Chunk
      <4> QED
        BY <2>2, <3>2, <4>1, <4>2 DEF KeptAt
  <2>3. CASE d # c
    BY <1>2, <1>8, <2>1, <2>3 DEF KeptAt, Flushed, Chunk
  <2> QED
    BY <2>2, <2>3
<1>10. LogShape'
  <2> SUFFICES ASSUME NEW d \in Chans PROVE LogShape!(d)'
    BY DEF LogShape
  <2>1. CASE d = c
    BY <1>1, <1>2, <1>6, <1>7, <1>8, <2>1 DEF Opening
  <2>2. CASE d # c
    BY <1>0, <1>2, <1>8, <2>2 DEF LogShape
  <2> QED
    BY <2>1, <2>2
<1>11. ClosureBlock'
  <2> SUFFICES ASSUME NEW d \in Chans, ClosureHolds(d)
               PROVE  /\ block_id[block[d]] = block_cnt[d] - 1
                      /\ data'[block[d]] = log'[d][block_id[block[d]] + 1 + Direct(d)]
    BY <1>2, <1>3 DEF ClosureBlock, Chunk
  <2>1. /\ block_id[block[d]] = block_cnt[d] - 1
        /\ data[block[d]] = log[d][block_id[block[d]] + 1 + Direct(d)]
    BY <1>0 DEF ClosureBlock, Chunk
  <2>2. CASE d = c
    <3>1. block_id[e] + 1 + Direct(c) = block_cnt[c] + Direct(c)
      BY <1>4, <1>6, <2>1, <2>2
    <3> QED
      BY <1>4, <1>5, <1>7, <2>1, <2>2, <3>1
  <2>3. CASE d # c
    <3>1. block[d] \in Blocks /\ block[d] # e
      BY <1>0, <1>4, <2>3, HeldBlocks, BlockFacts
    <3> QED
      BY <1>2, <1>5, <2>1, <2>3, <3>1
  <2> QED
    BY <2>2, <2>3
<1>12. BlocksFull' /\ BlocksEmpty' /\ CopiesRight'
  <2>1. /\ \A b \in Blocks : (Carrying(b)' <=> Carrying(b)) /\ (Waiting(b)' <=> Waiting(b))
        /\ \A d \in Item : Copies(d)' <=> Copies(d)
    BY <1>2, SamePlaces
  <2>2. ~Carrying(e) /\ ~Waiting(e)
    BY <1>4, CarriedWhere
  <2> QED
    BY <1>0, <1>2, <1>5, <1>9, <1>10, <2>1, <2>2, KeepFull, KeepEmpty, KeepCopies DEF Kept
<1>13. MarkedLast' /\ ParkedRight'
  BY <1>0, <1>2 DEF MarkedLast, ParkedRight
<1>14. FileRight'
  BY <1>0, <1>2, <1>9, <1>10, KeepFile DEF FileRight
<1>15. RawOrder'
  <2> SUFFICES ASSUME NEW d \in Chans \ Compressed, ch_logf[d] = "open" PROVE RawAt(d)'
    BY <1>2 DEF RawOrder
  <2>1. RawAt(d)
    BY <1>0 DEF RawOrder
  <2>2. \A g \in IOThreads : AtHand(g, d)' <=> AtHand(g, d)
    BY <1>2 DEF AtHand
  <2> QED
    BY <1>2, <1>8, <2>1, <2>2, KeepRaw
<1> QED
  BY <1>10, <1>11, <1>12, <1>13, <1>14, <1>15 DEF OrderParts

\* A push to the IO queue keeps the order of a channel's blocks, if it is of another
\* channel or of the next number.
LEMMA PushRaw ==
  ASSUME TypeOK, NEW c \in Chans, RawAt(c), NEW e \in Item, io_queue' = Append(io_queue, e),
         UNCHANGED <<block_id, ipc, idata>>, Done(c)' = Done(c), Done(c) \in Int,
         Enqueued(c) \in Nat, Enqueued(c)' \in Nat,
         e.ch # c => Enqueued(c)' = Enqueued(c),
         e.ch = c =>
           /\ Enqueued(c)' = Enqueued(c) + 1 /\ block_id[e.blk] = Enqueued(c) /\ Done(c) <= Enqueued(c)
           /\ \A i \in 1..Len(io_queue) : io_queue[i].ch = c => block_id[io_queue[i].blk] < Enqueued(c)
           /\ \A g \in IOThreads : AtHand(g, c) => block_id[idata[g].blk] < Enqueued(c)
  PROVE  RawAt(c)'
<1>1. io_queue \in Seq(Item) /\ Len(io_queue) \in Nat
  BY DEF TypeOK, QueueOK
<1>2. /\ Len(io_queue') = Len(io_queue) + 1
      /\ \A i \in 1..Len(io_queue) : io_queue'[i] = io_queue[i]
      /\ io_queue'[Len(io_queue) + 1] = e
  BY <1>1
<1>3. \A g \in IOThreads : AtHand(g, c)' <=> AtHand(g, c)
  BY DEF AtHand
<1>4. \A i \in 1..Len(io_queue') : i \in 1..Len(io_queue) \/ i = Len(io_queue) + 1
  BY <1>1, <1>2
<1>5. \A g \in IOThreads : AtHand(g, c)' => block_id'[idata'[g].blk] = Done(c)'
  BY <1>3 DEF RawAt
<1>6. \A i \in 1..Len(io_queue') : io_queue'[i].ch = c => block_id'[io_queue'[i].blk] >= Done(c)'
  BY <1>2, <1>4 DEF RawAt
<1>7. ASSUME NEW i \in 1..Len(io_queue'), NEW j \in 1..Len(io_queue'), i < j, io_queue'[i].ch = c, io_queue'[j].ch = c
      PROVE  block_id'[io_queue'[i].blk] < block_id'[io_queue'[j].blk]
  <2>1. i \in 1..Len(io_queue)
    BY <1>1, <1>2, <1>4, <1>7
  <2>2. CASE j \in 1..Len(io_queue)
    BY <1>2, <1>7, <2>1, <2>2 DEF RawAt
  <2>3. CASE j = Len(io_queue) + 1
    BY <1>2, <1>7, <2>1, <2>3
  <2> QED
    BY <1>4, <2>2, <2>3
<1>8. ASSUME NEW g \in IOThreads, NEW i \in 1..Len(io_queue'), AtHand(g, c)', io_queue'[i].ch = c
      PROVE  block_id'[idata'[g].blk] < block_id'[io_queue'[i].blk]
  <2>1. CASE i \in 1..Len(io_queue)
    BY <1>2, <1>3, <1>8, <2>1 DEF RawAt
  <2>2. CASE i = Len(io_queue) + 1
    BY <1>2, <1>3, <1>8, <2>2
  <2> QED
    BY <1>4, <2>1, <2>2
<1>9. ASSUME NEW n \in Nat, Done(c)' <= n, n < Enqueued(c)'
      PROVE  \/ \E i \in 1..Len(io_queue') : io_queue'[i].ch = c /\ block_id'[io_queue'[i].blk] = n
             \/ \E g \in IOThreads : AtHand(g, c)' /\ block_id'[idata'[g].blk] = n
  <2>1. CASE n < Enqueued(c)
    <3>1. CASE \E i \in 1..Len(io_queue) : io_queue[i].ch = c /\ block_id[io_queue[i].blk] = n
      <4>1. PICK i \in 1..Len(io_queue) : io_queue[i].ch = c /\ block_id[io_queue[i].blk] = n
        BY <3>1
      <4>2. i \in 1..Len(io_queue') /\ io_queue'[i] = io_queue[i]
        BY <1>1, <1>2
      <4> QED
        BY <4>1, <4>2
    <3>2. CASE \E g \in IOThreads : AtHand(g, c) /\ block_id[idata[g].blk] = n
      BY <1>3, <3>2
    <3> QED
      BY <1>9, <2>1, <3>1, <3>2 DEF RawAt
  <2>2. CASE ~(n < Enqueued(c))
    <3>1. e.ch = c /\ block_id[e.blk] = n
      BY <1>9, <2>2
    <3>2. Len(io_queue) + 1 \in 1..Len(io_queue')
      BY <1>1, <1>2
    <3> QED
      BY <1>2, <3>1, <3>2
  <2> QED
    BY <2>1, <2>2
<1> QED
  BY <1>5, <1>6, <1>7, <1>8, <1>9 DEF RawAt

\* The block in use is handed over: its chunk is complete, and its number is the next.
LEMMA HandOverOrder ==
  ASSUME HolderInv, HolderInv', OrderParts, NEW c \in Chans, ClosureHolds(c), ~ClosureHolds(c)',
         enqueueBlock(block[c]), ~FirstDue(c), pc'[c] \notin Opening,
         UNCHANGED <<block, block_cnt, first_logging, block_id, data, close_file, cpc, cblk, new_block,
                     ipc, idata, next_block, pending, file, ch_logf, log>>,
         \A d \in Chans : d # c => pc'[d] = pc[d] /\ closing'[d] = closing[d],
         closing[c] \notin {"no", "mark"} => closing'[c] \notin {"no", "mark"},
         ~Flushed(c)
  PROVE  OrderParts'
<1>0. /\ TypeOK /\ TypeOK' /\ Tags /\ CallsApart /\ LogShape /\ ClosureBlock /\ BlocksFull /\ BlocksEmpty
      /\ MarkedLast /\ CopiesRight /\ ParkedRight /\ FileRight /\ RawOrder
  BY DEF OrderParts, HolderInv
<1>1. PICK e \in Blocks : e = block[c] /\ e[1] = c /\ holder[e] = "closure"
  BY <1>0, HeldBlocks, BlockFacts DEF Tags, ClosureTag
<1>2. pc[c] \notin Opening
  BY DEF ClosureHolds, Opening
<1>3. /\ block_id[e] = block_cnt[c] - 1 /\ data[e] = Chunk(c, block_id[e])
      /\ block_cnt[c] \in Nat /\ block_cnt[c] >= 1 /\ Enqueued(c) = block_cnt[c] - 1
      /\ Enqueued(c)' = block_cnt[c]
  <2>1. block_id[e] = block_cnt[c] - 1 /\ data[e] = Chunk(c, block_id[e])
    BY <1>0, <1>1 DEF ClosureBlock
  <2>2. block_cnt[c] \in Nat /\ block_cnt[c] >= 1 /\ Enqueued(c) = block_cnt[c] - 1
    BY <1>0, <1>2, CountFacts DEF LogShape
  <2>3. Enqueued(c)' = block_cnt[c]
    BY DEF Enqueued
  <2> QED
    BY <2>1, <2>2, <2>3
<1>4. \A d \in Chans : d # c => /\ Enqueued(d)' = Enqueued(d) /\ (ClosureHolds(d)' <=> ClosureHolds(d))
                                /\ (Flushed(d)' <=> Flushed(d))
  BY DEF Enqueued, ClosureHolds, Flushed
<1>5. \A d \in Chans : Done(d)' = Done(d) /\ (FirstDue(d)' <=> FirstDue(d))
  BY DEF Done, FirstDue
<1>6. \A d \in Chans : KeptAt(d)
  <2> SUFFICES ASSUME NEW d \in Chans PROVE KeptAt(d)
    OBVIOUS
  <2>1. Enqueued(d) \in Nat /\ Enqueued(d)' >= Enqueued(d)
    BY <1>0, <1>3, <1>4, CountFacts
  <2>2. Flushed(d) => Flushed(d)'
    BY <1>4
  <2> QED
    BY <2>1, <2>2 DEF KeptAt, Chunk
<1>7. LogShape'
  <2> SUFFICES ASSUME NEW d \in Chans PROVE LogShape!(d)'
    BY DEF LogShape
  <2>1. CASE d = c
    BY <1>0, <1>2, <1>5, <2>1 DEF LogShape
  <2>2. CASE d # c
    BY <1>0, <1>5, <2>2 DEF LogShape
  <2> QED
    BY <2>1, <2>2
<1>8. ClosureBlock'
  <2> SUFFICES ASSUME NEW d \in Chans, ClosureHolds(d)'
               PROVE  /\ block_id[block[d]] = block_cnt[d] - 1
                      /\ data[block[d]] = log[d][block_id[block[d]] + 1 + Direct(d)]
    BY DEF ClosureBlock, Chunk
  <2> QED
    BY <1>0, <1>4 DEF ClosureBlock, Chunk
<1>9. /\ \A b \in Blocks : b # e => holder'[b] = holder[b]
      /\ holder'[e] \in {"compq", "ioq"}
  BY <1>0, <1>1 DEF enqueueBlock, TypeOK, HistOK
<1>10. BlocksFull'
  <2>1. Full(e)'
    BY <1>1, <1>3 DEF Full, Chunk
  <2>2. \A b \in Blocks : b # e /\ Carrying(b)' => Carrying(b)
    BY <1>9 DEF Carrying
  <2> QED
    BY <1>0, <1>6, <1>7, <2>1, <2>2, KeepFull DEF Kept
<1>11. BlocksEmpty'
  <2>1. \A b \in Blocks : Waiting(b)' => Waiting(b)
    BY <1>9 DEF Waiting
  <2> QED
    BY <1>0, <2>1, KeepEmpty
<1>12. MarkedLast'
  BY <1>0, BlockFacts DEF MarkedLast
<1>13. RawItem(e) \in Item /\ RawItem(e).blk = e /\ RawItem(e).ch = c /\ ~RawItem(e).compress
  BY <1>1, BlockFacts
<1>14. io_queue' = io_queue \/ (io_queue' = Append(io_queue, RawItem(e)) /\ c \notin Compressed)
  BY <1>1 DEF enqueueBlock
<1>15. c \notin Compressed => io_queue' = Append(io_queue, RawItem(e))
  BY <1>1 DEF enqueueBlock
<1>16. CopiesRight'
  <2>1. \A i \in 1..Len(io_queue') : io_queue'[i].compress =>
          i \in 1..Len(io_queue) /\ io_queue'[i] = io_queue[i]
    <3>1. io_queue \in Seq(Item)
      BY <1>0, HeldBlocks
    <3> QED
      BY <1>13, <1>14, <3>1
  <2>2. \A d \in Item : Copies(d)' => Copies(d)
    BY <2>1 DEF Copies
  <2> QED
    BY <1>0, <1>6, <1>7, <2>2, KeepCopies DEF Kept
<1>17. ParkedRight'
  BY <1>0 DEF ParkedRight
<1>18. FileRight'
  BY <1>0, <1>6, <1>7, KeepFile DEF FileRight
<1>19. RawOrder'
  <2> SUFFICES ASSUME NEW d \in Chans \ Compressed, ch_logf[d] = "open" PROVE RawAt(d)'
    BY DEF RawOrder
  <2>1. RawAt(d) /\ Done(d)' = Done(d) /\ Done(d) \in Int /\ Enqueued(d) \in Nat /\ Enqueued(d)' \in Nat
    BY <1>0, <1>5, <1>7, CountFacts, CountFactsNext DEF RawOrder
  <2>2. CASE d = c
    <3>1. io_queue' = Append(io_queue, RawItem(e)) /\ Enqueued(c)' = Enqueued(c) + 1
      BY <1>3, <1>15, <2>2
    <3>2. block_id[e] = Enqueued(c) /\ Done(c) <= Enqueued(c)
      BY <1>0, <1>3 DEF FileRight, FileAt
    <3>3. \A i \in 1..Len(io_queue) : io_queue[i].ch = c => block_id[io_queue[i].blk] < Enqueued(c)
      <4> SUFFICES ASSUME NEW i \in 1..Len(io_queue), io_queue[i].ch = c
                   PROVE  block_id[io_queue[i].blk] < Enqueued(c)
        OBVIOUS
      <4>1. PICK b \in Blocks : b = io_queue[i].blk /\ b[1] = c /\ holder[b] = "ioq"
        BY <1>0, <2>2, RawItems
      <4>2. Full(b)
        BY <1>0, <4>1 DEF BlocksFull, Carrying
      <4> QED
        BY <4>1, <4>2 DEF Full
    <3>4. \A g \in IOThreads : AtHand(g, c) => block_id[idata[g].blk] < Enqueued(c)
      <4> SUFFICES ASSUME NEW g \in IOThreads, AtHand(g, c) PROVE block_id[idata[g].blk] < Enqueued(c)
        OBVIOUS
      <4>1. PICK b \in Blocks : b = idata[g].blk /\ b[1] = c
        BY <1>0, <2>2, RawItems
      <4>2. Full(b)
        BY <1>0, <4>1 DEF BlocksFull, Carrying, AtHand
      <4> QED
        BY <4>1, <4>2 DEF Full
    <3>5. PICK f \in Item : f = RawItem(e)
      BY <1>13
    <3> QED
      BY <1>0, <1>13, <2>1, <2>2, <3>1, <3>2, <3>3, <3>4, <3>5, PushRaw
  <2>3. CASE d # c
    <3>1. Enqueued(d)' = Enqueued(d)
      BY <1>4, <2>3
    <3>2. CASE io_queue' = io_queue
      <4>1. \A g \in IOThreads : AtHand(g, d)' <=> AtHand(g, d)
        BY DEF AtHand
      <4> QED
        BY <2>1, <3>1, <3>2, <4>1, KeepRaw
    <3>3. CASE io_queue' = Append(io_queue, RawItem(e))
      <4>1. PICK f \in Item : f = RawItem(e)
        BY <1>13
      <4> QED
        BY <1>0, <1>13, <2>1, <2>3, <3>1, <3>3, <4>1, PushRaw
    <3> QED
      BY <1>14, <3>2, <3>3
  <2> QED
    BY <2>2, <2>3
<1> QED
  BY <1>7, <1>8, <1>10, <1>11, <1>12, <1>16, <1>17, <1>18, <1>19 DEF OrderParts

\* logTS hands over a block that is full.
LEMMA EnqueueFullOrder ==
  ASSUME HolderInv, HolderInv', OrderParts, NEW c \in Chans, EnqueueFull(c)
  PROVE  OrderParts'
<1>0. /\ TypeOK /\ TypeOK' /\ Tags /\ CallsApart /\ LogShape /\ ClosureBlock /\ BlocksFull /\ BlocksEmpty
      /\ MarkedLast /\ CopiesRight /\ ParkedRight /\ FileRight /\ RawOrder
  BY DEF OrderParts, HolderInv
<1>1. /\ pc[c] = "full" /\ pc'[c] = "fetch" /\ closing[c] = "no" /\ enqueueBlock(block[c])
      /\ \A d \in Chans : d # c => pc'[d] = pc[d] /\ closing'[d] = closing[d]
      /\ closing'[c] = closing[c]
      /\ UNCHANGED <<block, block_cnt, first_logging, block_id, data, close_file, cpc, cblk, new_block,
                     ipc, idata, next_block, pending, file, ch_logf, log>>
  BY <1>0 DEF EnqueueFull, CallsApart, TypeOK, ChanOK, closeVars, blockVars, compVars, ioVars, fileVars
<1>2. ~FirstDue(c) /\ pc'[c] \notin Opening
  BY <1>0, <1>1 DEF LogShape, Opening
<1>3. ClosureHolds(c) /\ ~ClosureHolds(c)' /\ ~Flushed(c)
  BY <1>1 DEF ClosureHolds, Flushed
<1> QED
  BY <1>1, <1>2, <1>3, HandOverOrder

\* closeChannel hands over the last block.
LEMMA CloseEnqueueOrder ==
  ASSUME HolderInv, HolderInv', OrderParts, NEW c \in Chans, CloseEnqueue(c)
  PROVE  OrderParts'
<1>0. /\ TypeOK /\ TypeOK' /\ Tags /\ CallsApart /\ LogShape /\ ClosureBlock /\ BlocksFull /\ BlocksEmpty
      /\ MarkedLast /\ CopiesRight /\ ParkedRight /\ FileRight /\ RawOrder
  BY DEF OrderParts, HolderInv
<1>1. /\ pc[c] = "idle" /\ pc' = pc /\ closing[c] = "enqueue" /\ enqueueBlock(block[c]) /\ c \notin Tsc
      /\ \A d \in Chans : d # c => pc'[d] = pc[d] /\ closing'[d] = closing[d]
      /\ closing'[c] \in {"deccomp", "dec"}
      /\ UNCHANGED <<block, block_cnt, first_logging, block_id, data, close_file, cpc, cblk, new_block,
                     ipc, idata, next_block, pending, file, ch_logf, log>>
  BY <1>0 DEF CloseEnqueue, CallsApart, TypeOK, ChanOK, chanVars, blockVars, compVars, ioVars, fileVars
<1>2. ~FirstDue(c) /\ pc'[c] \notin Opening
  BY <1>1 DEF FirstDue, Opening
<1>3. ClosureHolds(c) /\ ~ClosureHolds(c)' /\ ~Flushed(c)
  BY <1>1 DEF ClosureHolds, Flushed
<1> QED
  BY <1>1, <1>2, <1>3, HandOverOrder

\* closeChannel marks the block in use, which is the last one.
LEMMA CloseMarkOrder ==
  ASSUME HolderInv, HolderInv', OrderParts, NEW c \in Chans, CloseMark(c)
  PROVE  OrderParts'
<1>0. /\ TypeOK /\ TypeOK' /\ Tags /\ CallsApart /\ LogShape /\ ClosureBlock /\ BlocksFull /\ BlocksEmpty
      /\ MarkedLast /\ CopiesRight /\ ParkedRight /\ FileRight /\ RawOrder
  BY DEF OrderParts, HolderInv
<1>1. /\ closing[c] = "mark" /\ closing'[c] = "enqueue" /\ pc[c] = "idle" /\ c \notin Tsc
      /\ \A d \in Chans : d # c => closing'[d] = closing[d]
      /\ close_file' = [close_file EXCEPT ![block[c]] = TRUE]
      /\ UNCHANGED <<pc, block, block_cnt, first_logging, block_id, data, io_queue, fileVars, log,
                     holder, cpc, cblk, new_block, pending, ipc, idata>>
  BY <1>0 DEF CloseMark, CallsApart, TypeOK, ChanOK, chanVars, queueVars, compVars, ioVars, fileVars, histVars
<1>2. ClosureHolds(c) /\ \A d \in Chans : ClosureHolds(d)' <=> ClosureHolds(d)
  BY <1>1 DEF ClosureHolds
<1>3. PICK e \in Blocks : e = block[c] /\ e[1] = c /\ block_id[e] = block_cnt[c] - 1 /\ block_cnt[c] \in Nat
  BY <1>0, <1>2, HeldBlocks, BlockFacts DEF ClosureBlock, TypeOK, ChanOK
<1>4. MarkedLast'
  <2>1. \A b \in Blocks : close_file'[b] => close_file[b] \/ b = e
    BY <1>0, <1>1, <1>3 DEF TypeOK, BlockOK
  <2>2. \A b \in Blocks : closing[b[1]] \notin {"no", "mark"} => closing'[b[1]] \notin {"no", "mark"}
    BY <1>1, BlockFacts
  <2> QED
    BY <1>0, <1>1, <1>3, <2>1, <2>2 DEF MarkedLast
<1>5. Quiet
  <2>1. QuietChans
    BY <1>1, <1>2 DEF QuietChans, Flushed
  <2>2. QuietBlocks /\ QuietCopies /\ QuietIO
    <3>1. /\ \A b \in Blocks : (Carrying(b)' <=> Carrying(b)) /\ (Waiting(b)' <=> Waiting(b))
          /\ \A d \in Item : Copies(d)' <=> Copies(d)
      BY <1>1, SamePlaces
    <3> QED
      BY <1>1, <3>1 DEF QuietBlocks, QuietCopies, QuietIO
  <2> QED
    BY <1>1, <2>1, <2>2 DEF Quiet
<1> QED
  BY <1>0, <1>4, <1>5, QuietRest

\* logTS takes an empty block from the return ring and gives it the next number.
LEMMA DequeueEmptyOrder ==
  ASSUME HolderInv, HolderInv', OrderParts, NEW c \in Chans, DequeueEmpty(c)
  PROVE  OrderParts'
<1>0. /\ TypeOK /\ TypeOK' /\ Tags /\ CallsApart /\ LogShape /\ ClosureBlock /\ BlocksFull /\ BlocksEmpty
      /\ MarkedLast /\ CopiesRight /\ ParkedRight /\ FileRight /\ RawOrder
  BY DEF OrderParts, HolderInv
<1>1. /\ pc[c] = "fetch" /\ closing[c] = "no" /\ ~ring_empty(c)
      /\ UNCHANGED <<first_logging, closing, data, close_file, io_queue, cpc, cblk, new_block, ipc, idata,
                     next_block, pending, file, ch_logf>>
  BY <1>0 DEF DequeueEmpty, CallsApart, TypeOK, ChanOK, closeVars, queueVars, compVars, ioVars, fileVars
<1>2. CASE slots[c][ridx[c]] = NULL
  <2>1. UNCHANGED <<pc, block, block_cnt, block_id, log, holder>>
    BY <1>2 DEF DequeueEmpty
  <2>2. QuietChans
    BY <1>1, <2>1, SamePlaces DEF QuietChans, Flushed
  <2>3. QuietBlocks /\ QuietCopies /\ QuietIO
    <3>1. /\ \A b \in Blocks : (Carrying(b)' <=> Carrying(b)) /\ (Waiting(b)' <=> Waiting(b))
          /\ \A d \in Item : Copies(d)' <=> Copies(d)
      BY <1>1, <2>1, SamePlaces
    <3> QED
      BY <1>1, <3>1 DEF QuietBlocks, QuietCopies, QuietIO
  <2>4. Quiet
    BY <1>1, <2>1, <2>2, <2>3 DEF Quiet, fileVars
  <2> QED
    BY <1>0, <1>1, <2>4, QuietStep
<1>3. CASE slots[c][ridx[c]] # NULL
  <2>1. PICK e \in Blocks : e = slots[c][ridx[c]] /\ e[1] = c /\ holder[e] = "ring"
    <3>1. ridx[c] \in RingSlots /\ Live(c, ridx[c])
      BY <1>0, <1>1 DEF TypeOK, RingOK, RingSlots, Live, ring_empty
    <3>2. slots[c][ridx[c]] \in BlocksOf(c) /\ slots[c][ridx[c]] \in Blocks
      BY <1>0, <1>3, <3>1, HeldBlocks
    <3> QED
      BY <1>0, <1>3, <3>1, <3>2, BlockFacts DEF Tags, RingTag
  <2>2. /\ pc'[c] = "idle" /\ block'[c] = e /\ block_cnt'[c] = block_cnt[c] + 1
        /\ log'[c] = Append(log[c], <<>>)
        /\ \A d \in Chans : d # c => /\ pc'[d] = pc[d] /\ block'[d] = block[d] /\ block_cnt'[d] = block_cnt[d]
                                     /\ log'[d] = log[d]
        /\ block_id'[e] = block_cnt[c] /\ holder'[e] = "closure"
        /\ \A b \in Blocks : b # e => block_id'[b] = block_id[b] /\ holder'[b] = holder[b]
    BY <1>0, <1>3, <2>1 DEF DequeueEmpty, TypeOK, ChanOK, BlockOK, HistOK
  <2>3. /\ pc[c] \notin Opening /\ pc'[c] \notin Opening /\ ~ClosureHolds(c) /\ ClosureHolds(c)'
        /\ \A d \in Chans : d # c => (ClosureHolds(d)' <=> ClosureHolds(d)) /\ (pc'[d] \in Opening <=> pc[d] \in Opening)
    BY <1>1, <2>2 DEF ClosureHolds, Opening
  <2>4. /\ block_cnt[c] \in Nat /\ block_cnt[c] >= 1 /\ Enqueued(c) = block_cnt[c]
        /\ Len(log[c]) = block_cnt[c] + Direct(c) /\ log[c] \in Seq(Seq(Nat)) /\ Direct(c) \in {0, 1}
        /\ ~FirstDue(c)
    BY <1>0, <1>1, <2>3, CountFacts DEF LogShape, TypeOK, HistOK
  <2>5. \A d \in Chans : Enqueued(d)' = Enqueued(d)
    <3>1. Enqueued(c)' = Enqueued(c)
      BY <2>2, <2>3, <2>4 DEF Enqueued
    <3>2. \A d \in Chans : d # c => Enqueued(d)' = Enqueued(d)
      BY <2>2, <2>3 DEF Enqueued
    <3> QED
      BY <3>1, <3>2
  <2>6. \A d \in Chans : Done(d)' = Done(d) /\ (FirstDue(d)' <=> FirstDue(d))
    BY <1>1 DEF Done, FirstDue
  <2>7. /\ Len(log'[c]) = Len(log[c]) + 1 /\ log'[c][Len(log[c]) + 1] = <<>>
        /\ \A i \in 1..Len(log[c]) : log'[c][i] = log[c][i]
    BY <2>2, <2>4
  <2>8. \A d \in Chans : KeptAt(d)
    <3> SUFFICES ASSUME NEW d \in Chans PROVE KeptAt(d)
      OBVIOUS
    <3>1. Enqueued(d) \in Nat
      BY <1>0, CountFacts
    <3>2. CASE d = c
      <4>1. ~Flushed(c)
        BY <1>1 DEF Flushed
      <4>2. ASSUME NEW n \in Nat, n < Enqueued(c) PROVE Chunk(c, n)' = Chunk(c, n)
        <5>1. n + 1 + Direct(c) \in 1..Len(log[c])
          BY <2>4, <4>2
        <5> QED
          BY <2>7, <5>1 DEF Chunk
      <4>3. log'[c][1] = log[c][1]
        <5>1. 1 \in 1..Len(log[c])
          BY <2>4
        <5> QED
          BY <2>7, <5>1
      <4> QED
        BY <2>5, <3>1, <3>2, <4>1, <4>2, <4>3 DEF KeptAt
    <3>3. CASE d # c
      BY <1>1, <2>2, <2>5, <3>1, <3>3 DEF KeptAt, Flushed, Chunk
    <3> QED
      BY <3>2, <3>3
  <2>9. LogShape'
    <3> SUFFICES ASSUME NEW d \in Chans PROVE LogShape!(d)'
      BY DEF LogShape
    <3>1. CASE d = c
      <4>1. ~FirstDue(c)' /\ block_cnt'[c] >= 1 /\ Len(log'[c]) = block_cnt'[c] + Direct(c)
        BY <2>2, <2>4, <2>6, <2>7
      <4> QED
        BY <2>3, <3>1, <4>1
    <3>2. CASE d # c
      BY <1>0, <1>1, <2>2, <2>6, <3>2 DEF LogShape
    <3> QED
      BY <3>1, <3>2
  <2>10. ClosureBlock'
    <3> SUFFICES ASSUME NEW d \in Chans, ClosureHolds(d)'
                 PROVE  /\ block_id'[block'[d]] = block_cnt'[d] - 1
                        /\ data'[block'[d]] = log'[d][block_id'[block'[d]] + 1 + Direct(d)]
      BY DEF ClosureBlock, Chunk
    <3>1. CASE d = c
      <4>1. data[e] = <<>>
        BY <1>0, <2>1 DEF BlocksEmpty, Waiting
      <4>2. block_cnt[c] + 1 + Direct(c) = Len(log[c]) + 1
        BY <2>4
      <4> QED
        BY <1>1, <2>2, <2>4, <2>7, <3>1, <4>1, <4>2
    <3>2. CASE d # c
      <4>1. ClosureHolds(d) /\ block[d] \in Blocks /\ block[d] # e
        BY <1>0, <2>1, <2>3, <3>2, HeldBlocks, BlockFacts
      <4> QED
        BY <1>0, <1>1, <2>2, <3>2, <4>1 DEF ClosureBlock, Chunk
    <3> QED
      BY <3>1, <3>2
  <2>11. BlocksFull' /\ BlocksEmpty' /\ CopiesRight'
    <3>1. \A b \in Blocks : Carrying(b)' => Carrying(b) /\ b # e
      <4>1. \A b \in Blocks : Carrying(b)' => Carrying(b)
        BY <1>1, <2>2 DEF Carrying
      <4> QED
        BY <2>1, <4>1, CarriedWhere
    <3>2. \A b \in Blocks : Waiting(b)' => Waiting(b)
      BY <1>1, <2>2 DEF Waiting
    <3>3. \A d \in Item : Copies(d)' <=> Copies(d)
      BY <1>1, SamePlaces
    <3> QED
      BY <1>0, <1>1, <2>2, <2>8, <2>9, <3>1, <3>2, <3>3, KeepFull, KeepEmpty, KeepCopies DEF Kept
  <2>12. MarkedLast'
    <3>1. \A b \in Blocks : close_file[b] => b[1] # c
      BY <1>0, <1>1 DEF MarkedLast
    <3> QED
      BY <1>0, <1>1, <2>1, <2>2, <3>1, BlockFacts DEF MarkedLast
  <2>13. ParkedRight'
    BY <1>0, <1>1 DEF ParkedRight
  <2>14. FileRight'
    BY <1>0, <1>1, <2>8, <2>9, KeepFile DEF FileRight
  <2>15. RawOrder'
    <3> SUFFICES ASSUME NEW d \in Chans \ Compressed, ch_logf[d] = "open" PROVE RawAt(d)'
      BY <1>1 DEF RawOrder
    <3>1. RawAt(d)
      BY <1>0 DEF RawOrder
    <3>2. \A i \in 1..Len(io_queue) : io_queue[i].ch = d =>
            block_id'[io_queue[i].blk] = block_id[io_queue[i].blk]
      BY <1>0, <2>1, <2>2, RawItems
    <3>3. \A g \in IOThreads : AtHand(g, d) => block_id'[idata[g].blk] = block_id[idata[g].blk]
      BY <1>0, <2>1, <2>2, RawItems
    <3>4. \A g \in IOThreads : AtHand(g, d)' <=> AtHand(g, d)
      BY <1>1 DEF AtHand
    <3> QED
      BY <1>1, <2>5, <2>6, <3>1, <3>2, <3>3, <3>4, KeepRaw
  <2> QED
    BY <2>9, <2>10, <2>11, <2>12, <2>13, <2>14, <2>15 DEF OrderParts
<1> QED
  BY <1>2, <1>3

\* A step of a compression or IO thread: it leaves the log and the callers alone.
Still == UNCHANGED <<pc, block, block_cnt, first_logging, closing, block_id, close_file, log>>

\* Such a step hands nothing over and keeps the log and the marks.
LEMMA StillFacts ==
  ASSUME TypeOK, LogShape, Still
  PROVE  /\ \A c \in Chans : /\ Enqueued(c)' = Enqueued(c) /\ (ClosureHolds(c)' <=> ClosureHolds(c))
                             /\ (FirstDue(c)' <=> FirstDue(c)) /\ (Flushed(c)' <=> Flushed(c))
         /\ Kept
         /\ \A c \in Chans : file'[c] = file[c] => Done(c)' = Done(c)
         /\ MarkedLast => MarkedLast'
<1>1. \A c \in Chans : /\ Enqueued(c)' = Enqueued(c) /\ (ClosureHolds(c)' <=> ClosureHolds(c))
                       /\ (FirstDue(c)' <=> FirstDue(c)) /\ (Flushed(c)' <=> Flushed(c))
  BY DEF Still, Enqueued, ClosureHolds, FirstDue, Flushed
<1>2. \A c \in Chans : \A n \in Nat : Chunk(c, n)' = Chunk(c, n)
  BY DEF Still, Chunk
<1>3. \A c \in Chans : KeptAt(c)
  <2> SUFFICES ASSUME NEW c \in Chans PROVE KeptAt(c)
    OBVIOUS
  <2>1. Enqueued(c) \in Nat
    BY CountFacts
  <2> QED
    BY <1>1, <1>2, <2>1 DEF KeptAt, Still
<1>4. MarkedLast => MarkedLast'
  BY DEF MarkedLast, Still
<1>5. \A c \in Chans : file'[c] = file[c] => Done(c)' = Done(c)
  BY <1>1 DEF Done
<1> QED
  BY <1>1, <1>3, <1>4, <1>5 DEF Kept

\* The block in use stays right if the threads do not touch it.
LEMMA StillClosure ==
  ASSUME HolderInv, OrderParts, Still, \A b \in Blocks : holder[b] = "closure" => data'[b] = data[b]
  PROVE  ClosureBlock'
<1>0. TypeOK /\ Tags /\ LogShape /\ ClosureBlock
  BY DEF OrderParts, HolderInv
<1> SUFFICES ASSUME NEW d \in Chans, ClosureHolds(d)
             PROVE  /\ block_id[block[d]] = block_cnt[d] - 1
                    /\ data'[block[d]] = log[d][block_id[block[d]] + 1 + Direct(d)]
  BY <1>0, StillFacts DEF ClosureBlock, Chunk, Still
<1>1. block[d] \in Blocks /\ holder[block[d]] = "closure"
  BY <1>0, HeldBlocks DEF Tags, ClosureTag
<1> QED
  BY <1>0, <1>1 DEF ClosureBlock, Chunk

\* A marked block that was handed over is the last one of a channel that is flushed.
LEMMA MarkedFlushed ==
  ASSUME HolderInv, OrderParts, NEW b \in Blocks, Full(b), close_file[b]
  PROVE  Flushed(b[1]) /\ block_id[b] + 1 = block_cnt[b[1]]
<1>0. TypeOK /\ CallsApart /\ LogShape /\ MarkedLast
  BY DEF OrderParts, HolderInv
<1>1. PICK c \in Chans : c = b[1]
  BY BlockFacts
<1>2. /\ c \notin Tsc /\ closing[c] \notin {"no", "mark"} /\ block_id[b] + 1 = block_cnt[c]
  BY <1>0, <1>1 DEF MarkedLast
<1>3. pc[c] = "idle" /\ pc[c] \notin Opening
  BY <1>0, <1>2 DEF CallsApart, Opening
<1>4. closing[c] # "enqueue"
  <2> SUFFICES ASSUME closing[c] = "enqueue" PROVE FALSE
    OBVIOUS
  <2>1. ClosureHolds(c)
    BY <1>3 DEF ClosureHolds
  <2>2. Enqueued(c) = block_cnt[c] - 1 /\ block_cnt[c] \in Nat /\ block_id[b] \in Nat
    BY <1>0, <1>3, <2>1, CountFacts DEF TypeOK, BlockOK
  <2>3. block_id[b] < Enqueued(c)
    BY <1>1 DEF Full
  <2> QED
    BY <1>2, <2>2, <2>3
<1>5. closing[c] \in {"no", "mark", "enqueue", "deccomp", "dec", "done"}
  BY <1>0 DEF TypeOK, ChanOK
<1> QED
  BY <1>1, <1>2, <1>4, <1>5 DEF Flushed

\* A compression thread copies its block, mark and all, and empties it.
LEMMA CompressBlockOrder ==
  ASSUME HolderInv, HolderInv', OrderParts, NEW t \in CompThreads, CompressBlock(t)
  PROVE  OrderParts'
<1>0. /\ TypeOK /\ TypeOK' /\ Tags /\ KindsRight /\ LogShape /\ ClosureBlock /\ BlocksFull /\ BlocksEmpty
      /\ MarkedLast /\ CopiesRight /\ ParkedRight /\ FileRight /\ RawOrder
  BY DEF OrderParts, HolderInv
<1>1. PICK e \in Blocks : e = cblk[t] /\ holder[e] = "comp" /\ e[1] \in Compressed /\ e[1] \in Chans
  <2>1. CompHolds(t)
    BY DEF CompressBlock, CompHolds
  <2> QED
    BY <1>0, <2>1, HeldBlocks, BlockFacts DEF Tags, CompTag, KindsRight
<1>2. PICK f \in Item : f = CompressedCopy(e)
  BY <1>0, <1>1 DEF CompressedCopy, Item, TypeOK, BlockOK
<1>3. /\ cpc[t] = "compress" /\ cpc'[t] = "slot" /\ new_block'[t] = f
      /\ \A u \in CompThreads : u # t => cpc'[u] = cpc[u] /\ new_block'[u] = new_block[u]
      /\ data'[e] = <<>> /\ \A b \in Blocks : b # e => data'[b] = data[b]
      /\ UNCHANGED <<cblk, io_queue, ipc, idata, next_block, pending, file, ch_logf, holder>>
  BY <1>0, <1>1, <1>2 DEF CompressBlock, ResetBlock, TypeOK, BlockOK, CompOK, queueVars, ioVars,
     fileVars, histVars
<1>4. Still
  BY DEF CompressBlock, Still, chanVars, closeVars, histVars
<1>5. LogShape'
  BY <1>0, <1>3, <1>4, StillFacts DEF LogShape, Still
<1>6. ClosureBlock'
  BY <1>1, <1>3, <1>4, StillClosure
<1>7. Full(e)
  BY <1>0, <1>1, <1>3 DEF BlocksFull, Carrying
<1>8. BlocksFull'
  <2>1. \A b \in Blocks : Carrying(b)' => Carrying(b)
    BY <1>3 DEF Carrying
  <2>2. ~Carrying(e)'
    <3>1. \A u \in CompThreads : cpc[u] = "compress" /\ cblk[u] = e => u = t
      BY <1>0, <1>1, <1>3 DEF Tags, CompTag, CompHolds
    <3>2. \A g \in IOThreads : ~(ipc[g] = "writeraw" /\ idata[g].blk = e)
      BY <1>0, <1>1 DEF Tags, IoTag, IOHolds
    <3> QED
      BY <1>1, <1>3, <3>1, <3>2 DEF Carrying
  <2> QED
    BY <1>0, <1>3, <1>4, <1>5, <2>1, <2>2, StillFacts, KeepFull DEF Still
<1>9. BlocksEmpty'
  <2>1. \A b \in Blocks : Waiting(b)' => Waiting(b) \/ b = e
    BY <1>1, <1>3 DEF Waiting
  <2> QED
    BY <1>0, <1>3, <2>1, KeepEmpty
<1>10. CopiesRight'
  <2>1. \A d \in Item : Copies(d)' => Copies(d) \/ d = f
    BY <1>3 DEF Copies
  <2>2. CopyRight(f)'
    <3>1. /\ f.ch = e[1] /\ f.block_id = block_id[e] /\ f.data = data[e] /\ (f.close_file <=> close_file[e])
      BY <1>0, <1>1, <1>2 DEF CompressedCopy, TypeOK, BlockOK
    <3>2. f.block_id < Enqueued(f.ch) /\ f.data = Chunk(f.ch, f.block_id)
      BY <1>7, <3>1 DEF Full
    <3>3. f.close_file => Flushed(f.ch) /\ f.block_id + 1 = block_cnt[f.ch]
      BY <1>7, <3>1, MarkedFlushed
    <3>4. PICK c \in Chans : c = f.ch
      BY <1>1, <3>1
    <3>5. Enqueued(c)' = Enqueued(c) /\ (Flushed(c)' <=> Flushed(c))
      BY <1>0, <1>4, StillFacts
    <3>6. f.block_id < Enqueued(c)'
      BY <3>2, <3>4, <3>5
    <3>7. f.close_file => Flushed(c)' /\ f.block_id + 1 = block_cnt'[c]
      BY <1>4, <3>3, <3>4, <3>5 DEF Still
    <3>8. f.data = Chunk(c, f.block_id)'
      BY <1>4, <3>2, <3>4 DEF Chunk, Still
    <3> QED
      BY <1>1, <3>1, <3>4, <3>6, <3>7, <3>8 DEF CopyRight
  <2> QED
    BY <1>0, <1>4, <1>5, <2>1, <2>2, StillFacts, KeepCopies
<1>11. MarkedLast' /\ ParkedRight'
  BY <1>0, <1>3, <1>4, StillFacts DEF ParkedRight
<1>12. FileRight'
  BY <1>0, <1>3, <1>4, <1>5, StillFacts, KeepFile DEF FileRight, Kept, Still
<1>13. RawOrder'
  <2> SUFFICES ASSUME NEW c \in Chans \ Compressed, ch_logf[c] = "open" PROVE RawAt(c)'
    BY <1>3 DEF RawOrder
  <2>1. RawAt(c)
    BY <1>0 DEF RawOrder
  <2>2. \A g \in IOThreads : AtHand(g, c)' <=> AtHand(g, c)
    BY <1>3 DEF AtHand
  <2>3. Enqueued(c)' = Enqueued(c) /\ Done(c)' = Done(c)
    BY <1>0, <1>3, <1>4, StillFacts
  <2> QED
    BY <1>3, <1>4, <2>1, <2>2, <2>3, KeepRaw DEF Still
<1> QED
  BY <1>5, <1>6, <1>8, <1>9, <1>10, <1>11, <1>12, <1>13 DEF OrderParts

\* A compression thread pushes its copy, or loses it if the IO queue is full.
LEMMA CompPushOrder ==
  ASSUME HolderInv, HolderInv', OrderParts, NEW t \in CompThreads, CompPush(t)
  PROVE  OrderParts'
<1>0. /\ TypeOK /\ TypeOK' /\ LogShape /\ ClosureBlock /\ BlocksFull /\ BlocksEmpty
      /\ MarkedLast /\ CopiesRight /\ ParkedRight /\ FileRight /\ RawOrder
  BY DEF OrderParts, HolderInv
<1>1. PICK f \in Item : f = new_block[t] /\ cpc[t] = "push"
  BY <1>0 DEF CompPush, TypeOK, CompOK
<1>2. /\ cpc'[t] = "poll"
      /\ \A u \in CompThreads : u # t => cpc'[u] = cpc[u] /\ new_block'[u] = new_block[u] /\ cblk'[u] = cblk[u]
      /\ io_queue' = io_queue \/ io_queue' = Append(io_queue, f)
      /\ UNCHANGED <<data, ipc, idata, next_block, pending, file, ch_logf, holder>>
  BY <1>0, <1>1 DEF CompPush, TypeOK, CompOK, blockVars, ioVars, fileVars, histVars
<1>3. Still
  BY DEF CompPush, Still, chanVars, closeVars, blockVars, histVars
<1>4. Copies(f) /\ f.ch \in Compressed
  <2>1. Copies(f)
    BY <1>1 DEF Copies
  <2> QED
    BY <1>0, <2>1 DEF CopiesRight, CopyRight
<1>5. LogShape'
  BY <1>0, <1>2, <1>3, StillFacts DEF LogShape, Still
<1>6. ClosureBlock'
  BY <1>2, <1>3, StillClosure
<1>7. \A b \in Blocks : (Carrying(b)' => Carrying(b)) /\ (Waiting(b)' => Waiting(b))
  BY <1>2 DEF Carrying, Waiting
<1>8. BlocksFull' /\ BlocksEmpty'
  BY <1>0, <1>2, <1>3, <1>5, <1>7, StillFacts, KeepFull, KeepEmpty DEF Still
<1>9. CopiesRight'
  <2>1. \A i \in 1..Len(io_queue') : (i \in 1..Len(io_queue) /\ io_queue'[i] = io_queue[i]) \/ io_queue'[i] = f
    <3>1. io_queue \in Seq(Item)
      BY <1>0, HeldBlocks
    <3> QED
      BY <1>2, <3>1
  <2>2. \A d \in Item : Copies(d)' => Copies(d)
    BY <1>2, <1>4, <2>1 DEF Copies
  <2> QED
    BY <1>0, <1>3, <1>5, <2>2, StillFacts, KeepCopies
<1>10. MarkedLast' /\ ParkedRight'
  BY <1>0, <1>2, <1>3, StillFacts DEF ParkedRight
<1>11. FileRight'
  BY <1>0, <1>2, <1>3, <1>5, StillFacts, KeepFile DEF FileRight, Kept, Still
<1>12. RawOrder'
  <2> SUFFICES ASSUME NEW c \in Chans \ Compressed, ch_logf[c] = "open" PROVE RawAt(c)'
    BY <1>2 DEF RawOrder
  <2>1. RawAt(c)
    BY <1>0 DEF RawOrder
  <2>2. \A g \in IOThreads : AtHand(g, c)' <=> AtHand(g, c)
    BY <1>2 DEF AtHand
  <2>3. Enqueued(c)' = Enqueued(c) /\ Done(c)' = Done(c) /\ Enqueued(c) \in Nat /\ Done(c) \in Int
    BY <1>0, <1>2, <1>3, StillFacts, CountFacts
  <2>4. CASE io_queue' = io_queue
    BY <1>2, <1>3, <2>1, <2>2, <2>3, <2>4, KeepRaw DEF Still
  <2>5. CASE io_queue' = Append(io_queue, f)
    <3>1. f.ch # c /\ UNCHANGED <<block_id, ipc, idata>> /\ Enqueued(c)' \in Nat
      BY <1>2, <1>3, <1>4, <2>3 DEF Still
    <3> QED
      BY <1>0, <2>1, <2>3, <2>5, <3>1, PushRaw
  <2> QED
    BY <1>2, <2>4, <2>5
<1> QED
  BY <1>5, <1>6, <1>8, <1>9, <1>10, <1>11, <1>12 DEF OrderParts

\* The IO thread empties a block it has written and sends it back.
LEMMA SendBackUncompressedOrder ==
  ASSUME HolderInv, HolderInv', OrderParts, NEW g \in IOThreads, SendBackUncompressed(g)
  PROVE  OrderParts'
<1>0. /\ TypeOK /\ TypeOK' /\ Tags /\ LogShape /\ ClosureBlock /\ BlocksFull /\ BlocksEmpty
      /\ MarkedLast /\ CopiesRight /\ ParkedRight /\ FileRight /\ RawOrder
  BY DEF OrderParts, HolderInv
<1>1. PICK e \in Blocks : e = idata[g].blk /\ holder[e] = "io"
  <2>1. IOHolds(g)
    BY DEF SendBackUncompressed, IOHolds
  <2> QED
    BY <1>0, <2>1, HeldBlocks DEF Tags, IoTag
<1>2. /\ ipc[g] = "sendback" /\ ipc'[g] \in {"test", "pop"}
      /\ \A h \in IOThreads : h # g => ipc'[h] = ipc[h] /\ idata'[h] = idata[h]
      /\ data'[e] = <<>> /\ \A b \in Blocks : b # e => data'[b] = data[b]
      /\ holder'[e] = "ring" /\ \A b \in Blocks : b # e => holder'[b] = holder[b]
      /\ UNCHANGED <<cpc, cblk, new_block, io_queue, next_block, pending, file, ch_logf>>
  BY <1>0, <1>1 DEF SendBackUncompressed, sendBackBlock, ResetBlock, AfterBlock, TypeOK, BlockOK, IOOK, HistOK,
     queueVars, compVars, fileVars
<1>3. Still
  BY DEF SendBackUncompressed, Still, chanVars, closeVars
<1>4. LogShape'
  BY <1>0, <1>2, <1>3, StillFacts DEF LogShape, Still
<1>5. ClosureBlock'
  BY <1>1, <1>2, <1>3, StillClosure
<1>6. BlocksFull'
  <2>1. \A b \in Blocks : b # e /\ Carrying(b)' => Carrying(b)
    BY <1>2 DEF Carrying
  <2>2. ~Carrying(e)'
    <3>1. \A u \in CompThreads : ~(cpc[u] = "compress" /\ cblk[u] = e)
      BY <1>0, <1>1 DEF Tags, CompTag, CompHolds
    <3>2. \A h \in IOThreads : ipc[h] = "writeraw" /\ idata[h].blk = e => h = g
      BY <1>0, <1>1, <1>2 DEF Tags, IoTag, IOHolds
    <3> QED
      BY <1>2, <3>1, <3>2 DEF Carrying
  <2> QED
    BY <1>0, <1>2, <1>3, <1>4, <2>1, <2>2, StillFacts, KeepFull DEF Still
<1>7. BlocksEmpty'
  <2>1. \A b \in Blocks : Waiting(b)' => Waiting(b) \/ b = e
    BY <1>2 DEF Waiting
  <2> QED
    BY <1>0, <1>2, <2>1, KeepEmpty
<1>8. CopiesRight'
  <2>1. \A d \in Item : Copies(d)' => Copies(d)
    BY <1>2 DEF Copies
  <2> QED
    BY <1>0, <1>3, <1>4, <2>1, StillFacts, KeepCopies
<1>9. MarkedLast' /\ ParkedRight'
  <2>1. \A h \in IOThreads : ipc'[h] = "unpark" => ipc[h] = "unpark" /\ idata'[h] = idata[h]
    BY <1>2
  <2> QED
    BY <1>0, <1>2, <1>3, <2>1, StillFacts DEF ParkedRight
<1>10. FileRight'
  BY <1>0, <1>2, <1>3, <1>4, StillFacts, KeepFile DEF FileRight, Kept, Still
<1>11. RawOrder'
  <2> SUFFICES ASSUME NEW c \in Chans \ Compressed, ch_logf[c] = "open" PROVE RawAt(c)'
    BY <1>2 DEF RawOrder
  <2>1. RawAt(c)
    BY <1>0 DEF RawOrder
  <2>2. \A h \in IOThreads : (AtHand(h, c)' <=> AtHand(h, c)) /\ (AtHand(h, c) => idata'[h] = idata[h])
    BY <1>2 DEF AtHand
  <2>3. Enqueued(c)' = Enqueued(c) /\ Done(c)' = Done(c)
    BY <1>0, <1>2, <1>3, StillFacts
  <2> QED
    BY <1>2, <1>3, <2>1, <2>2, <2>3, KeepRaw DEF Still
<1> QED
  BY <1>4, <1>5, <1>6, <1>7, <1>8, <1>9, <1>10, <1>11 DEF OrderParts

\* The IO thread parks a copy that is early.
LEMMA ParkCompressedOrder ==
  ASSUME HolderInv, HolderInv', OrderParts, NEW g \in IOThreads, ParkCompressed(g)
  PROVE  OrderParts'
<1>0. /\ TypeOK /\ TypeOK' /\ LogShape /\ ClosureBlock /\ BlocksFull /\ BlocksEmpty
      /\ MarkedLast /\ CopiesRight /\ ParkedRight /\ FileRight /\ RawOrder
  BY DEF OrderParts, HolderInv
<1>1. PICK f \in Item : f = idata[g] /\ ipc[g] = "writecomp"
  BY <1>0 DEF ParkCompressed, TypeOK, IOOK
<1>2. PICK c \in Chans : c = f.ch
  BY <1>1, ItemFacts
<1>3. /\ ipc'[g] \in {"test", "pop"}
      /\ \A h \in IOThreads : h # g => ipc'[h] = ipc[h] /\ idata'[h] = idata[h]
      /\ pending'[c] = Append(pending[c], f) /\ pending[c] \in Seq(Item)
      /\ \A d \in Chans : d # c => pending'[d] = pending[d]
      /\ UNCHANGED <<data, holder, cpc, cblk, new_block, io_queue, next_block, file, ch_logf>>
  BY <1>0, <1>1, <1>2 DEF ParkCompressed, AfterBlock, TypeOK, IOOK, FileOK,
     blockVars, queueVars, compVars, histVars
<1>4. Still
  BY DEF ParkCompressed, Still, chanVars, closeVars, blockVars, histVars
<1>5. LogShape'
  BY <1>0, <1>3, <1>4, StillFacts DEF LogShape, Still
<1>6. ClosureBlock'
  BY <1>3, <1>4, StillClosure
<1>7. \A b \in Blocks : (Carrying(b)' => Carrying(b)) /\ (Waiting(b)' => Waiting(b))
  BY <1>3 DEF Carrying, Waiting
<1>8. BlocksFull' /\ BlocksEmpty'
  BY <1>0, <1>3, <1>4, <1>5, <1>7, StillFacts, KeepFull, KeepEmpty DEF Still
<1>9. \A d \in Chans : \A i \in 1..Len(pending'[d]) :
        (i \in 1..Len(pending[d]) /\ pending'[d][i] = pending[d][i]) \/ (d = c /\ pending'[d][i] = f)
  BY <1>3
<1>10. CopiesRight'
  <2>1. Copies(f)
    BY <1>1 DEF Copies
  <2>2. ASSUME NEW d \in Item, Copies(d)' PROVE Copies(d)
    <3>1. ASSUME NEW h \in IOThreads, ipc'[h] \in {"writecomp", "unpark"}
          PROVE  ipc[h] = ipc'[h] /\ idata'[h] = idata[h]
      BY <1>3, <3>1
    <3>2. CASE \E c2 \in Chans : \E i \in 1..Len(pending'[c2]) : pending'[c2][i] = d
      <4>1. PICK c2 \in Chans : \E i \in 1..Len(pending'[c2]) : pending'[c2][i] = d
        BY <3>2
      <4>2. PICK i \in 1..Len(pending'[c2]) : pending'[c2][i] = d
        BY <4>1
      <4>3. d = f \/ (i \in 1..Len(pending[c2]) /\ pending[c2][i] = d)
        BY <1>9, <4>2
      <4> QED
        BY <2>1, <4>3 DEF Copies
    <3>3. CASE ~\E c2 \in Chans : \E i \in 1..Len(pending'[c2]) : pending'[c2][i] = d
      BY <1>3, <2>2, <3>1, <3>3 DEF Copies
    <3> QED
      BY <3>2, <3>3
  <2> QED
    BY <1>0, <1>4, <1>5, <2>2, StillFacts, KeepCopies
<1>11. MarkedLast' /\ ParkedRight'
  <2>1. \A h \in IOThreads : ipc'[h] = "unpark" => ipc[h] = "unpark" /\ idata'[h] = idata[h]
    BY <1>3
  <2>2. ASSUME NEW d \in Chans, NEW i \in 1..Len(pending'[d]) PROVE pending'[d][i].ch = d
    <3>1. (i \in 1..Len(pending[d]) /\ pending'[d][i] = pending[d][i]) \/ (d = c /\ pending'[d][i] = f)
      BY <1>9
    <3> QED
      BY <1>0, <1>2, <3>1 DEF ParkedRight
  <2>3. \A h \in IOThreads : ipc'[h] = "unpark" => idata'[h].block_id < next_block'[idata'[h].ch]
    BY <1>0, <1>3, <2>1 DEF ParkedRight
  <2> QED
    BY <1>0, <1>4, <2>2, <2>3, StillFacts DEF ParkedRight
<1>12. FileRight'
  BY <1>0, <1>3, <1>4, <1>5, StillFacts, KeepFile DEF FileRight, Kept, Still
<1>13. RawOrder'
  <2> SUFFICES ASSUME NEW d \in Chans \ Compressed, ch_logf[d] = "open" PROVE RawAt(d)'
    BY <1>3 DEF RawOrder
  <2>1. RawAt(d)
    BY <1>0 DEF RawOrder
  <2>2. \A h \in IOThreads : (AtHand(h, d)' <=> AtHand(h, d)) /\ (AtHand(h, d) => idata'[h] = idata[h])
    BY <1>1, <1>3 DEF AtHand
  <2>3. Enqueued(d)' = Enqueued(d) /\ Done(d)' = Done(d)
    BY <1>0, <1>3, <1>4, StillFacts
  <2> QED
    BY <1>3, <1>4, <2>1, <2>2, <2>3, KeepRaw DEF Still
<1> QED
  BY <1>5, <1>6, <1>8, <1>10, <1>11, <1>12, <1>13 DEF OrderParts

\* A channel that has handed a block over is open and past its first tuple.
LEMMA GivenOut ==
  ASSUME TypeOK, LogShape, NEW c \in Chans, NEW n \in Nat, n < Enqueued(c)
  PROVE  /\ pc[c] \notin Opening /\ ~FirstDue(c) /\ Enqueued(c) \in Nat /\ Enqueued(c) <= block_cnt[c]
         /\ block_cnt[c] \in Nat /\ Direct(c) \in {0, 1} /\ Len(log[c]) = block_cnt[c] + Direct(c)
<1>1. Enqueued(c) \in Nat /\ Enqueued(c) # 0
  BY CountFacts
<1>2. pc[c] \notin Opening
  BY <1>1 DEF Enqueued
<1>3. ~FirstDue(c)
  <2> SUFFICES ASSUME FirstDue(c) PROVE FALSE
    OBVIOUS
  <2>1. block_cnt[c] = 1 /\ ClosureHolds(c)
    BY <1>2 DEF LogShape, FirstDue, ClosureHolds
  <2> QED
    BY <1>1, <1>2, <2>1 DEF Enqueued
<1> QED
  BY <1>1, <1>2, <1>3, CountFacts DEF LogShape

\* The next chunk goes to an open file, which is closed with the last one only.
LEMMA WriteChunk ==
  ASSUME TypeOK, TypeOK', LogShape, Still, NEW c \in Chans, FileAt(c), ch_logf[c] = "open",
         NEW n \in Nat, n = Done(c), n < Enqueued(c), file'[c] = Append(file[c], Chunk(c, n)),
         c \in Compressed => next_block'[c] = next_block[c] + 1,
         \/ ch_logf'[c] = "open"
         \/ ch_logf'[c] = "closed" /\ Flushed(c) /\ n + 1 = block_cnt[c]
  PROVE  FileAt(c)' /\ Done(c)' = n + 1
<1>1. /\ pc[c] \notin Opening /\ ~FirstDue(c) /\ Enqueued(c) \in Nat /\ Enqueued(c) <= block_cnt[c]
      /\ block_cnt[c] \in Nat /\ Direct(c) \in {0, 1} /\ Len(log[c]) = block_cnt[c] + Direct(c)
  BY GivenOut
<1>2. file[c] \in Seq(Seq(Nat)) /\ log[c] \in Seq(Seq(Nat)) /\ file'[c] \in Seq(Seq(Nat))
  BY DEF TypeOK, FileOK, HistOK
<1>3. Len(file[c]) = n + Direct(c)
  BY <1>1, <1>2 DEF Done
<1>4. /\ Len(file'[c]) = n + 1 + Direct(c) /\ file'[c][n + 1 + Direct(c)] = Chunk(c, n)
      /\ \A i \in 1..(n + Direct(c)) : file'[c][i] = file[c][i]
  BY <1>1, <1>2, <1>3
<1>5. Enqueued(c)' = Enqueued(c) /\ (FirstDue(c)' <=> FirstDue(c)) /\ (Flushed(c)' <=> Flushed(c))
  BY StillFacts
<1>6. Done(c)' = n + 1
  BY <1>1, <1>4, <1>5 DEF Done
<1>7. \A i \in 1..Len(file'[c]) : file'[c][i] = log'[c][i]
  <2> SUFFICES ASSUME NEW i \in 1..Len(file'[c]) PROVE file'[c][i] = log[c][i]
    BY DEF Still
  <2>1. CASE i = n + 1 + Direct(c)
    BY <1>4, <2>1 DEF Chunk
  <2>2. CASE i # n + 1 + Direct(c)
    <3>1. i \in 1..(n + Direct(c))
      BY <1>1, <1>4, <2>2
    <3> QED
      BY <1>3, <1>4, <3>1 DEF FileAt
  <2> QED
    BY <2>1, <2>2
<1>8. ch_logf'[c] = "closed" => file'[c] = log'[c] /\ Flushed(c)'
  <2> SUFFICES ASSUME ch_logf'[c] = "closed" PROVE file'[c] = log[c] /\ Flushed(c)'
    BY DEF Still
  <2>1. n + 1 = block_cnt[c] /\ Flushed(c)'
    BY <1>5
  <2>2. Len(file'[c]) = Len(log[c]) /\ \A i \in 1..Len(file'[c]) : file'[c][i] = log[c][i]
    BY <1>1, <1>4, <1>7, <2>1 DEF Still
  <2>3. file'[c] = log[c]
    <3>1. PICK s \in Seq(Seq(Nat)), t \in Seq(Seq(Nat)) : s = file'[c] /\ t = log[c]
      BY <1>2
    <3>2. Len(s) = Len(t) /\ \A i \in 1..Len(s) : s[i] = t[i]
      BY <2>2, <3>1
    <3> QED
      BY <3>1, <3>2, SeqEqual
  <2> QED
    BY <2>1, <2>3
<1>9. Done(c)' <= Enqueued(c)' /\ Done(c)' >= 0
  BY <1>1, <1>5, <1>6
<1>10. ch_logf'[c] = "open" /\ c \in Compressed => next_block'[c] = Done(c)'
  BY <1>6 DEF FileAt
<1> QED
  BY <1>6, <1>7, <1>8, <1>9, <1>10 DEF FileAt

\* The IO thread writes a block of a channel that is not compressed.
LEMMA WriteUncompressedOrder ==
  ASSUME HolderInv, HolderInv', OneIO, OrderParts, NEW g \in IOThreads, WriteUncompressed(g)
  PROVE  OrderParts'
<1>0. /\ TypeOK /\ TypeOK' /\ Tags /\ KindsRight /\ LogShape /\ ClosureBlock /\ BlocksFull /\ BlocksEmpty
      /\ MarkedLast /\ CopiesRight /\ ParkedRight /\ FileRight /\ RawOrder
  BY DEF OrderParts, HolderInv
<1>1. ipc[g] = "writeraw" /\ IOHolds(g)
  BY DEF WriteUncompressed, IOHolds
<1>2. PICK e \in Blocks : e = idata[g].blk /\ holder[e] = "io" /\ idata[g].ch = e[1]
  <2>1. idata[g].blk \in BlocksOf(idata[g].ch) /\ idata[g].blk \in Blocks /\ holder[idata[g].blk] = "io"
    BY <1>0, <1>1, HeldBlocks DEF Tags, IoTag
  <2>2. idata[g].ch \in Chans
    BY <1>0, <1>1, ItemFacts DEF TypeOK, IOOK
  <2> QED
    BY <2>1, <2>2, BlockFacts
<1>3. PICK c \in Chans : c = e[1] /\ c \notin Compressed
  BY <1>0, <1>1, <1>2, BlockFacts DEF KindsRight
<1>4. Full(e) /\ block_id[e] \in Nat
  BY <1>0, <1>1, <1>2 DEF BlocksFull, Carrying, TypeOK, BlockOK
<1>5. block_id[e] < Enqueued(c) /\ data[e] = Chunk(c, block_id[e])
  BY <1>3, <1>4 DEF Full
<1>6. /\ ipc'[g] = "sendback" /\ \A h \in IOThreads : h # g => ipc'[h] = ipc[h]
      /\ file'[c] = IF ch_logf[c] = "open" THEN Append(file[c], data[e]) ELSE file[c]
      /\ ch_logf'[c] = IF close_file[e] /\ ch_logf[c] = "open" THEN "closed" ELSE ch_logf[c]
      /\ \A d \in Chans : d # c => file'[d] = file[d] /\ ch_logf'[d] = ch_logf[d]
      /\ UNCHANGED <<idata, data, holder, cpc, cblk, new_block, io_queue, next_block, pending>>
  BY <1>0, <1>2, <1>3 DEF WriteUncompressed, Written, closeLogFile, TypeOK, IOOK, FileOK,
     blockVars, queueVars, compVars, histVars
<1>7. Still
  BY DEF WriteUncompressed, Still, chanVars, closeVars, blockVars, histVars
<1>8. pc[c] \notin Opening /\ ~FirstDue(c)
  BY <1>0, <1>4, <1>5, GivenOut
<1>9. LogShape'
  <2> SUFFICES ASSUME NEW d \in Chans PROVE LogShape!(d)'
    BY DEF LogShape
  <2>1. CASE d = c
    BY <1>0, <1>7, <1>8, <2>1, StillFacts DEF LogShape, Still
  <2>2. CASE d # c
    BY <1>0, <1>6, <1>7, <2>2, StillFacts DEF LogShape, Still
  <2> QED
    BY <2>1, <2>2
<1>10. ClosureBlock'
  BY <1>6, <1>7, StillClosure
<1>11. BlocksFull' /\ BlocksEmpty'
  <2>1. \A b \in Blocks : (Carrying(b)' => Carrying(b)) /\ (Waiting(b)' => Waiting(b))
    BY <1>6 DEF Carrying, Waiting
  <2> QED
    BY <1>0, <1>6, <1>7, <1>9, <2>1, StillFacts, KeepFull, KeepEmpty DEF Still
<1>12. CopiesRight'
  <2>1. \A d \in Item : Copies(d)' => Copies(d)
    BY <1>6 DEF Copies
  <2> QED
    BY <1>0, <1>7, <1>9, <2>1, StillFacts, KeepCopies
<1>13. MarkedLast' /\ ParkedRight'
  <2>1. \A h \in IOThreads : ipc'[h] = "unpark" => ipc[h] = "unpark"
    BY <1>6
  <2> QED
    BY <1>0, <1>6, <1>7, <2>1, StillFacts DEF ParkedRight
<1>14. ch_logf[c] = "open" => block_id[e] = Done(c) /\ RawAt(c)
  BY <1>0, <1>1, <1>2, <1>3 DEF RawOrder, RawAt, AtHand
<1>15. ch_logf[c] = "open" => FileAt(c)' /\ Done(c)' = block_id[e] + 1
  <2> SUFFICES ASSUME ch_logf[c] = "open" PROVE FileAt(c)' /\ Done(c)' = block_id[e] + 1
    OBVIOUS
  <2>1. PICK n \in Nat : n = block_id[e]
    BY <1>4
  <2>2. n = Done(c) /\ n < Enqueued(c) /\ file'[c] = Append(file[c], Chunk(c, n)) /\ FileAt(c)
    BY <1>0, <1>5, <1>6, <1>14, <2>1 DEF FileRight
  <2>3. \/ ch_logf'[c] = "open"
        \/ ch_logf'[c] = "closed" /\ Flushed(c) /\ n + 1 = block_cnt[c]
    BY <1>3, <1>4, <1>6, <2>1, MarkedFlushed
  <2> QED
    BY <1>0, <1>3, <1>7, <2>1, <2>2, <2>3, WriteChunk
<1>16. FileRight'
  <2> SUFFICES ASSUME NEW d \in Chans PROVE FileAt(d)'
    BY DEF FileRight
  <2>1. CASE d = c /\ ch_logf[c] = "open"
    BY <1>15, <2>1
  <2>2. CASE ~(d = c /\ ch_logf[c] = "open")
    <3>1. file'[d] = file[d] /\ ch_logf'[d] = ch_logf[d] /\ next_block'[d] = next_block[d]
      BY <1>6, <2>2
    <3> QED
      BY <1>0, <1>7, <1>9, <3>1, StillFacts, KeepFile DEF FileRight, Kept, Still
  <2> QED
    BY <2>1, <2>2
<1>17. RawOrder'
  <2> SUFFICES ASSUME NEW d \in Chans \ Compressed, ch_logf'[d] = "open" PROVE RawAt(d)'
    BY DEF RawOrder
  <2>1. ch_logf[d] = "open" /\ RawAt(d) /\ Enqueued(d)' = Enqueued(d) /\ Enqueued(d) \in Nat /\ Done(d) \in Int
    BY <1>0, <1>6, <1>7, StillFacts, CountFacts DEF RawOrder
  <2>2. CASE d # c
    <3>1. \A h \in IOThreads : AtHand(h, d)' <=> AtHand(h, d)
      BY <1>2, <1>3, <1>6, <2>2 DEF AtHand
    <3>2. Done(d)' = Done(d)
      BY <1>0, <1>6, <1>7, <2>2, StillFacts
    <3> QED
      BY <1>6, <1>7, <2>1, <3>1, <3>2, KeepRaw DEF Still
  <2>3. CASE d = c
    <3>1. \A h \in IOThreads : AtHand(h, c) => h = g
      BY <1>1 DEF AtHand, OneIO, Busy
    <3>2. \A h \in IOThreads : ~AtHand(h, c)'
      BY <1>6, <3>1 DEF AtHand
    <3>3. AtHand(g, c)
      BY <1>1, <1>2, <1>3 DEF AtHand
    <3>4. block_id[e] = Done(c) /\ Done(c)' = block_id[e] + 1
      BY <1>14, <1>15, <2>1, <2>3
    <3>5. \A i \in 1..Len(io_queue) : io_queue[i].ch = c =>
            block_id[e] < block_id[io_queue[i].blk] /\ block_id[io_queue[i].blk] \in Nat
      <4> SUFFICES ASSUME NEW i \in 1..Len(io_queue), io_queue[i].ch = c
                   PROVE  block_id[e] < block_id[io_queue[i].blk] /\ block_id[io_queue[i].blk] \in Nat
        OBVIOUS
      <4>1. io_queue[i].blk \in Blocks
        BY <1>0, <1>3, RawItems
      <4>2. block_id[e] < block_id[io_queue[i].blk]
        BY <1>2, <2>1, <2>3, <3>3 DEF RawAt
      <4> QED
        BY <1>0, <4>1, <4>2 DEF TypeOK, BlockOK
    <3>6. \A i \in 1..Len(io_queue) : io_queue[i].ch = c => block_id[io_queue[i].blk] >= Done(c)'
      BY <1>4, <3>4, <3>5
    <3>7. ASSUME NEW n \in Nat, Done(c)' <= n, n < Enqueued(c)
          PROVE  \E i \in 1..Len(io_queue) : io_queue[i].ch = c /\ block_id[io_queue[i].blk] = n
      <4>1. Done(c) <= n /\ n # block_id[e]
        BY <1>4, <3>4, <3>7
      <4>2. \/ \E i \in 1..Len(io_queue) : io_queue[i].ch = c /\ block_id[io_queue[i].blk] = n
            \/ \E h \in IOThreads : AtHand(h, c) /\ block_id[idata[h].blk] = n
        BY <2>1, <2>3, <3>7, <4>1 DEF RawAt
      <4> QED
        BY <1>2, <3>1, <4>1, <4>2
    <3>8. UNCHANGED <<io_queue, block_id>>
      BY <1>6, <1>7 DEF Still
    <3>9. \A i, j \in 1..Len(io_queue) : i < j /\ io_queue[i].ch = c /\ io_queue[j].ch = c =>
            block_id[io_queue[i].blk] < block_id[io_queue[j].blk]
      BY <2>1, <2>3 DEF RawAt
    <3> QED
      BY <2>1, <2>3, <3>2, <3>6, <3>7, <3>8, <3>9 DEF RawAt
  <2> QED
    BY <2>2, <2>3
<1> QED
  BY <1>9, <1>10, <1>11, <1>12, <1>13, <1>16, <1>17 DEF OrderParts

\* The part that the steps on a compressed channel's file have in common.
LEMMA CopySide ==
  ASSUME HolderInv, HolderInv', OrderParts, Still, NEW c \in Chans, c \in Compressed,
         pc[c] \notin Opening, ~FirstDue(c),
         UNCHANGED <<data, holder, cpc, cblk, io_queue>>,
         \A d \in Chans : d # c => /\ file'[d] = file[d] /\ ch_logf'[d] = ch_logf[d]
                                   /\ next_block'[d] = next_block[d],
         \A h \in IOThreads : /\ ipc'[h] = "writeraw" <=> ipc[h] = "writeraw"
                              /\ ipc[h] = "writeraw" => idata'[h] = idata[h],
         \A d \in Item : Copies(d)' => Copies(d),
         ParkedRight', FileAt(c)'
  PROVE  OrderParts'
<1>0. /\ TypeOK /\ TypeOK' /\ LogShape /\ BlocksFull /\ BlocksEmpty /\ MarkedLast /\ CopiesRight
      /\ FileRight /\ RawOrder
  BY DEF OrderParts, HolderInv
<1>1. LogShape'
  <2> SUFFICES ASSUME NEW d \in Chans PROVE LogShape!(d)'
    BY DEF LogShape
  <2>1. CASE d = c
    BY <1>0, <2>1, StillFacts DEF LogShape, Still
  <2>2. CASE d # c
    BY <1>0, <2>2, StillFacts DEF LogShape, Still
  <2> QED
    BY <2>1, <2>2
<1>2. ClosureBlock'
  BY StillClosure
<1>3. BlocksFull' /\ BlocksEmpty'
  <2>1. \A b \in Blocks : (Carrying(b)' => Carrying(b)) /\ (Waiting(b)' => Waiting(b))
    BY DEF Carrying, Waiting
  <2> QED
    BY <1>0, <1>1, <2>1, StillFacts, KeepFull, KeepEmpty DEF Still
<1>4. CopiesRight' /\ MarkedLast'
  BY <1>0, <1>1, StillFacts, KeepCopies
<1>5. FileRight'
  <2> SUFFICES ASSUME NEW d \in Chans, d # c PROVE FileAt(d)'
    BY DEF FileRight
  <2> QED
    BY <1>0, <1>1, StillFacts, KeepFile DEF FileRight, Kept, Still
<1>6. RawOrder'
  <2> SUFFICES ASSUME NEW d \in Chans \ Compressed, ch_logf'[d] = "open" PROVE RawAt(d)'
    BY DEF RawOrder
  <2>1. d # c
    OBVIOUS
  <2>2. RawAt(d)
    BY <1>0, <2>1 DEF RawOrder
  <2>3. \A h \in IOThreads : (AtHand(h, d)' <=> AtHand(h, d)) /\ (AtHand(h, d) => idata'[h] = idata[h])
    BY DEF AtHand
  <2>4. Enqueued(d)' = Enqueued(d) /\ Done(d)' = Done(d)
    BY <1>0, <2>1, StillFacts
  <2> QED
    BY <2>2, <2>3, <2>4, KeepRaw DEF Still
<1> QED
  BY <1>1, <1>2, <1>3, <1>4, <1>5, <1>6 DEF OrderParts

\* A copy whose number is next is written, or dropped while the file is not open.
LEMMA WriteCopy ==
  ASSUME HolderInv, HolderInv', OrderParts, Still, NEW f \in Item, NEW c \in Chans, c = f.ch, CopyRight(f),
         f.block_id = next_block[c],
         file'[c] = IF ch_logf[c] = "open" THEN Append(file[c], f.data) ELSE file[c],
         next_block'[c] = next_block[c] + 1,
         LogShape',
         ch_logf'[c] = ch_logf[c] \/ (f.close_file /\ ch_logf[c] = "open" /\ ch_logf'[c] = "closed")
  PROVE  FileAt(c)'
<1>0. TypeOK /\ TypeOK' /\ LogShape /\ FileAt(c)
  BY DEF OrderParts, HolderInv, FileRight
<1>1. PICK n \in Nat : n = f.block_id
  BY ItemFacts
<1>2. n < Enqueued(c) /\ f.data = Chunk(c, n) /\ (f.close_file => Flushed(c) /\ n + 1 = block_cnt[c])
  BY <1>1 DEF CopyRight
<1>3. CASE ch_logf[c] = "open"
  <2>1. c \in Compressed
    BY DEF CopyRight
  <2>2. n = Done(c)
    BY <1>0, <1>1, <1>3, <2>1 DEF FileAt
  <2>3. file'[c] = Append(file[c], Chunk(c, n))
    BY <1>2, <1>3
  <2>4. \/ ch_logf'[c] = "open"
        \/ ch_logf'[c] = "closed" /\ Flushed(c) /\ n + 1 = block_cnt[c]
    BY <1>2, <1>3
  <2> QED
    BY <1>0, <1>2, <1>3, <2>2, <2>3, <2>4, WriteChunk
<1>4. CASE ch_logf[c] # "open"
  <2>1. file'[c] = file[c] /\ ch_logf'[c] = ch_logf[c]
    BY <1>4
  <2> QED
    BY <1>0, <1>4, <2>1, StillFacts, KeepFile DEF Kept, Still
<1> QED
  BY <1>3, <1>4

\* The files of the channels that are being opened, and of those whose first tuple is
\* due, do not change when the copies of another one are written.
LEMMA StillShape ==
  ASSUME TypeOK, LogShape, Still, NEW c \in Chans, pc[c] \notin Opening, ~FirstDue(c),
         \A d \in Chans : d # c => /\ file'[d] = file[d] /\ ch_logf'[d] = ch_logf[d]
                                   /\ next_block'[d] = next_block[d]
  PROVE  LogShape'
<1> SUFFICES ASSUME NEW d \in Chans PROVE LogShape!(d)'
  BY DEF LogShape
<1>1. CASE d = c
  BY <1>1, StillFacts DEF LogShape, Still
<1>2. CASE d # c
  BY <1>2, StillFacts DEF LogShape, Still
<1> QED
  BY <1>1, <1>2

\* The IO thread writes the copy at hand, whose number is next.
LEMMA WriteCompressedOrder ==
  ASSUME HolderInv, HolderInv', OrderParts, NEW g \in IOThreads, WriteCompressed(g)
  PROVE  OrderParts'
<1>0. TypeOK /\ TypeOK' /\ LogShape /\ CopiesRight /\ ParkedRight
  BY DEF OrderParts, HolderInv
<1>1. PICK f \in Item : f = idata[g] /\ ipc[g] = "writecomp"
  BY <1>0 DEF WriteCompressed, TypeOK, IOOK
<1>2. PICK c \in Chans : c = f.ch
  BY <1>1, ItemFacts
<1>3. CopyRight(f) /\ c \in Compressed /\ f.block_id < Enqueued(c) /\ f.block_id \in Nat
  <2>1. Copies(f)
    BY <1>1 DEF Copies
  <2>2. CopyRight(f)
    BY <1>0, <2>1 DEF CopiesRight
  <2> QED
    BY <1>2, <2>2, ItemFacts DEF CopyRight
<1>4. pc[c] \notin Opening /\ ~FirstDue(c)
  BY <1>0, <1>3, GivenOut
<1>5. /\ ipc'[g] = "unpark" /\ \A h \in IOThreads : h # g => ipc'[h] = ipc[h]
      /\ f.block_id = next_block[c] /\ next_block'[c] = next_block[c] + 1
      /\ file'[c] = IF ch_logf[c] = "open" THEN Append(file[c], f.data) ELSE file[c]
      /\ \A d \in Chans : d # c => file'[d] = file[d] /\ next_block'[d] = next_block[d]
      /\ UNCHANGED <<idata, data, holder, cpc, cblk, new_block, io_queue, pending, ch_logf>>
  BY <1>0, <1>1, <1>2 DEF WriteCompressed, InOrder, Written, TypeOK, IOOK, FileOK,
     blockVars, queueVars, compVars, histVars
<1>6. Still
  BY DEF WriteCompressed, Still, chanVars, closeVars, blockVars, histVars
<1>7. FileAt(c)'
  <2>1. LogShape'
    BY <1>0, <1>4, <1>5, <1>6, StillShape
  <2> QED
    BY <1>2, <1>3, <1>5, <1>6, <2>1, WriteCopy
<1>8. \A d \in Item : Copies(d)' => Copies(d)
  BY <1>1, <1>5 DEF Copies
<1>9. ParkedRight'
  <2>1. ASSUME NEW h \in IOThreads, ipc'[h] = "unpark" PROVE idata'[h].block_id < next_block'[idata'[h].ch]
    <3>1. CASE h = g
      BY <1>1, <1>2, <1>3, <1>5, <3>1
    <3>2. CASE h # g
      <4>1. ipc[h] = "unpark" /\ idata[h] \in Item
        BY <1>0, <1>5, <2>1, <3>2 DEF TypeOK, IOOK
      <4>2. PICK d \in Chans : d = idata[h].ch
        BY <4>1, ItemFacts
      <4>3. idata[h].block_id < next_block[d] /\ idata[h].block_id \in Nat /\ next_block[d] \in Nat
        BY <1>0, <4>1, <4>2, ItemFacts DEF ParkedRight, TypeOK, FileOK
      <4>4. next_block'[d] = next_block[d] \/ next_block'[d] = next_block[d] + 1
        BY <1>5
      <4> QED
        BY <1>5, <4>2, <4>3, <4>4
    <3> QED
      BY <3>1, <3>2
  <2> QED
    BY <1>0, <1>5, <2>1 DEF ParkedRight
<1>10. \A h \in IOThreads : ipc'[h] = "writeraw" <=> ipc[h] = "writeraw"
  BY <1>1, <1>5
<1> QED
  BY <1>3, <1>4, <1>5, <1>6, <1>7, <1>8, <1>9, <1>10, CopySide

\* The IO thread writes a parked copy whose number has come.
LEMMA UnparkCompressedOrder ==
  ASSUME HolderInv, HolderInv', OrderParts, NEW g \in IOThreads, UnparkCompressed(g)
  PROVE  OrderParts'
<1>0. TypeOK /\ TypeOK' /\ LogShape /\ CopiesRight /\ ParkedRight
  BY DEF OrderParts, HolderInv
<1>1. ipc[g] = "unpark" /\ idata[g] \in Item
  BY <1>0 DEF UnparkCompressed, TypeOK, IOOK
<1>2. PICK c \in Chans : c = idata[g].ch
  BY <1>1, ItemFacts
<1>3. PICK i \in DOMAIN pending[c] :
        /\ InOrder(pending[c][i])
        /\ file' = [file EXCEPT ![c] = Written(c, pending[c][i].data)]
        /\ closeLogFile(c, pending[c][i].close_file)
        /\ pending' = [pending EXCEPT ![c] = RemoveAt(@, i)]
  BY <1>2 DEF UnparkCompressed
<1>4. pending[c] \in Seq(Item) /\ i \in 1..Len(pending[c])
  BY <1>0, <1>3 DEF TypeOK, FileOK
<1>5. PICK f \in Item : f = pending[c][i]
  BY <1>4
<1>6. f.ch = c /\ CopyRight(f) /\ c \in Compressed /\ f.block_id < Enqueued(c) /\ f.block_id \in Nat
  <2>1. Copies(f)
    BY <1>4, <1>5 DEF Copies
  <2>2. CopyRight(f)
    BY <1>0, <2>1 DEF CopiesRight
  <2>3. f.ch = c
    BY <1>0, <1>4, <1>5 DEF ParkedRight
  <2> QED
    BY <2>2, <2>3, ItemFacts DEF CopyRight
<1>7. pc[c] \notin Opening /\ ~FirstDue(c)
  BY <1>0, <1>6, GivenOut
<1>8. /\ f.block_id = next_block[c]
      /\ file'[c] = IF ch_logf[c] = "open" THEN Append(file[c], f.data) ELSE file[c]
      /\ ch_logf'[c] = ch_logf[c] \/ (f.close_file /\ ch_logf[c] = "open" /\ ch_logf'[c] = "closed")
      /\ pending'[c] = RemoveAt(pending[c], i)
      /\ \A d \in Chans : d # c => /\ file'[d] = file[d] /\ ch_logf'[d] = ch_logf[d]
                                   /\ pending'[d] = pending[d]
  BY <1>0, <1>3, <1>5, <1>6 DEF InOrder, Written, closeLogFile, TypeOK, FileOK
<1>9. /\ next_block'[c] = next_block[c] + 1 /\ \A d \in Chans : d # c => next_block'[d] = next_block[d]
      /\ UNCHANGED <<ipc, idata, data, holder, cpc, cblk, new_block, io_queue>>
  BY <1>0, <1>2 DEF UnparkCompressed, TypeOK, FileOK, blockVars, queueVars, compVars, ioVars, histVars
<1>10. Still
  BY DEF UnparkCompressed, Still, chanVars, closeVars, blockVars, histVars
<1>11. FileAt(c)'
  <2>1. LogShape'
    BY <1>0, <1>7, <1>8, <1>9, <1>10, StillShape
  <2> QED
    BY <1>6, <1>8, <1>9, <1>10, <2>1, WriteCopy
<1>12. ASSUME NEW d \in Chans, NEW j \in 1..Len(pending'[d])
       PROVE  \E k \in 1..Len(pending[d]) : pending'[d][j] = pending[d][k]
  <2>1. CASE d = c
    <3>1. PICK s \in Seq(Item) : s = pending[c]
      BY <1>4
    <3>2. i \in 1..Len(s) /\ pending'[d] = RemoveAt(s, i)
      BY <1>4, <1>8, <2>1, <3>1
    <3>3. /\ Len(RemoveAt(s, i)) = Len(s) - 1
          /\ \A k \in 1..Len(s) - 1 : RemoveAt(s, i)[k] = IF k < i THEN s[k] ELSE s[k + 1]
      BY <3>2, SeqRemove
    <3>4. j \in 1..Len(s) - 1
      BY <3>2, <3>3
    <3>5. j \in 1..Len(s) /\ j + 1 \in 1..Len(s)
      BY <3>4
    <3> QED
      BY <2>1, <3>1, <3>2, <3>3, <3>4, <3>5
  <2>2. CASE d # c
    BY <1>8, <2>2
  <2> QED
    BY <2>1, <2>2
<1>13. \A d \in Item : Copies(d)' => Copies(d)
  <2> SUFFICES ASSUME NEW d \in Item, Copies(d)' PROVE Copies(d)
    OBVIOUS
  <2>1. CASE \E c2 \in Chans : \E j \in 1..Len(pending'[c2]) : pending'[c2][j] = d
    <3>1. PICK c2 \in Chans : \E j \in 1..Len(pending'[c2]) : pending'[c2][j] = d
      BY <2>1
    <3>2. PICK j \in 1..Len(pending'[c2]) : pending'[c2][j] = d
      BY <3>1
    <3>3. \E k \in 1..Len(pending[c2]) : pending[c2][k] = d
      BY <1>12, <3>2
    <3> QED
      BY <3>3 DEF Copies
  <2>2. CASE ~\E c2 \in Chans : \E j \in 1..Len(pending'[c2]) : pending'[c2][j] = d
    BY <1>9, <2>2 DEF Copies
  <2> QED
    BY <2>1, <2>2
<1>14. ParkedRight'
  <2>1. ASSUME NEW d \in Chans, NEW j \in 1..Len(pending'[d]) PROVE pending'[d][j].ch = d
    BY <1>0, <1>12 DEF ParkedRight
  <2>2. ASSUME NEW h \in IOThreads, ipc[h] = "unpark" PROVE idata[h].block_id < next_block'[idata[h].ch]
    <3>1. idata[h] \in Item
      BY <1>0, <2>2 DEF TypeOK, IOOK
    <3>2. PICK d \in Chans : d = idata[h].ch
      BY <3>1, ItemFacts
    <3>3. idata[h].block_id < next_block[d] /\ idata[h].block_id \in Nat /\ next_block[d] \in Nat
      BY <1>0, <2>2, <3>1, <3>2, ItemFacts DEF ParkedRight, TypeOK, FileOK
    <3>4. next_block'[d] = next_block[d] \/ next_block'[d] = next_block[d] + 1
      BY <1>9
    <3> QED
      BY <3>2, <3>3, <3>4
  <2> QED
    BY <1>9, <2>1, <2>2 DEF ParkedRight
<1>15. \A h \in IOThreads : /\ ipc'[h] = "writeraw" <=> ipc[h] = "writeraw"
                            /\ ipc[h] = "writeraw" => idata'[h] = idata[h]
  BY <1>9
<1> QED
  BY <1>6, <1>7, <1>8, <1>9, <1>10, <1>11, <1>13, <1>14, <1>15, CopySide

\* The IO thread is done with the copy at hand, and closes the file if that was the last.
LEMMA UnparkDoneOrder ==
  ASSUME HolderInv, HolderInv', OrderParts, NEW g \in IOThreads, UnparkDone(g)
  PROVE  OrderParts'
<1>0. TypeOK /\ TypeOK' /\ LogShape /\ CopiesRight /\ ParkedRight /\ FileRight
  BY DEF OrderParts, HolderInv
<1>1. PICK f \in Item : f = idata[g] /\ ipc[g] = "unpark"
  BY <1>0 DEF UnparkDone, TypeOK, IOOK
<1>2. PICK c \in Chans : c = f.ch
  BY <1>1, ItemFacts
<1>3. /\ CopyRight(f) /\ c \in Compressed /\ f.block_id < Enqueued(c) /\ f.block_id \in Nat
      /\ f.close_file => Flushed(c) /\ f.block_id + 1 = block_cnt[c]
  <2>1. Copies(f)
    BY <1>1 DEF Copies
  <2>2. CopyRight(f)
    BY <1>0, <2>1 DEF CopiesRight
  <2> QED
    BY <1>2, <2>2, ItemFacts DEF CopyRight
<1>4. /\ pc[c] \notin Opening /\ ~FirstDue(c) /\ Enqueued(c) \in Nat /\ Enqueued(c) <= block_cnt[c]
      /\ block_cnt[c] \in Nat /\ Direct(c) \in {0, 1} /\ Len(log[c]) = block_cnt[c] + Direct(c)
  BY <1>0, <1>3, GivenOut
<1>5. /\ ipc'[g] \in {"test", "pop"} /\ \A h \in IOThreads : h # g => ipc'[h] = ipc[h] /\ idata'[h] = idata[h]
      /\ ch_logf'[c] = IF f.close_file /\ ch_logf[c] = "open" THEN "closed" ELSE ch_logf[c]
      /\ \A d \in Chans : d # c => ch_logf'[d] = ch_logf[d]
      /\ UNCHANGED <<data, holder, cpc, cblk, new_block, io_queue, next_block, pending, file>>
  BY <1>0, <1>1, <1>2 DEF UnparkDone, AfterBlock, closeLogFile, TypeOK, IOOK, FileOK,
     blockVars, queueVars, compVars, histVars
<1>6. Still
  BY DEF UnparkDone, Still, chanVars, closeVars, blockVars, histVars
<1>7. LogShape'
  BY <1>0, <1>4, <1>5, <1>6, StillShape
<1>8. FileAt(c)'
  <2>1. CASE ~(f.close_file /\ ch_logf[c] = "open")
    BY <1>0, <1>5, <1>6, <1>7, <2>1, StillFacts, KeepFile DEF FileRight, Kept, Still
  <2>2. CASE f.close_file /\ ch_logf[c] = "open"
    <3>1. /\ f.block_id + 1 = block_cnt[c] /\ Flushed(c) /\ next_block[c] = Done(c) /\ Done(c) <= Enqueued(c)
          /\ f.block_id < next_block[c] /\ \A i \in 1..Len(file[c]) : file[c][i] = log[c][i]
      BY <1>0, <1>1, <1>2, <1>3, <2>2 DEF FileRight, FileAt, ParkedRight
    <3>2. file[c] \in Seq(Seq(Nat)) /\ log[c] \in Seq(Seq(Nat)) /\ Done(c) = Len(file[c]) - Direct(c)
      BY <1>0, <1>4 DEF TypeOK, FileOK, HistOK, Done
    <3>3. Len(file[c]) = Len(log[c])
      <4>1. Len(file[c]) \in Nat /\ Done(c) \in Int
        BY <1>4, <3>2
      <4>2. f.block_id < Done(c) /\ Done(c) <= block_cnt[c]
        BY <1>3, <1>4, <3>1, <4>1
      <4>3. Done(c) = block_cnt[c]
        BY <1>3, <1>4, <3>1, <4>1, <4>2
      <4> QED
        BY <1>4, <3>2, <4>1, <4>3
    <3>4. file[c] = log[c]
      <4>1. PICK s \in Seq(Seq(Nat)), t \in Seq(Seq(Nat)) : s = file[c] /\ t = log[c]
        BY <3>2
      <4>2. Len(s) = Len(t) /\ \A i \in 1..Len(s) : s[i] = t[i]
        BY <3>1, <3>3, <4>1
      <4> QED
        BY <4>1, <4>2, SeqEqual
    <3>5. /\ Done(c)' = Done(c) /\ Enqueued(c)' = Enqueued(c) /\ Flushed(c)' /\ log'[c] = log[c]
      BY <1>0, <1>5, <1>6, <3>1, StillFacts DEF Still
    <3>6. ch_logf'[c] = "closed" /\ file'[c] = file[c]
      BY <1>5, <2>2
    <3> QED
      BY <3>1, <3>4, <3>5, <3>6 DEF FileAt
  <2> QED
    BY <2>1, <2>2
<1>9. \A d \in Item : Copies(d)' => Copies(d)
  BY <1>1, <1>5 DEF Copies
<1>10. ParkedRight'
  <2>1. \A h \in IOThreads : ipc'[h] = "unpark" => ipc[h] = "unpark" /\ idata'[h] = idata[h]
    BY <1>5
  <2> QED
    BY <1>0, <1>5, <2>1 DEF ParkedRight
<1>11. \A h \in IOThreads : /\ ipc'[h] = "writeraw" <=> ipc[h] = "writeraw"
                            /\ ipc[h] = "writeraw" => idata'[h] = idata[h]
  BY <1>1, <1>5
<1> QED
  BY <1>3, <1>4, <1>5, <1>6, <1>8, <1>9, <1>10, <1>11, CopySide

\* The IO thread takes the head of its queue: of a channel that is not compressed, the
\* block that its file needs next.
LEMMA IOPopOrder ==
  ASSUME HolderInv, HolderInv', OneIO, OrderParts, NEW g \in IOThreads, IOPop(g)
  PROVE  OrderParts'
<1>0. /\ TypeOK /\ TypeOK' /\ Tags /\ LogShape /\ ClosureBlock /\ BlocksFull /\ BlocksEmpty
      /\ MarkedLast /\ CopiesRight /\ ParkedRight /\ FileRight /\ RawOrder
  BY DEF OrderParts, HolderInv
<1>1. io_queue \in Seq(Item) /\ io_queue # <<>> /\ Len(io_queue) \in Nat /\ 1 \in 1..Len(io_queue)
  BY <1>0, HeldBlocks DEF IOPop
<1>2. PICK f \in Item : f = Head(io_queue) /\ f = io_queue[1]
  BY <1>1
<1>3. /\ io_queue' = Tail(io_queue) /\ Len(io_queue') = Len(io_queue) - 1
      /\ \A i \in 1..Len(io_queue') : io_queue'[i] = io_queue[i + 1] /\ i + 1 \in 1..Len(io_queue)
  BY <1>1 DEF IOPop
<1>4. /\ ipc[g] = "pop" /\ ipc'[g] = IF f.compress THEN "writecomp" ELSE "writeraw"
      /\ idata'[g] = f
      /\ \A h \in IOThreads : h # g => ipc'[h] = ipc[h] /\ idata'[h] = idata[h]
      /\ UNCHANGED <<data, cpc, cblk, new_block, next_block, pending, file, ch_logf>>
  BY <1>0, <1>2 DEF IOPop, TypeOK, IOOK, blockVars, compVars, fileVars
<1>5. /\ ~f.compress => f.blk \in Blocks /\ holder[f.blk] = "ioq"
      /\ \A b \in Blocks : holder'[b] = holder[b] \/ (~f.compress /\ b = f.blk /\ holder'[b] = "io")
  <2>1. ~f.compress => f.blk \in Blocks /\ holder[f.blk] = "ioq"
    BY <1>0, <1>1, <1>2, HeldBlocks DEF Tags, IoqTag
  <2> QED
    BY <1>0, <1>2, <2>1 DEF IOPop, TypeOK, HistOK
<1>6. Still
  BY DEF IOPop, Still, chanVars, closeVars, blockVars
<1>7. LogShape'
  BY <1>0, <1>4, <1>6, StillFacts DEF LogShape, Still
<1>8. ClosureBlock'
  BY <1>4, <1>6, StillClosure
<1>9. \A b \in Blocks : (Carrying(b)' => Carrying(b)) /\ (Waiting(b)' => Waiting(b))
  <2> SUFFICES ASSUME NEW b \in Blocks PROVE (Carrying(b)' => Carrying(b)) /\ (Waiting(b)' => Waiting(b))
    OBVIOUS
  <2>1. holder'[b] \in {"compq", "ioq"} => holder[b] \in {"compq", "ioq"}
    BY <1>5
  <2>2. holder'[b] \in {"none", "ring"} => holder[b] \in {"none", "ring"}
    BY <1>5
  <2>3. ASSUME NEW h \in IOThreads, ipc'[h] = "writeraw", idata'[h].blk = b PROVE Carrying(b)
    <3>1. CASE h = g
      BY <1>4, <1>5, <2>3, <3>1 DEF Carrying
    <3>2. CASE h # g
      BY <1>4, <2>3, <3>2 DEF Carrying
    <3> QED
      BY <3>1, <3>2
  <2> QED
    BY <1>4, <2>1, <2>2, <2>3 DEF Carrying, Waiting
<1>10. BlocksFull' /\ BlocksEmpty'
  BY <1>0, <1>4, <1>6, <1>7, <1>9, StillFacts, KeepFull, KeepEmpty DEF Still
<1>11. \A d \in Item : Copies(d)' => Copies(d)
  <2> SUFFICES ASSUME NEW d \in Item, Copies(d)' PROVE Copies(d)
    OBVIOUS
  <2>1. CASE \E t \in CompThreads : cpc'[t] \in {"slot", "store", "push"} /\ new_block'[t] = d
    BY <1>4, <2>1 DEF Copies
  <2>2. CASE \E i \in 1..Len(io_queue') : io_queue'[i] = d /\ d.compress
    BY <1>3, <2>2 DEF Copies
  <2>3. CASE \E h \in IOThreads : ipc'[h] \in {"writecomp", "unpark"} /\ idata'[h] = d
    BY <1>1, <1>2, <1>4, <2>3 DEF Copies
  <2>4. CASE \E c \in Chans : \E i \in 1..Len(pending'[c]) : pending'[c][i] = d
    BY <1>4, <2>4 DEF Copies
  <2> QED
    BY <2>1, <2>2, <2>3, <2>4 DEF Copies
<1>12. CopiesRight' /\ MarkedLast'
  BY <1>0, <1>6, <1>7, <1>11, StillFacts, KeepCopies
<1>13. ParkedRight'
  <2>1. \A h \in IOThreads : ipc'[h] = "unpark" => ipc[h] = "unpark" /\ idata'[h] = idata[h]
    BY <1>4
  <2> QED
    BY <1>0, <1>4, <2>1 DEF ParkedRight
<1>14. FileRight'
  BY <1>0, <1>4, <1>6, <1>7, StillFacts, KeepFile DEF FileRight, Kept, Still
<1>15. RawOrder'
  <2> SUFFICES ASSUME NEW c \in Chans \ Compressed, ch_logf[c] = "open" PROVE RawAt(c)'
    BY <1>4 DEF RawOrder
  <2>1. /\ RawAt(c) /\ Enqueued(c)' = Enqueued(c) /\ Done(c)' = Done(c) /\ Enqueued(c) \in Nat
        /\ Done(c) \in Int /\ Done(c) >= 0 /\ block_id' = block_id
    BY <1>0, <1>4, <1>6, StillFacts, CountFacts DEF RawOrder, FileRight, FileAt, Still
  <2>2. \A h \in IOThreads : ~AtHand(h, c)
    BY <1>4 DEF AtHand, OneIO, Busy
  <2>3. \A h \in IOThreads : AtHand(h, c)' <=> h = g /\ f.ch = c
    <3>1. f.ch = c => ~f.compress
      BY <1>0, <1>1, <1>2, RawItems
    <3> QED
      BY <1>4, <2>2, <3>1 DEF AtHand
  <2>4. \A n \in Nat : Done(c) <= n /\ n < Enqueued(c) =>
          \E i \in 1..Len(io_queue) : io_queue[i].ch = c /\ block_id[io_queue[i].blk] = n
    BY <2>1, <2>2 DEF RawAt
  <2>5. f.ch = c => block_id[f.blk] = Done(c)
    <3> SUFFICES ASSUME f.ch = c PROVE block_id[f.blk] = Done(c)
      OBVIOUS
    <3>1. PICK b \in Blocks : b = f.blk /\ b[1] = c /\ holder[b] = "ioq"
      BY <1>0, <1>1, <1>2, RawItems
    <3>2. block_id[b] < Enqueued(c) /\ block_id[b] \in Nat
      <4>1. Full(b)
        BY <1>0, <3>1 DEF BlocksFull, Carrying
      <4> QED
        BY <1>0, <3>1, <4>1 DEF Full, TypeOK, BlockOK
    <3>3. block_id[b] >= Done(c)
      BY <1>1, <1>2, <2>1, <3>1 DEF RawAt
    <3>4. PICK n \in Nat : n = Done(c)
      BY <2>1
    <3>5. PICK i \in 1..Len(io_queue) : io_queue[i].ch = c /\ block_id[io_queue[i].blk] = n
      BY <2>1, <2>4, <3>2, <3>3, <3>4
    <3>6. CASE i = 1
      BY <1>2, <3>4, <3>5, <3>6
    <3>7. CASE i # 1
      <4>1. 1 < i
        BY <1>1, <3>7
      <4>2. block_id[b] < n
        BY <1>1, <1>2, <2>1, <3>1, <3>5, <4>1 DEF RawAt
      <4> QED
        BY <3>2, <3>3, <3>4, <4>2
    <3> QED
      BY <3>6, <3>7
  <2>6. \A h \in IOThreads : AtHand(h, c)' => block_id'[idata'[h].blk] = Done(c)'
    BY <1>4, <2>1, <2>3, <2>5
  <2>7. \A i \in 1..Len(io_queue') : io_queue'[i].ch = c => block_id'[io_queue'[i].blk] >= Done(c)'
    BY <1>3, <2>1 DEF RawAt
  <2>8. ASSUME NEW i \in 1..Len(io_queue'), NEW j \in 1..Len(io_queue'), i < j,
               io_queue'[i].ch = c, io_queue'[j].ch = c
        PROVE  block_id'[io_queue'[i].blk] < block_id'[io_queue'[j].blk]
    <3>1. i + 1 < j + 1 /\ i + 1 \in 1..Len(io_queue) /\ j + 1 \in 1..Len(io_queue)
      BY <1>1, <1>3, <2>8
    <3> QED
      BY <1>3, <2>1, <2>8, <3>1 DEF RawAt
  <2>9. ASSUME NEW h \in IOThreads, NEW i \in 1..Len(io_queue'), AtHand(h, c)', io_queue'[i].ch = c
        PROVE  block_id'[idata'[h].blk] < block_id'[io_queue'[i].blk]
    <3>1. h = g /\ f.ch = c /\ idata'[h] = f
      BY <1>4, <2>3, <2>9
    <3>2. 1 < i + 1 /\ i + 1 \in 1..Len(io_queue)
      BY <1>1, <1>3
    <3> QED
      BY <1>1, <1>2, <1>3, <2>1, <2>9, <3>1, <3>2 DEF RawAt
  <2>10. ASSUME NEW n \in Nat, Done(c)' <= n, n < Enqueued(c)'
         PROVE  \/ \E i \in 1..Len(io_queue') : io_queue'[i].ch = c /\ block_id'[io_queue'[i].blk] = n
                \/ \E h \in IOThreads : AtHand(h, c)' /\ block_id'[idata'[h].blk] = n
    <3>1. PICK i \in 1..Len(io_queue) : io_queue[i].ch = c /\ block_id[io_queue[i].blk] = n
      BY <2>1, <2>4, <2>10
    <3>2. CASE i = 1
      BY <1>2, <1>4, <2>1, <2>3, <3>1, <3>2
    <3>3. CASE i # 1
      <4>1. PICK j \in 1..Len(io_queue') : j + 1 = i
        <5>1. i - 1 \in 1..Len(io_queue') /\ (i - 1) + 1 = i
          BY <1>1, <1>3, <3>3
        <5> QED
          BY <5>1
      <4>2. io_queue'[j] = io_queue[i]
        BY <1>3, <4>1
      <4> QED
        BY <2>1, <3>1, <4>2
    <3> QED
      BY <3>2, <3>3
  <2> QED
    BY <2>6, <2>7, <2>8, <2>9, <2>10 DEF RawAt
<1> QED
  BY <1>7, <1>8, <1>10, <1>12, <1>13, <1>14, <1>15 DEF OrderParts

\* Every step keeps the invariant.
LEMMA OrderStep ==
  ASSUME "async_exit" \notin Races, PushesApart
  PROVE  OrderInv /\ [Next]_vars => OrderParts'
<1> SUFFICES ASSUME OrderInv, [Next]_vars PROVE OrderParts'
  OBVIOUS
<1>0. /\ HolderInv /\ HolderInv' /\ TypeOK /\ TypeOK' /\ CallsApart /\ Unborn /\ Tags
      /\ OneIO /\ OrderParts
  BY HolderStep DEF OrderInv, HolderInv
<1>1. ASSUME NEW c \in Chans, OpenChannel(c) PROVE OrderParts'
  <2>1. UNCHANGED <<block, block_cnt, first_logging, blockVars, io_queue, fileVars, log, closing, holder,
                    cpc, cblk, new_block, pending, ipc, idata>>
    BY <1>1 DEF OpenChannel, chanVars, closeVars, blockVars, ringVars, queueVars, compVars, ioVars,
       fileVars, exitVars, histVars
  <2>2. QuietChans
    BY <1>0, <1>1, <2>1 DEF OpenChannel, TypeOK, ChanOK, Opening, ClosureHolds, QuietChans, FirstDue, Flushed
  <2>3. QuietBlocks
    BY <2>1, SamePlaces DEF QuietBlocks
  <2>4. QuietCopies
    BY <2>1, SamePlaces DEF QuietCopies
  <2>5. QuietIO
    BY <2>1 DEF QuietIO
  <2>6. Quiet /\ UNCHANGED close_file
    BY <2>1, <2>2, <2>3, <2>4, <2>5 DEF Quiet, blockVars
  <2> QED
    BY <1>0, <2>6, QuietStep
<1>2. ASSUME NEW c \in Chans, OpenIOThread(c) PROVE OrderParts'
  <2>1. UNCHANGED <<block, block_cnt, first_logging, blockVars, io_queue, fileVars, log, closing, holder,
                    cpc, cblk, new_block, pending, idata>>
    BY <1>2 DEF OpenIOThread, AfterIO, chanVars, closeVars, blockVars, ringVars, queueVars, compVars,
       ioVars, fileVars, exitVars, histVars
  <2>2. QuietChans
    BY <1>0, <1>2, <2>1 DEF OpenIOThread, AfterIO, TypeOK, ChanOK, Opening, ClosureHolds, QuietChans,
       FirstDue, Flushed
  <2>a. /\ ipc[c] \in {"unborn"} /\ ipc'[c] \notin {"writeraw", "writecomp", "unpark"}
        /\ \A h \in IOThreads : h # c => ipc'[h] = ipc[h]
    BY <1>0, <1>2 DEF OpenIOThread, AfterIO, Unborn, TypeOK, IOOK, IOThreads
  <2>3. QuietBlocks
    BY <2>1, <2>a DEF QuietBlocks, Carrying, Waiting
  <2>4. QuietCopies
    BY <2>1, <2>a DEF QuietCopies, Copies
  <2>5. QuietIO
    BY <2>1, <2>a DEF QuietIO
  <2>6. Quiet /\ UNCHANGED close_file
    BY <2>1, <2>2, <2>3, <2>4, <2>5 DEF Quiet, blockVars
  <2> QED
    BY <1>0, <2>6, QuietStep
<1>3. ASSUME NEW c \in Chans, OpenIOStore(c) PROVE OrderParts'
  <2>1. UNCHANGED <<block, block_cnt, first_logging, blockVars, io_queue, fileVars, log, closing, holder,
                    cpc, cblk, new_block, pending, ipc, idata>>
    BY <1>3 DEF OpenIOStore, AfterIO, chanVars, closeVars, blockVars, ringVars, queueVars, compVars,
       ioVars, fileVars, exitVars, histVars
  <2>2. QuietChans
    BY <1>0, <1>3, <2>1 DEF OpenIOStore, AfterIO, TypeOK, ChanOK, Opening, ClosureHolds, QuietChans,
       FirstDue, Flushed
  <2>3. QuietBlocks
    BY <2>1, SamePlaces DEF QuietBlocks
  <2>4. QuietCopies
    BY <2>1, SamePlaces DEF QuietCopies
  <2>5. QuietIO
    BY <2>1 DEF QuietIO
  <2>6. Quiet /\ UNCHANGED close_file
    BY <2>1, <2>2, <2>3, <2>4, <2>5 DEF Quiet, blockVars
  <2> QED
    BY <1>0, <2>6, QuietStep
<1>4. ASSUME NEW c \in Chans, OpenCountComp(c) PROVE OrderParts'
  <2>1. UNCHANGED <<block, block_cnt, first_logging, blockVars, io_queue, fileVars, log, closing, holder,
                    cpc, cblk, new_block, pending, ipc, idata>>
    BY <1>4 DEF OpenCountComp, chanVars, closeVars, blockVars, ringVars, queueVars, compVars, ioVars,
       fileVars, exitVars, histVars
  <2>2. QuietChans
    BY <1>0, <1>4, <2>1 DEF OpenCountComp, TypeOK, ChanOK, Opening, ClosureHolds, QuietChans, FirstDue, Flushed
  <2>3. QuietBlocks
    BY <2>1, SamePlaces DEF QuietBlocks
  <2>4. QuietCopies
    BY <2>1, SamePlaces DEF QuietCopies
  <2>5. QuietIO
    BY <2>1 DEF QuietIO
  <2>6. Quiet /\ UNCHANGED close_file
    BY <2>1, <2>2, <2>3, <2>4, <2>5 DEF Quiet, blockVars
  <2> QED
    BY <1>0, <2>6, QuietStep
<1>5. ASSUME NEW c \in Chans, OpenCompThreads(c) PROVE OrderParts'
  <2>1. UNCHANGED <<block, block_cnt, first_logging, blockVars, io_queue, fileVars, log, closing, holder,
                    cblk, new_block, pending, ipc, idata>>
    BY <1>5 DEF OpenCompThreads, chanVars, closeVars, blockVars, ringVars, queueVars, compVars, ioVars,
       fileVars, exitVars, histVars
  <2>2. QuietChans
    BY <1>0, <1>5, <2>1 DEF OpenCompThreads, TypeOK, ChanOK, Opening, ClosureHolds, QuietChans, FirstDue,
       Flushed
  <2>a. \A t \in CompThreads : cpc'[t] = cpc[t] \/ cpc'[t] = "poll"
    BY <1>5 DEF OpenCompThreads
  <2>3. QuietBlocks
    BY <2>1, <2>a DEF QuietBlocks, Carrying, Waiting
  <2>4. QuietCopies
    BY <2>1, <2>a DEF QuietCopies, Copies
  <2>5. QuietIO
    BY <2>1 DEF QuietIO
  <2>6. Quiet /\ UNCHANGED close_file
    BY <2>1, <2>2, <2>3, <2>4, <2>5 DEF Quiet, blockVars
  <2> QED
    BY <1>0, <2>6, QuietStep
<1>6. ASSUME NEW c \in Chans, OpenDone(c) PROVE OrderParts'
  BY <1>0, <1>6, OpenDoneOrder
<1>7. ASSUME NEW c \in Chans, LogTS(c) PROVE OrderParts'
  <2>1. UNCHANGED <<block, block_cnt, first_logging, blockVars, io_queue, fileVars, log, closing, holder,
                    cpc, cblk, new_block, pending, ipc, idata>>
    BY <1>7 DEF LogTS, chanVars, closeVars, blockVars, ringVars, queueVars, compVars, ioVars, fileVars,
       exitVars, histVars
  <2>2. QuietChans
    BY <1>0, <1>7, <2>1 DEF LogTS, TypeOK, ChanOK, Opening, ClosureHolds, QuietChans, FirstDue, Flushed
  <2>3. QuietBlocks
    BY <2>1, SamePlaces DEF QuietBlocks
  <2>4. QuietCopies
    BY <2>1, SamePlaces DEF QuietCopies
  <2>5. QuietIO
    BY <2>1 DEF QuietIO
  <2>6. Quiet /\ UNCHANGED close_file
    BY <2>1, <2>2, <2>3, <2>4, <2>5 DEF Quiet, blockVars
  <2> QED
    BY <1>0, <2>6, QuietStep
<1>8. ASSUME NEW c \in Chans, WriteFirst(c) PROVE OrderParts'
  BY <1>0, <1>8, WriteFirstOrder
<1>9. ASSUME NEW c \in Chans, WriteOnBlock(c) PROVE OrderParts'
  BY <1>0, <1>9, WriteOnBlockOrder
<1>10. ASSUME NEW c \in Chans, EnqueueFull(c) PROVE OrderParts'
  BY <1>0, <1>10, EnqueueFullOrder
<1>11. ASSUME NEW c \in Chans, DequeueEmpty(c) PROVE OrderParts'
  BY <1>0, <1>11, DequeueEmptyOrder
<1>12. ASSUME NEW c \in Chans, CloseChannel(c) PROVE OrderParts'
  <2>1. UNCHANGED <<block, block_cnt, first_logging, blockVars, io_queue, fileVars, log, pc, holder, cpc,
                    cblk, new_block, pending, ipc, idata>>
    BY <1>12 DEF CloseChannel, CloseExchange, chanVars, closeVars, blockVars, ringVars, queueVars,
       compVars, ioVars, fileVars, exitVars, histVars
  <2>2. QuietChans
    BY <1>0, <1>12, <2>1 DEF CloseChannel, CloseExchange, TypeOK, ChanOK, CallsApart, ClosureHolds,
       QuietChans, FirstDue, Flushed
  <2>3. QuietBlocks
    BY <2>1, SamePlaces DEF QuietBlocks
  <2>4. QuietCopies
    BY <2>1, SamePlaces DEF QuietCopies
  <2>5. QuietIO
    BY <2>1 DEF QuietIO
  <2>6. Quiet /\ UNCHANGED close_file
    BY <2>1, <2>2, <2>3, <2>4, <2>5 DEF Quiet, blockVars
  <2> QED
    BY <1>0, <2>6, QuietStep
<1>13. ASSUME NEW c \in Chans, CloseMark(c) PROVE OrderParts'
  BY <1>0, <1>13, CloseMarkOrder
<1>14. ASSUME NEW c \in Chans, CloseEnqueue(c) PROVE OrderParts'
  BY <1>0, <1>14, CloseEnqueueOrder
<1>15. ASSUME NEW c \in Chans, CloseDecComp(c) PROVE OrderParts'
  <2>1. UNCHANGED <<block, block_cnt, first_logging, blockVars, io_queue, fileVars, log, pc, holder, cpc,
                    cblk, new_block, pending, ipc, idata>>
    BY <1>15 DEF CloseDecComp, chanVars, closeVars, blockVars, ringVars, queueVars, compVars, ioVars,
       fileVars, exitVars, histVars
  <2>2. QuietChans
    BY <1>0, <1>15, <2>1 DEF CloseDecComp, TypeOK, ChanOK, CallsApart, ClosureHolds, QuietChans,
       FirstDue, Flushed
  <2>3. QuietBlocks
    BY <2>1, SamePlaces DEF QuietBlocks
  <2>4. QuietCopies
    BY <2>1, SamePlaces DEF QuietCopies
  <2>5. QuietIO
    BY <2>1 DEF QuietIO
  <2>6. Quiet /\ UNCHANGED close_file
    BY <2>1, <2>2, <2>3, <2>4, <2>5 DEF Quiet, blockVars
  <2> QED
    BY <1>0, <2>6, QuietStep
<1>16. ASSUME NEW c \in Chans, CloseDec(c) PROVE OrderParts'
  <2>1. UNCHANGED <<block, block_cnt, first_logging, blockVars, io_queue, fileVars, log, pc, holder, cpc,
                    cblk, new_block, pending, ipc, idata>>
    BY <1>16 DEF CloseDec, chanVars, closeVars, blockVars, ringVars, queueVars, compVars, ioVars,
       fileVars, exitVars, histVars
  <2>2. QuietChans
    BY <1>0, <1>16, <2>1 DEF CloseDec, TypeOK, ChanOK, CallsApart, ClosureHolds, QuietChans, FirstDue, Flushed
  <2>3. QuietBlocks
    BY <2>1, SamePlaces DEF QuietBlocks
  <2>4. QuietCopies
    BY <2>1, SamePlaces DEF QuietCopies
  <2>5. QuietIO
    BY <2>1 DEF QuietIO
  <2>6. Quiet /\ UNCHANGED close_file
    BY <2>1, <2>2, <2>3, <2>4, <2>5 DEF Quiet, blockVars
  <2> QED
    BY <1>0, <2>6, QuietStep
<1>17. ASSUME NEW t \in CompThreads, CompPop(t) PROVE OrderParts'
  <2>1. UNCHANGED <<block, block_cnt, first_logging, blockVars, io_queue, fileVars, log, pc, closing,
                    new_block, pending, ipc, idata>>
    BY <1>17 DEF CompPop, chanVars, closeVars, blockVars, ringVars, queueVars, compVars, ioVars,
       fileVars, exitVars, histVars
  <2>2. QuietChans
    BY <2>1, SamePlaces DEF QuietChans, Flushed
  <2>a. PICK e \in Blocks : e = Head(compression_queue) /\ holder[e] = "compq"
    <3>1. compression_queue \in Seq(Blocks) /\ compression_queue # <<>>
      BY <1>0, <1>17, HeldBlocks DEF CompPop
    <3>2. 1 \in 1..Len(compression_queue) /\ Head(compression_queue) = compression_queue[1]
      BY <3>1
    <3> QED
      BY <1>0, <3>1, <3>2 DEF Tags, CompqTag
  <2>b. /\ cpc[t] = "poll" /\ cpc'[t] = "compress" /\ cblk'[t] = e
        /\ \A u \in CompThreads : u # t => cpc'[u] = cpc[u] /\ cblk'[u] = cblk[u]
        /\ \A b \in Blocks : b # e => holder'[b] = holder[b]
        /\ holder'[e] = "comp"
    BY <1>0, <1>17, <2>a DEF CompPop, TypeOK, CompOK, HistOK
  <2>3. QuietBlocks
    BY <2>1, <2>a, <2>b DEF QuietBlocks, Carrying, Waiting
  <2>4. QuietCopies
    BY <2>1, <2>b DEF QuietCopies, Copies
  <2>5. QuietIO
    BY <2>1 DEF QuietIO
  <2>6. Quiet /\ UNCHANGED close_file
    BY <2>1, <2>2, <2>3, <2>4, <2>5 DEF Quiet, blockVars
  <2> QED
    BY <1>0, <2>6, QuietStep
<1>18. ASSUME NEW t \in CompThreads, CompLeaveLoop(t) PROVE OrderParts'
  <2>1. UNCHANGED <<block, block_cnt, first_logging, blockVars, io_queue, fileVars, log, pc, closing,
                    holder, cpc, cblk, new_block, pending, ipc, idata>>
    BY <1>18 DEF CompLeaveLoop, chanVars, closeVars, blockVars, ringVars, queueVars, compVars, ioVars,
       fileVars, exitVars, histVars
  <2>2. QuietChans
    BY <2>1, SamePlaces DEF QuietChans, Flushed
  <2>3. QuietBlocks
    BY <2>1, SamePlaces DEF QuietBlocks
  <2>4. QuietCopies
    BY <2>1, SamePlaces DEF QuietCopies
  <2>5. QuietIO
    BY <2>1 DEF QuietIO
  <2>6. Quiet /\ UNCHANGED close_file
    BY <2>1, <2>2, <2>3, <2>4, <2>5 DEF Quiet, blockVars
  <2> QED
    BY <1>0, <2>6, QuietStep
<1>19. ASSUME NEW t \in CompThreads, CompDrained(t) PROVE OrderParts'
  <2>1. UNCHANGED <<block, block_cnt, first_logging, blockVars, io_queue, fileVars, log, pc, closing,
                    holder, cblk, new_block, pending, ipc, idata>>
    BY <1>19 DEF CompDrained, chanVars, closeVars, blockVars, ringVars, queueVars, compVars, ioVars,
       fileVars, exitVars, histVars
  <2>2. QuietChans
    BY <2>1, SamePlaces DEF QuietChans, Flushed
  <2>a. /\ cpc[t] \in {"poll", "stop", "slot"} /\ cpc'[t] \in {"stop", "dead", "store"}
        /\ cpc'[t] = "store" => cpc[t] = "slot"
        /\ \A u \in CompThreads : u # t => cpc'[u] = cpc[u]
    BY <1>0, <1>19 DEF CompDrained, TypeOK, CompOK
  <2>3. QuietBlocks
    BY <2>1, <2>a DEF QuietBlocks, Carrying, Waiting
  <2>4. QuietCopies
    BY <2>1, <2>a DEF QuietCopies, Copies
  <2>5. QuietIO
    BY <2>1 DEF QuietIO
  <2>6. Quiet /\ UNCHANGED close_file
    BY <2>1, <2>2, <2>3, <2>4, <2>5 DEF Quiet, blockVars
  <2> QED
    BY <1>0, <2>6, QuietStep
<1>20. ASSUME NEW t \in CompThreads, CompStop(t) PROVE OrderParts'
  <2>1. UNCHANGED <<block, block_cnt, first_logging, blockVars, io_queue, fileVars, log, pc, closing,
                    holder, cblk, new_block, pending, ipc, idata>>
    BY <1>20 DEF CompStop, chanVars, closeVars, blockVars, ringVars, queueVars, compVars, ioVars,
       fileVars, exitVars, histVars
  <2>2. QuietChans
    BY <2>1, SamePlaces DEF QuietChans, Flushed
  <2>a. /\ cpc[t] \in {"poll", "stop", "slot"} /\ cpc'[t] \in {"stop", "dead", "store"}
        /\ cpc'[t] = "store" => cpc[t] = "slot"
        /\ \A u \in CompThreads : u # t => cpc'[u] = cpc[u]
    BY <1>0, <1>20 DEF CompStop, TypeOK, CompOK
  <2>3. QuietBlocks
    BY <2>1, <2>a DEF QuietBlocks, Carrying, Waiting
  <2>4. QuietCopies
    BY <2>1, <2>a DEF QuietCopies, Copies
  <2>5. QuietIO
    BY <2>1 DEF QuietIO
  <2>6. Quiet /\ UNCHANGED close_file
    BY <2>1, <2>2, <2>3, <2>4, <2>5 DEF Quiet, blockVars
  <2> QED
    BY <1>0, <2>6, QuietStep
<1>21. ASSUME NEW t \in CompThreads, CompressBlock(t) PROVE OrderParts'
  BY <1>0, <1>21, CompressBlockOrder
<1>22. ASSUME NEW t \in CompThreads, SendBackLoad(t) PROVE OrderParts'
  <2>1. UNCHANGED <<block, block_cnt, first_logging, blockVars, io_queue, fileVars, log, pc, closing,
                    holder, cblk, new_block, pending, ipc, idata>>
    BY <1>22 DEF SendBackLoad, chanVars, closeVars, blockVars, ringVars, queueVars, compVars, ioVars,
       fileVars, exitVars, histVars
  <2>2. QuietChans
    BY <2>1, SamePlaces DEF QuietChans, Flushed
  <2>a. /\ cpc[t] \in {"poll", "stop", "slot"} /\ cpc'[t] \in {"stop", "dead", "store"}
        /\ cpc'[t] = "store" => cpc[t] = "slot"
        /\ \A u \in CompThreads : u # t => cpc'[u] = cpc[u]
    BY <1>0, <1>22 DEF SendBackLoad, TypeOK, CompOK
  <2>3. QuietBlocks
    BY <2>1, <2>a DEF QuietBlocks, Carrying, Waiting
  <2>4. QuietCopies
    BY <2>1, <2>a DEF QuietCopies, Copies
  <2>5. QuietIO
    BY <2>1 DEF QuietIO
  <2>6. Quiet /\ UNCHANGED close_file
    BY <2>1, <2>2, <2>3, <2>4, <2>5 DEF Quiet, blockVars
  <2> QED
    BY <1>0, <2>6, QuietStep
<1>23. ASSUME NEW t \in CompThreads, SendBackStore(t) PROVE OrderParts'
  <2>1. UNCHANGED <<block, block_cnt, first_logging, blockVars, io_queue, fileVars, log, pc, closing,
                    cblk, new_block, pending, ipc, idata>>
    BY <1>23 DEF SendBackStore, chanVars, closeVars, blockVars, ringVars, queueVars, compVars, ioVars,
       fileVars, exitVars, histVars
  <2>2. QuietChans
    BY <2>1, SamePlaces DEF QuietChans, Flushed
  <2>b. /\ cpc[t] = "store" /\ cpc'[t] = "push"
        /\ \A u \in CompThreads : u # t => cpc'[u] = cpc[u]
        /\ \A b \in Blocks : b # cblk[t] => holder'[b] = holder[b]
        /\ \A b \in Blocks : b = cblk[t] => holder'[b] = "ring"
    BY <1>0, <1>23 DEF SendBackStore, TypeOK, CompOK, HistOK
  <2>3. QuietBlocks
    BY <2>1, <2>b DEF QuietBlocks, Carrying, Waiting
  <2>4. QuietCopies
    BY <2>1, <2>b DEF QuietCopies, Copies
  <2>5. QuietIO
    BY <2>1 DEF QuietIO
  <2>6. Quiet /\ UNCHANGED close_file
    BY <2>1, <2>2, <2>3, <2>4, <2>5 DEF Quiet, blockVars
  <2> QED
    BY <1>0, <2>6, QuietStep
<1>24. ASSUME NEW t \in CompThreads, CompPush(t) PROVE OrderParts'
  BY <1>0, <1>24, CompPushOrder
<1>25. ASSUME NEW g \in IOThreads, IOTest(g) PROVE OrderParts'
  <2>1. UNCHANGED <<block, block_cnt, first_logging, blockVars, io_queue, fileVars, log, pc, closing,
                    holder, cpc, cblk, new_block, pending, idata>>
    BY <1>25 DEF IOTest, IOLoopTest, chanVars, closeVars, blockVars, ringVars, queueVars, compVars,
       ioVars, fileVars, exitVars, histVars
  <2>2. QuietChans
    BY <2>1, SamePlaces DEF QuietChans, Flushed
  <2>a. /\ ipc[g] \in {"test", "test2", "pop", "term", "clear_io", "clear_comp"} /\ ipc'[g] \notin {"writeraw", "writecomp", "unpark"}
        /\ \A h \in IOThreads : h # g => ipc'[h] = ipc[h]
    BY <1>0, <1>25 DEF IOTest, IOLoopTest, TypeOK, IOOK, IOThreads
  <2>3. QuietBlocks
    BY <2>1, <2>a DEF QuietBlocks, Carrying, Waiting
  <2>4. QuietCopies
    BY <2>1, <2>a DEF QuietCopies, Copies
  <2>5. QuietIO
    BY <2>1, <2>a DEF QuietIO
  <2>6. Quiet /\ UNCHANGED close_file
    BY <2>1, <2>2, <2>3, <2>4, <2>5 DEF Quiet, blockVars
  <2> QED
    BY <1>0, <2>6, QuietStep
<1>26. ASSUME NEW g \in IOThreads, IOTestLeft(g) PROVE OrderParts'
  <2>1. UNCHANGED <<block, block_cnt, first_logging, blockVars, io_queue, fileVars, log, pc, closing,
                    holder, cpc, cblk, new_block, pending, idata>>
    BY <1>26 DEF IOTestLeft, chanVars, closeVars, blockVars, ringVars, queueVars, compVars, ioVars,
       fileVars, exitVars, histVars
  <2>2. QuietChans
    BY <2>1, SamePlaces DEF QuietChans, Flushed
  <2>a. /\ ipc[g] \in {"test", "test2", "pop", "term", "clear_io", "clear_comp"} /\ ipc'[g] \notin {"writeraw", "writecomp", "unpark"}
        /\ \A h \in IOThreads : h # g => ipc'[h] = ipc[h]
    BY <1>0, <1>26 DEF IOTestLeft, TypeOK, IOOK, IOThreads
  <2>3. QuietBlocks
    BY <2>1, <2>a DEF QuietBlocks, Carrying, Waiting
  <2>4. QuietCopies
    BY <2>1, <2>a DEF QuietCopies, Copies
  <2>5. QuietIO
    BY <2>1, <2>a DEF QuietIO
  <2>6. Quiet /\ UNCHANGED close_file
    BY <2>1, <2>2, <2>3, <2>4, <2>5 DEF Quiet, blockVars
  <2> QED
    BY <1>0, <2>6, QuietStep
<1>27. ASSUME NEW g \in IOThreads, IOTestRight(g) PROVE OrderParts'
  <2>1. UNCHANGED <<block, block_cnt, first_logging, blockVars, io_queue, fileVars, log, pc, closing,
                    holder, cpc, cblk, new_block, pending, idata>>
    BY <1>27 DEF IOTestRight, IOLoopTest, chanVars, closeVars, blockVars, ringVars, queueVars, compVars,
       ioVars, fileVars, exitVars, histVars
  <2>2. QuietChans
    BY <2>1, SamePlaces DEF QuietChans, Flushed
  <2>a. /\ ipc[g] \in {"test", "test2", "pop", "term", "clear_io", "clear_comp"} /\ ipc'[g] \notin {"writeraw", "writecomp", "unpark"}
        /\ \A h \in IOThreads : h # g => ipc'[h] = ipc[h]
    BY <1>0, <1>27 DEF IOTestRight, IOLoopTest, TypeOK, IOOK, IOThreads
  <2>3. QuietBlocks
    BY <2>1, <2>a DEF QuietBlocks, Carrying, Waiting
  <2>4. QuietCopies
    BY <2>1, <2>a DEF QuietCopies, Copies
  <2>5. QuietIO
    BY <2>1, <2>a DEF QuietIO
  <2>6. Quiet /\ UNCHANGED close_file
    BY <2>1, <2>2, <2>3, <2>4, <2>5 DEF Quiet, blockVars
  <2> QED
    BY <1>0, <2>6, QuietStep
<1>28. ASSUME NEW g \in IOThreads, IOPop(g) PROVE OrderParts'
  BY <1>0, <1>28, IOPopOrder
<1>29. ASSUME NEW g \in IOThreads, IOEmpty(g) PROVE OrderParts'
  <2>1. UNCHANGED <<block, block_cnt, first_logging, blockVars, io_queue, fileVars, log, pc, closing,
                    holder, cpc, cblk, new_block, pending, idata>>
    BY <1>29 DEF IOEmpty, chanVars, closeVars, blockVars, ringVars, queueVars, compVars, ioVars,
       fileVars, exitVars, histVars
  <2>2. QuietChans
    BY <2>1, SamePlaces DEF QuietChans, Flushed
  <2>a. /\ ipc[g] \in {"test", "test2", "pop", "term", "clear_io", "clear_comp"} /\ ipc'[g] \notin {"writeraw", "writecomp", "unpark"}
        /\ \A h \in IOThreads : h # g => ipc'[h] = ipc[h]
    BY <1>0, <1>29 DEF IOEmpty, TypeOK, IOOK, IOThreads
  <2>3. QuietBlocks
    BY <2>1, <2>a DEF QuietBlocks, Carrying, Waiting
  <2>4. QuietCopies
    BY <2>1, <2>a DEF QuietCopies, Copies
  <2>5. QuietIO
    BY <2>1, <2>a DEF QuietIO
  <2>6. Quiet /\ UNCHANGED close_file
    BY <2>1, <2>2, <2>3, <2>4, <2>5 DEF Quiet, blockVars
  <2> QED
    BY <1>0, <2>6, QuietStep
<1>30. ASSUME NEW g \in IOThreads, WriteUncompressed(g) PROVE OrderParts'
  BY <1>0, <1>30, WriteUncompressedOrder
<1>31. ASSUME NEW g \in IOThreads, SendBackUncompressed(g) PROVE OrderParts'
  BY <1>0, <1>31, SendBackUncompressedOrder
<1>32. ASSUME NEW g \in IOThreads, ParkCompressed(g) PROVE OrderParts'
  BY <1>0, <1>32, ParkCompressedOrder
<1>33. ASSUME NEW g \in IOThreads, WriteCompressed(g) PROVE OrderParts'
  BY <1>0, <1>33, WriteCompressedOrder
<1>34. ASSUME NEW g \in IOThreads, UnparkCompressed(g) PROVE OrderParts'
  BY <1>0, <1>34, UnparkCompressedOrder
<1>35. ASSUME NEW g \in IOThreads, UnparkDone(g) PROVE OrderParts'
  BY <1>0, <1>35, UnparkDoneOrder
<1>36. ASSUME NEW g \in IOThreads, IOTerminate(g) PROVE OrderParts'
  <2>1. UNCHANGED <<block, block_cnt, first_logging, blockVars, io_queue, fileVars, log, pc, closing,
                    holder, cpc, cblk, new_block, pending, idata>>
    BY <1>36 DEF IOTerminate, chanVars, closeVars, blockVars, ringVars, queueVars, compVars, ioVars,
       fileVars, exitVars, histVars
  <2>2. QuietChans
    BY <2>1, SamePlaces DEF QuietChans, Flushed
  <2>a. /\ ipc[g] \in {"test", "test2", "pop", "term", "clear_io", "clear_comp"} /\ ipc'[g] \notin {"writeraw", "writecomp", "unpark"}
        /\ \A h \in IOThreads : h # g => ipc'[h] = ipc[h]
    BY <1>0, <1>36 DEF IOTerminate, TypeOK, IOOK, IOThreads
  <2>3. QuietBlocks
    BY <2>1, <2>a DEF QuietBlocks, Carrying, Waiting
  <2>4. QuietCopies
    BY <2>1, <2>a DEF QuietCopies, Copies
  <2>5. QuietIO
    BY <2>1, <2>a DEF QuietIO
  <2>6. Quiet /\ UNCHANGED close_file
    BY <2>1, <2>2, <2>3, <2>4, <2>5 DEF Quiet, blockVars
  <2> QED
    BY <1>0, <2>6, QuietStep
<1>37. ASSUME NEW g \in IOThreads, IOClearIO(g) PROVE OrderParts'
  <2>1. UNCHANGED <<block, block_cnt, first_logging, blockVars, io_queue, fileVars, log, pc, closing,
                    holder, cpc, cblk, new_block, pending, idata>>
    BY <1>37 DEF IOClearIO, chanVars, closeVars, blockVars, ringVars, queueVars, compVars, ioVars,
       fileVars, exitVars, histVars
  <2>2. QuietChans
    BY <2>1, SamePlaces DEF QuietChans, Flushed
  <2>a. /\ ipc[g] \in {"test", "test2", "pop", "term", "clear_io", "clear_comp"} /\ ipc'[g] \notin {"writeraw", "writecomp", "unpark"}
        /\ \A h \in IOThreads : h # g => ipc'[h] = ipc[h]
    BY <1>0, <1>37 DEF IOClearIO, TypeOK, IOOK, IOThreads
  <2>3. QuietBlocks
    BY <2>1, <2>a DEF QuietBlocks, Carrying, Waiting
  <2>4. QuietCopies
    BY <2>1, <2>a DEF QuietCopies, Copies
  <2>5. QuietIO
    BY <2>1, <2>a DEF QuietIO
  <2>6. Quiet /\ UNCHANGED close_file
    BY <2>1, <2>2, <2>3, <2>4, <2>5 DEF Quiet, blockVars
  <2> QED
    BY <1>0, <2>6, QuietStep
<1>38. ASSUME NEW g \in IOThreads, IOClearComp(g) PROVE OrderParts'
  <2>1. UNCHANGED <<block, block_cnt, first_logging, blockVars, io_queue, fileVars, log, pc, closing,
                    holder, cpc, cblk, new_block, pending, idata>>
    BY <1>38 DEF IOClearComp, chanVars, closeVars, blockVars, ringVars, queueVars, compVars, ioVars,
       fileVars, exitVars, histVars
  <2>2. QuietChans
    BY <2>1, SamePlaces DEF QuietChans, Flushed
  <2>a. /\ ipc[g] \in {"test", "test2", "pop", "term", "clear_io", "clear_comp"} /\ ipc'[g] \notin {"writeraw", "writecomp", "unpark"}
        /\ \A h \in IOThreads : h # g => ipc'[h] = ipc[h]
    BY <1>0, <1>38 DEF IOClearComp, TypeOK, IOOK, IOThreads
  <2>3. QuietBlocks
    BY <2>1, <2>a DEF QuietBlocks, Carrying, Waiting
  <2>4. QuietCopies
    BY <2>1, <2>a DEF QuietCopies, Copies
  <2>5. QuietIO
    BY <2>1, <2>a DEF QuietIO
  <2>6. Quiet /\ UNCHANGED close_file
    BY <2>1, <2>2, <2>3, <2>4, <2>5 DEF Quiet, blockVars
  <2> QED
    BY <1>0, <2>6, QuietStep
<1>39. ASSUME NormalExit PROVE OrderParts'
  <2>1. UNCHANGED <<block, block_cnt, first_logging, blockVars, io_queue, fileVars, log, pc, closing,
                    holder, cpc, cblk, new_block, pending, ipc, idata>>
    BY <1>39 DEF NormalExit, chanVars, closeVars, blockVars, ringVars, queueVars, compVars, ioVars,
       fileVars, exitVars, histVars
  <2>2. QuietChans
    BY <2>1, SamePlaces DEF QuietChans, Flushed
  <2>3. QuietBlocks
    BY <2>1, SamePlaces DEF QuietBlocks
  <2>4. QuietCopies
    BY <2>1, SamePlaces DEF QuietCopies
  <2>5. QuietIO
    BY <2>1 DEF QuietIO
  <2>6. Quiet /\ UNCHANGED close_file
    BY <2>1, <2>2, <2>3, <2>4, <2>5 DEF Quiet, blockVars
  <2> QED
    BY <1>0, <2>6, QuietStep
<1>40. ASSUME Signal PROVE OrderParts'
  <2>1. UNCHANGED <<block, block_cnt, first_logging, blockVars, io_queue, fileVars, log, pc, closing,
                    holder, cpc, cblk, new_block, pending, ipc, idata>>
    BY <1>40 DEF Signal, chanVars, closeVars, blockVars, ringVars, queueVars, compVars, ioVars, fileVars,
       exitVars, histVars
  <2>2. QuietChans
    BY <2>1, SamePlaces DEF QuietChans, Flushed
  <2>3. QuietBlocks
    BY <2>1, SamePlaces DEF QuietBlocks
  <2>4. QuietCopies
    BY <2>1, SamePlaces DEF QuietCopies
  <2>5. QuietIO
    BY <2>1 DEF QuietIO
  <2>6. Quiet /\ UNCHANGED close_file
    BY <2>1, <2>2, <2>3, <2>4, <2>5 DEF Quiet, blockVars
  <2> QED
    BY <1>0, <2>6, QuietStep
<1>41. ASSUME NEW c \in Chans, ExitClose(c) PROVE OrderParts'
  <2>1. UNCHANGED <<block, block_cnt, first_logging, blockVars, io_queue, fileVars, log, pc, holder, cpc,
                    cblk, new_block, pending, ipc, idata>>
    BY <1>41 DEF ExitClose, CloseExchange, chanVars, closeVars, blockVars, ringVars, queueVars, compVars,
       ioVars, fileVars, exitVars, histVars
  <2>2. QuietChans
    BY <1>0, <1>41, <2>1 DEF ExitClose, CloseExchange, TypeOK, ChanOK, CallsApart, ClosureHolds,
       QuietChans, FirstDue, Flushed
  <2>3. QuietBlocks
    BY <2>1, SamePlaces DEF QuietBlocks
  <2>4. QuietCopies
    BY <2>1, SamePlaces DEF QuietCopies
  <2>5. QuietIO
    BY <2>1 DEF QuietIO
  <2>6. Quiet /\ UNCHANGED close_file
    BY <2>1, <2>2, <2>3, <2>4, <2>5 DEF Quiet, blockVars
  <2> QED
    BY <1>0, <2>6, QuietStep
<1>42. ASSUME ExitClosed PROVE OrderParts'
  <2>1. UNCHANGED <<block, block_cnt, first_logging, blockVars, io_queue, fileVars, log, pc, closing,
                    holder, cpc, cblk, new_block, pending, ipc, idata>>
    BY <1>42 DEF ExitClosed, chanVars, closeVars, blockVars, ringVars, queueVars, compVars, ioVars,
       fileVars, exitVars, histVars
  <2>2. QuietChans
    BY <2>1, SamePlaces DEF QuietChans, Flushed
  <2>3. QuietBlocks
    BY <2>1, SamePlaces DEF QuietBlocks
  <2>4. QuietCopies
    BY <2>1, SamePlaces DEF QuietCopies
  <2>5. QuietIO
    BY <2>1 DEF QuietIO
  <2>6. Quiet /\ UNCHANGED close_file
    BY <2>1, <2>2, <2>3, <2>4, <2>5 DEF Quiet, blockVars
  <2> QED
    BY <1>0, <2>6, QuietStep
<1>43. ASSUME ExitCheck PROVE OrderParts'
  <2>1. UNCHANGED <<block, block_cnt, first_logging, blockVars, io_queue, fileVars, log, pc, closing,
                    holder, cpc, cblk, new_block, pending, ipc, idata>>
    BY <1>43 DEF ExitCheck, chanVars, closeVars, blockVars, ringVars, queueVars, compVars, ioVars,
       fileVars, exitVars, histVars
  <2>2. QuietChans
    BY <2>1, SamePlaces DEF QuietChans, Flushed
  <2>3. QuietBlocks
    BY <2>1, SamePlaces DEF QuietBlocks
  <2>4. QuietCopies
    BY <2>1, SamePlaces DEF QuietCopies
  <2>5. QuietIO
    BY <2>1 DEF QuietIO
  <2>6. Quiet /\ UNCHANGED close_file
    BY <2>1, <2>2, <2>3, <2>4, <2>5 DEF Quiet, blockVars
  <2> QED
    BY <1>0, <2>6, QuietStep
<1>44. ASSUME ExitLoad PROVE OrderParts'
  <2>1. UNCHANGED <<block, block_cnt, first_logging, blockVars, io_queue, fileVars, log, pc, closing,
                    holder, cpc, cblk, new_block, pending, ipc, idata>>
    BY <1>44 DEF ExitLoad, chanVars, closeVars, blockVars, ringVars, queueVars, compVars, ioVars,
       fileVars, exitVars, histVars
  <2>2. QuietChans
    BY <2>1, SamePlaces DEF QuietChans, Flushed
  <2>3. QuietBlocks
    BY <2>1, SamePlaces DEF QuietBlocks
  <2>4. QuietCopies
    BY <2>1, SamePlaces DEF QuietCopies
  <2>5. QuietIO
    BY <2>1 DEF QuietIO
  <2>6. Quiet /\ UNCHANGED close_file
    BY <2>1, <2>2, <2>3, <2>4, <2>5 DEF Quiet, blockVars
  <2> QED
    BY <1>0, <2>6, QuietStep
<1>45. ASSUME ExitJoin PROVE OrderParts'
  <2>1. UNCHANGED <<block, block_cnt, first_logging, blockVars, io_queue, fileVars, log, pc, closing,
                    holder, cpc, cblk, new_block, pending, ipc, idata>>
    BY <1>45 DEF ExitJoin, chanVars, closeVars, blockVars, ringVars, queueVars, compVars, ioVars,
       fileVars, exitVars, histVars
  <2>2. QuietChans
    BY <2>1, SamePlaces DEF QuietChans, Flushed
  <2>3. QuietBlocks
    BY <2>1, SamePlaces DEF QuietBlocks
  <2>4. QuietCopies
    BY <2>1, SamePlaces DEF QuietCopies
  <2>5. QuietIO
    BY <2>1 DEF QuietIO
  <2>6. Quiet /\ UNCHANGED close_file
    BY <2>1, <2>2, <2>3, <2>4, <2>5 DEF Quiet, blockVars
  <2> QED
    BY <1>0, <2>6, QuietStep
<1>46. CASE UNCHANGED vars
  <2>1. UNCHANGED <<block, block_cnt, first_logging, blockVars, io_queue, fileVars, log, pc, closing,
                    holder, cpc,
                    cblk, new_block, pending, ipc, idata>>
    BY <1>46 DEF vars, chanVars, closeVars, blockVars, ringVars, queueVars, compVars, ioVars, fileVars,
       exitVars, histVars
  <2>2. QuietChans
    BY <2>1, SamePlaces DEF QuietChans, Flushed
  <2>3. QuietBlocks
    BY <2>1, SamePlaces DEF QuietBlocks
  <2>4. QuietCopies
    BY <2>1, SamePlaces DEF QuietCopies
  <2>5. QuietIO
    BY <2>1 DEF QuietIO
  <2>6. Quiet /\ UNCHANGED close_file
    BY <2>1, <2>2, <2>3, <2>4, <2>5 DEF Quiet, blockVars
  <2> QED
    BY <1>0, <2>6, QuietStep
<1> QED
  BY <1>1, <1>2, <1>3, <1>4, <1>5, <1>6, <1>7, <1>8, <1>9, <1>10, <1>11, <1>12, <1>13, <1>14,
     <1>15, <1>16, <1>17, <1>18, <1>19, <1>20, <1>21, <1>22, <1>23, <1>24, <1>25, <1>26, <1>27,
     <1>28, <1>29, <1>30, <1>31, <1>32, <1>33, <1>34, <1>35, <1>36, <1>37, <1>38, <1>39, <1>40,
     <1>41, <1>42, <1>43, <1>44, <1>45, <1>46 DEF Next, Request, CallStep, CloseStep,
     CompStep, IOStep, ExitRequest, ExitStep, Terminated

\* At the start the files, the logs and the queues are empty.
LEMMA OrderInit == Init => OrderInv
<1> SUFFICES ASSUME Init PROVE OrderInv
  OBVIOUS
<1>1. /\ \A c \in Chans : /\ pc[c] = "new" /\ closing[c] = "no" /\ file[c] = <<>> /\ log[c] = <<>>
                          /\ ch_logf[c] = "none" /\ next_block[c] = 0 /\ first_logging[c] /\ pending[c] = <<>>
      /\ \A b \in Blocks : holder[b] = "none" /\ data[b] = <<>> /\ ~close_file[b]
      /\ \A t \in CompThreads : cpc[t] = "unborn"
      /\ \A g \in IOThreads : ipc[g] = "unborn"
      /\ io_queue = <<>>
  BY DEF Init
<1>2. \A c \in Chans : pc[c] \in Opening /\ ~ClosureHolds(c) /\ Enqueued(c) = 0 /\ Done(c) <= 0
  BY <1>1 DEF Opening, ClosureHolds, Enqueued, Done, Direct
<1>3. LogShape /\ ClosureBlock /\ BlocksEmpty /\ MarkedLast /\ ParkedRight /\ OneIO
  BY <1>1, <1>2 DEF LogShape, ClosureBlock, BlocksEmpty, MarkedLast, ParkedRight, OneIO, Busy
<1>4. BlocksFull
  BY <1>1 DEF BlocksFull, Carrying
<1>5. CopiesRight
  BY <1>1 DEF CopiesRight, Copies
<1>6. FileRight /\ RawOrder
  BY <1>1, <1>2 DEF FileRight, FileAt, RawOrder
<1> QED
  BY <1>3, <1>4, <1>5, <1>6, HolderInit DEF OrderInv, OrderParts

\* The invariant has what the two properties say.
LEMMA OrderShows == OrderInv => LogInOrder /\ ClosedIsComplete
<1> SUFFICES ASSUME OrderInv PROVE LogInOrder /\ ClosedIsComplete
  OBVIOUS
<1>0. TypeOK /\ LogShape /\ FileRight
  BY DEF OrderInv, OrderParts, HolderInv
<1>1. ClosedIsComplete
  BY <1>0 DEF FileRight, FileAt, ClosedIsComplete
<1>2. ASSUME NEW c \in Chans
      PROVE  Len(file[c]) <= Len(log[c]) /\ \A i \in 1..Len(file[c]) : file[c][i] = log[c][i]
  <2>1. FileAt(c)
    BY <1>0 DEF FileRight
  <2>2. /\ Enqueued(c) \in Nat /\ Direct(c) \in {0, 1} /\ Len(log[c]) \in Nat /\ Len(file[c]) \in Nat
        /\ block_cnt[c] \in Nat
    BY <1>0, CountFacts
  <2>3. CASE pc[c] \in Opening \/ FirstDue(c)
    <3>1. file[c] = <<>>
      BY <1>0, <2>3 DEF LogShape
    <3> QED
      BY <2>1, <2>2, <3>1 DEF FileAt
  <2>4. CASE pc[c] \notin Opening /\ ~FirstDue(c)
    <3>1. Len(log[c]) = block_cnt[c] + Direct(c) /\ Enqueued(c) <= block_cnt[c]
      BY <1>0, <2>4, CountFacts DEF LogShape
    <3>2. Len(file[c]) - Direct(c) <= Enqueued(c)
      BY <2>1, <2>4 DEF FileAt, Done
    <3>3. Len(file[c]) <= Len(log[c])
      BY <2>2, <3>1, <3>2
    <3> QED
      BY <2>1, <3>3 DEF FileAt
  <2> QED
    BY <2>3, <2>4
<1> QED
  BY <1>1, <1>2 DEF LogInOrder

\* The invariant is kept by every step.
LEMMA OrderKept ==
  ASSUME "async_exit" \notin Races, PushesApart
  PROVE  OrderInv /\ [Next]_vars => OrderInv'
<1> SUFFICES ASSUME OrderInv, [Next]_vars PROVE OrderInv'
  OBVIOUS
<1>1. HolderInv /\ OneIO /\ TypeOK /\ Unborn
  BY DEF OrderInv, HolderInv
<1>2. HolderInv'
  BY <1>1, HolderStep
<1>3. OneIO'
  BY <1>1, OneIOStep
<1>4. OrderParts'
  BY OrderStep
<1> QED
  BY <1>2, <1>3, <1>4 DEF OrderInv

\* A log file is a prefix of what was logged on its channel: no tuple is lost from the
\* middle, repeated, mangled or out of order, though the blocks are reused, compressed by
\* several threads and overtake one another on the way (writeCompressedBlock,
\* writeUncompressedBlock).  It holds for every number of channels, threads, blocks and
\* places in the queues, with a full IO queue that drops copies included.
THEOREM FilesInOrder ==
  ASSUME "async_exit" \notin Races, PushesApart
  PROVE  Spec => []LogInOrder
<1>1. Init => OrderInv
  BY OrderInit
<1>2. OrderInv /\ [Next]_vars => OrderInv'
  BY OrderKept
<1>3. OrderInv => LogInOrder
  BY OrderShows
<1> QED
  BY <1>1, <1>2, <1>3, PTL DEF Spec

\* A log file that the IO thread has closed has all that was logged on its channel: the
\* block that closeChannel marks is the last to be written (close_file in block_data).
THEOREM ClosedComplete ==
  ASSUME "async_exit" \notin Races, PushesApart
  PROVE  Spec => []ClosedIsComplete
<1>1. Init => OrderInv
  BY OrderInit
<1>2. OrderInv /\ [Next]_vars => OrderInv'
  BY OrderKept
<1>3. OrderInv => ClosedIsComplete
  BY OrderShows
<1> QED
  BY <1>1, <1>2, <1>3, PTL DEF Spec

\* A file is never rewritten: it stays or gets one chunk more at its end.
GrowsAt(c) ==
  \/ file'[c] = file[c]
  \/ /\ ch_logf[c] = "open"
     /\ \E chunk \in Seq(Nat) : file'[c] = Append(file[c], chunk)

\* Once it is closed, nothing of the channel changes any more.
StaysClosed(c) ==
  ch_logf[c] = "closed" => ch_logf'[c] = "closed" /\ file'[c] = file[c] /\ log'[c] = log[c]

FilesOnlyGrow == [][\A c \in Chans : GrowsAt(c) /\ StaysClosed(c)]_vars

\* What a caller logs goes to a channel that nobody has begun to close.
LEMMA LogSteps ==
  ASSUME OrderInv, [Next]_vars, NEW c \in Chans
  PROVE  log'[c] = log[c] \/ closing[c] = "no"
<1>0. HolderInv /\ TypeOK /\ CallsApart
  BY DEF OrderInv, HolderInv
<1>1. ASSUME NEW d \in Chans, Request(d) PROVE log' = log
  BY <1>1 DEF Request, OpenChannel, LogTS, CloseChannel, CloseExchange, histVars
<1>2. ASSUME NEW d \in Chans, CallStep(d)
      PROVE  log' = log \/ (pc[d] # "idle" /\ \A e \in Chans : e # d => log'[e] = log[e])
  <2>1. CASE OpenIOThread(d) \/ OpenIOStore(d) \/ OpenCountComp(d) \/ OpenCompThreads(d) \/ EnqueueFull(d)
    BY <2>1 DEF OpenIOThread, OpenIOStore, OpenCountComp, OpenCompThreads, EnqueueFull, histVars
  <2>2. CASE OpenDone(d) \/ WriteFirst(d) \/ WriteOnBlock(d) \/ DequeueEmpty(d)
    BY <1>0, <2>2 DEF OpenDone, WriteFirst, WriteOnBlock, DequeueEmpty, RecordTuple, TypeOK, HistOK
  <2> QED
    BY <1>2, <2>1, <2>2 DEF CallStep
<1>3. ASSUME NEW d \in Chans, CloseStep(d) PROVE log' = log
  BY <1>3 DEF CloseStep, CloseMark, CloseEnqueue, CloseDecComp, CloseDec, histVars
<1>4. ASSUME NEW t \in CompThreads, CompStep(t) PROVE log' = log
  BY <1>4 DEF CompStep, CompPop, CompLeaveLoop, CompDrained, CompStop, CompressBlock, SendBackLoad,
     SendBackStore, CompPush, histVars
<1>5. ASSUME NEW g \in IOThreads, IOStep(g) PROVE log' = log
  BY <1>5 DEF IOStep, IOTest, IOLoopTest, IOTestLeft, IOTestRight, IOPop, IOEmpty, WriteUncompressed,
     SendBackUncompressed, ParkCompressed, WriteCompressed, UnparkCompressed, UnparkDone, IOTerminate,
     IOClearIO, IOClearComp, histVars
<1>6. ASSUME ExitRequest \/ ExitStep PROVE log' = log
  BY <1>6 DEF ExitRequest, NormalExit, Signal, ExitStep, ExitClose, CloseExchange, ExitClosed, ExitCheck,
     ExitLoad, ExitJoin, histVars
<1>7. ASSUME UNCHANGED vars PROVE log' = log
  BY <1>7 DEF vars, histVars
<1>8. log' = log \/ \E d \in Chans : CallStep(d)
  BY <1>1, <1>3, <1>4, <1>5, <1>6, <1>7 DEF Next, Terminated
<1> QED
  BY <1>0, <1>2, <1>8 DEF CallsApart

\* The caller of a TSC channel and the IO thread write files, each by one chunk.
LEMMA FileSteps ==
  ASSUME TypeOK, [Next]_vars, NEW c \in Chans
  PROVE  GrowsAt(c) /\ (ch_logf[c] = "closed" => ch_logf'[c] = "closed" \/ pc[c] \in Opening)
<1>1. ASSUME NEW d \in Chans, NEW s \in Seq(Nat), file' = [file EXCEPT ![d] = Written(d, s)]
      PROVE  GrowsAt(c)
  BY <1>1 DEF GrowsAt, Written, TypeOK, FileOK
<1>2. ASSUME NEW d \in Chans, NEW close \in BOOLEAN, closeLogFile(d, close)
      PROVE  ch_logf[c] = "closed" => ch_logf'[c] = "closed"
  BY <1>2 DEF closeLogFile, TypeOK, FileOK
<1>3. ASSUME NEW d \in Chans, Request(d) \/ CloseStep(d) PROVE UNCHANGED <<file, ch_logf>>
  BY <1>3 DEF Request, OpenChannel, LogTS, CloseChannel, CloseExchange, CloseStep, CloseMark, CloseEnqueue,
     CloseDecComp, CloseDec, fileVars
<1>4. ASSUME NEW d \in Chans, CallStep(d) PROVE GrowsAt(c) /\ (ch_logf'[c] = ch_logf[c] \/ pc[c] \in Opening)
  <2>1. CASE \/ OpenIOThread(d) \/ OpenIOStore(d) \/ OpenCountComp(d) \/ OpenCompThreads(d)
             \/ EnqueueFull(d) \/ WriteOnBlock(d) \/ DequeueEmpty(d)
    BY <2>1 DEF OpenIOThread, OpenIOStore, OpenCountComp, OpenCompThreads, EnqueueFull, WriteOnBlock,
       DequeueEmpty, fileVars, GrowsAt
  <2>2. CASE OpenDone(d)
    BY <2>2 DEF OpenDone, openLogFile, GrowsAt, TypeOK, FileOK, Opening
  <2>3. CASE WriteFirst(d)
    <3>1. <<logged[d] + 1>> \in Seq(Nat)
      BY DEF TypeOK, HistOK
    <3>2. file' = [file EXCEPT ![d] = Written(d, <<logged[d] + 1>>)] /\ ch_logf' = ch_logf
      BY <2>3 DEF WriteFirst
    <3> QED
      BY <1>1, <3>1, <3>2
  <2> QED
    BY <1>4, <2>1, <2>2, <2>3 DEF CallStep
<1>5. ASSUME NEW t \in CompThreads, CompStep(t) PROVE UNCHANGED <<file, ch_logf>>
  BY <1>5 DEF CompStep, CompPop, CompLeaveLoop, CompDrained, CompStop, CompressBlock, SendBackLoad,
     SendBackStore, CompPush, fileVars
<1>6. ASSUME NEW g \in IOThreads, IOStep(g)
      PROVE  GrowsAt(c) /\ (ch_logf[c] = "closed" => ch_logf'[c] = "closed")
  <2>1. CASE \/ IOTest(g) \/ IOTestLeft(g) \/ IOTestRight(g) \/ IOPop(g) \/ IOEmpty(g)
             \/ SendBackUncompressed(g) \/ ParkCompressed(g) \/ IOTerminate(g) \/ IOClearIO(g) \/ IOClearComp(g)
    BY <2>1 DEF IOTest, IOLoopTest, IOTestLeft, IOTestRight, IOPop, IOEmpty, SendBackUncompressed,
       ParkCompressed, IOTerminate, IOClearIO, IOClearComp, fileVars, GrowsAt
  <2>2. CASE WriteUncompressed(g)
    <3>1. /\ idata[g].ch \in Chans /\ idata[g].blk \in Blocks /\ data[idata[g].blk] \in Seq(Nat)
          /\ close_file[idata[g].blk] \in BOOLEAN
      BY <2>2, ItemFacts, BlockFacts DEF WriteUncompressed, TypeOK, IOOK, BlockOK
    <3> QED
      BY <1>1, <1>2, <2>2, <3>1 DEF WriteUncompressed
  <2>3. CASE WriteCompressed(g)
    <3>1. idata[g].ch \in Chans /\ idata[g].data \in Seq(Nat)
      BY <2>3, ItemFacts DEF WriteCompressed, TypeOK, IOOK
    <3> QED
      BY <1>1, <2>3, <3>1 DEF WriteCompressed
  <2>4. CASE UnparkCompressed(g)
    <3>1. PICK d \in Chans : d = idata[g].ch
      BY <2>4, ItemFacts DEF UnparkCompressed, TypeOK, IOOK
    <3>2. PICK i \in DOMAIN pending[d] : /\ file' = [file EXCEPT ![d] = Written(d, pending[d][i].data)]
                                         /\ closeLogFile(d, pending[d][i].close_file)
      BY <2>4, <3>1 DEF UnparkCompressed
    <3>3. pending[d][i] \in Item
      BY DEF TypeOK, FileOK
    <3> QED
      BY <1>1, <1>2, <3>2, <3>3, ItemFacts
  <2>5. CASE UnparkDone(g)
    <3>1. idata[g].ch \in Chans /\ idata[g].close_file \in BOOLEAN
      BY <2>5, ItemFacts DEF UnparkDone, TypeOK, IOOK
    <3> QED
      BY <1>2, <2>5, <3>1 DEF UnparkDone, GrowsAt
  <2> QED
    BY <1>6, <2>1, <2>2, <2>3, <2>4, <2>5 DEF IOStep
<1>7. CASE ExitRequest \/ ExitStep
  BY <1>7 DEF ExitRequest, NormalExit, Signal, ExitStep, ExitClose, CloseExchange, ExitClosed, ExitCheck,
     ExitLoad, ExitJoin, fileVars, GrowsAt
<1>8. CASE UNCHANGED vars
  BY <1>8 DEF vars, fileVars, GrowsAt
<1> QED
  BY <1>3, <1>4, <1>5, <1>6, <1>7, <1>8 DEF Next, Terminated, GrowsAt

\* A step leaves a file or makes it longer, and leaves it once it is closed.
LEMMA GrowStep ==
  ASSUME OrderInv, [Next]_vars, NEW c \in Chans
  PROVE  GrowsAt(c) /\ StaysClosed(c)
<1>0. TypeOK /\ LogShape /\ FileRight
  BY DEF OrderInv, OrderParts, HolderInv
<1>1. GrowsAt(c) /\ (ch_logf[c] = "closed" => ch_logf'[c] = "closed" \/ pc[c] \in Opening)
  BY <1>0, FileSteps
<1>2. ch_logf[c] = "closed" => pc[c] \notin Opening /\ closing[c] # "no"
  BY <1>0 DEF LogShape, FileRight, FileAt, Flushed
<1>3. log'[c] = log[c] \/ closing[c] = "no"
  BY LogSteps
<1> QED
  BY <1>1, <1>2, <1>3 DEF GrowsAt, StaysClosed

\* No step rewrites a file: a step leaves it or adds one chunk at its end while it is
\* open, and once the IO thread has closed it neither the file nor the log of its channel
\* changes again, so that no logTS comes after the close and no block after the last one.
THEOREM FilesGrow ==
  ASSUME "async_exit" \notin Races, PushesApart
  PROVE  Spec => FilesOnlyGrow
<1>1. Init => OrderInv
  BY OrderInit
<1>2. OrderInv /\ [Next]_vars => OrderInv'
  BY OrderKept
<1>3. OrderInv /\ [Next]_vars => [\A c \in Chans : GrowsAt(c) /\ StaysClosed(c)]_vars
  BY GrowStep
<1> QED
  BY <1>1, <1>2, <1>3, PTL DEF Spec, FilesOnlyGrow
=============================================================================
