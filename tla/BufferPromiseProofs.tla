------------------------ MODULE BufferPromiseProofs ------------------------
(***************************************************************************)
(* What is proved of the promises of BufferPipeline to those who log.      *)
(*                                                                         *)
(* The pipeline implements DurableLog, for every set of channels, every    *)
(* number of threads and every queue size, under the hypotheses of         *)
(* BlockHeldOnce: OrderInv relates a file to the chunks of the log, and    *)
(* LogRuns the chunks to the tuples.                                       *)
(*                                                                         *)
(* The cleanup handlers lose no tuple, for every finite set of channels,   *)
(* if the application is well behaved and its channels are of one kind,    *)
(* uncompressed or compressed.  The argument counts.  num_buf_ch and       *)
(* num_buf_comp_ch are the numbers of channels that have not been closed,  *)
(* stop_io_thread that of the compression threads that have ended.  A      *)
(* compression thread that finds no channel left finds every block of      *)
(* every channel in its queue or beyond, and the IO thread that finds      *)
(* every compression thread ended (or no channel left) finds the blocks    *)
(* that remain in its own queue.                                           *)
(***************************************************************************)
EXTENDS BufferPipelineProofs, MCBufferPipeline, SequenceFacts

-----------------------------------------------------------------------------
(* The pipeline implements DurableLog.  The mapping forgets the chunks:     *)
(* what was logged on a channel, chunk after chunk, is 1, 2, 3 and so on.   *)

\* The first numbers.
Numbers(n) == [i \in 1 .. n |-> i]

\* The chunks of a log are a cut of what was logged, and nothing is logged before the
\* channel is open, nor before the tuple that the caller of a TSC channel writes itself.
LogRuns ==
  \A c \in Chans :
    /\ FlattenSeq(log[c]) = Numbers(logged[c])
    /\ pc[c] \in Opening \/ FirstDue(c) => logged[c] = 0

PromiseInv == OrderInv /\ LogRuns

\* Numbers as a sequence.
LEMMA NumbersFacts ==
  ASSUME NEW n \in Nat
  PROVE  /\ Numbers(n) \in Seq(Nat) /\ Len(Numbers(n)) = n
         /\ \A i \in 1 .. n : Numbers(n)[i] = i
         /\ Numbers(n + 1) = Append(Numbers(n), n + 1)
         /\ Numbers(n + 1) = Numbers(n) \o <<n + 1>>
         /\ Numbers(0) = <<>>
<1>1. \A k \in Nat : /\ Numbers(k) \in Seq(Nat) /\ Len(Numbers(k)) = k
                     /\ \A i \in 1 .. k : Numbers(k)[i] = i
  BY DEF Numbers
<1>2. /\ Append(Numbers(n), n + 1) \in Seq(Nat) /\ Len(Append(Numbers(n), n + 1)) = n + 1
      /\ \A i \in 1 .. n + 1 : Append(Numbers(n), n + 1)[i] = i
  BY <1>1
<1>3. Numbers(n + 1) = Append(Numbers(n), n + 1)
  BY <1>1, <1>2, SeqEqual
<1>4. Append(Numbers(n), n + 1) = Numbers(n) \o <<n + 1>>
  BY <1>1, AppendIsConcat
<1>5. Numbers(0) = <<>>
  <2>1. Numbers(0) \in Seq(Nat) /\ Len(Numbers(0)) = 0
    BY <1>1
  <2> QED
    BY <2>1
<1> QED
  BY <1>1, <1>3, <1>4, <1>5

\* A prefix of them.
LEMMA NumbersPrefix ==
  ASSUME NEW n \in Nat, NEW q \in Seq(Nat), NEW r \in Seq(Nat), Numbers(n) = q \o r
  PROVE  Len(q) <= n /\ q = Numbers(Len(q)) /\ q = SubSeq(Numbers(n), 1, Len(q))
<1>1. PICK k \in Nat, l \in Nat : k = Len(q) /\ l = Len(r)
  OBVIOUS
<1>2. n = k + l /\ \A i \in 1 .. k : (q \o r)[i] = q[i]
  <2>1. Len(q \o r) = k + l /\ \A i \in 1 .. k + l : (q \o r)[i] = IF i <= k THEN q[i] ELSE r[i - k]
    BY <1>1, ConcatProperties
  <2>2. Len(Numbers(n)) = n
    BY NumbersFacts
  <2> QED
    BY <1>1, <2>1, <2>2
<1>3. \A i \in 1 .. k : q[i] = i
  <2>1. \A i \in 1 .. k : i \in 1 .. n
    BY <1>2
  <2>2. \A i \in 1 .. n : Numbers(n)[i] = i
    BY NumbersFacts
  <2> QED
    BY <1>2, <2>1, <2>2
<1>4. q = Numbers(k)
  <2>1. PICK s \in Seq(Nat) : s = Numbers(k) /\ Len(s) = k /\ \A i \in 1 .. k : s[i] = i
    BY NumbersFacts
  <2> QED
    BY <1>1, <1>3, <2>1, SeqEqual
<1>5. q = SubSeq(Numbers(n), 1, k)
  <2>1. PICK s \in Seq(Nat) : s = Numbers(n) /\ Len(s) = n /\ \A i \in 1 .. n : s[i] = i
    BY NumbersFacts
  <2>2. /\ SubSeq(s, 1, k) \in Seq(Nat) /\ Len(SubSeq(s, 1, k)) = k
        /\ \A i \in 1 .. k : SubSeq(s, 1, k)[i] = i
    BY <1>1, <1>2, <2>1
  <2> QED
    BY <1>1, <1>3, <2>1, <2>2, SeqEqual
<1> QED
  BY <1>1, <1>2, <1>4, <1>5

\* Steps that log nothing, and that take no channel back to openChannel.
Unlogged ==
  /\ UNCHANGED <<log, logged, first_logging>>
  /\ \A c \in Chans : pc'[c] \in Opening => pc[c] \in Opening

\* What is logged is logged by the caller.
LEMMA LoggingSteps ==
  ASSUME TypeOK, [Next]_vars
  PROVE  \/ Unlogged
         \/ \E d \in Chans : OpenDone(d) \/ WriteFirst(d) \/ WriteOnBlock(d) \/ DequeueEmpty(d)
<1>0. DOMAIN pc = Chans
  BY DEF TypeOK, ChanOK
<1>1. ASSUME NEW d \in Chans, Request(d) PROVE Unlogged
  BY <1>0, <1>1 DEF Request, OpenChannel, LogTS, CloseChannel, CloseExchange, histVars, Unlogged, Opening
<1>2. ASSUME NEW d \in Chans, OpenIOThread(d) \/ OpenIOStore(d) \/ OpenCountComp(d) \/ OpenCompThreads(d)
                              \/ EnqueueFull(d)
      PROVE  Unlogged
  BY <1>0, <1>2 DEF OpenIOThread, OpenIOStore, OpenCountComp, OpenCompThreads, EnqueueFull, histVars,
     Unlogged, Opening
<1>3. ASSUME NEW d \in Chans, CloseStep(d) PROVE Unlogged
  BY <1>3 DEF CloseStep, CloseMark, CloseEnqueue, CloseDecComp, CloseDec, histVars, chanVars, Unlogged
<1>4. ASSUME NEW t \in CompThreads, CompStep(t) PROVE Unlogged
  BY <1>4 DEF CompStep, CompPop, CompLeaveLoop, CompDrained, CompStop, CompressBlock, SendBackLoad,
     SendBackStore, CompPush, histVars, chanVars, Unlogged
<1>5. ASSUME NEW g \in IOThreads, IOStep(g) PROVE Unlogged
  BY <1>5 DEF IOStep, IOTest, IOLoopTest, IOTestLeft, IOTestRight, IOPop, IOEmpty, WriteUncompressed,
     SendBackUncompressed, ParkCompressed, WriteCompressed, UnparkCompressed, UnparkDone, IOTerminate,
     IOClearIO, IOClearComp, histVars, chanVars, Unlogged
<1>6. ASSUME ExitRequest \/ ExitStep PROVE Unlogged
  BY <1>6 DEF ExitRequest, NormalExit, Signal, ExitStep, ExitClose, CloseExchange, ExitClosed, ExitCheck,
     ExitLoad, ExitJoin, histVars, chanVars, Unlogged
<1>7. ASSUME UNCHANGED vars PROVE Unlogged
  BY <1>7 DEF vars, histVars, chanVars, Unlogged
<1> QED
  BY <1>1, <1>2, <1>3, <1>4, <1>5, <1>6, <1>7 DEF Next, Terminated, CallStep

\* A step that logs nothing keeps the cut.
LEMMA RunsUnlogged ==
  ASSUME LogRuns, Unlogged PROVE LogRuns'
BY DEF LogRuns, Unlogged, FirstDue

\* So do those that log, or add an empty chunk.
LEMMA RunsLogged ==
  ASSUME OrderInv, LogRuns, NEW d \in Chans,
         OpenDone(d) \/ WriteFirst(d) \/ WriteOnBlock(d) \/ DequeueEmpty(d)
  PROVE  LogRuns'
<1>0. TypeOK /\ LogShape
  BY DEF OrderInv, OrderParts, HolderInv
<1>1. /\ log \in [Chans -> Seq(Seq(Nat))] /\ logged \in [Chans -> Nat]
      /\ DOMAIN pc = Chans /\ DOMAIN first_logging = Chans
  BY <1>0 DEF TypeOK, HistOK, ChanOK
<1>2. PICK n \in Nat : n = logged[d]
  BY <1>1
<1>3. PICK q \in Seq(Seq(Nat)) : q = log[d]
  BY <1>1
<1>4. FlattenSeq(q) = Numbers(n) /\ FlattenSeq(q) \in Seq(Nat)
  BY <1>2, <1>3, NumbersFacts DEF LogRuns
<1>5. ASSUME NEW e \in Chans, e # d
      PROVE  /\ log'[e] = log[e] /\ logged'[e] = logged[e] /\ pc'[e] = pc[e]
             /\ first_logging'[e] = first_logging[e]
  BY <1>1, <1>5 DEF OpenDone, WriteFirst, WriteOnBlock, DequeueEmpty, RecordTuple
<1>6. SUFFICES /\ FlattenSeq(log'[d]) = Numbers(logged'[d])
               /\ pc'[d] \in Opening \/ FirstDue(d)' => logged'[d] = 0
  BY <1>5 DEF LogRuns, FirstDue
<1>7. CASE OpenDone(d)
  <2>1. logged[d] = 0 /\ logged' = logged
    BY <1>7 DEF OpenDone, LogRuns, Opening
  <2>2. log'[d] = [i \in 1 .. 1 + Direct(d) |-> <<>>]
    BY <1>1, <1>7 DEF OpenDone
  <2>3. <<>> \in Seq(Nat) /\ <<>> \o <<>> = <<>>
    BY ConcatEmptySeq
  <2>4. FlattenSeq(<<<<>>>>) = <<>> /\ FlattenSeq(<<<<>>, <<>>>>) = <<>>
    BY <2>3, FlattenTwo
  <2>5. log'[d] = <<<<>>>> \/ log'[d] = <<<<>>, <<>>>>
    BY <2>2 DEF Direct
  <2>6. FlattenSeq(log'[d]) = <<>>
    BY <2>4, <2>5
  <2> QED
    BY <2>1, <2>6, NumbersFacts
<1>8. CASE WriteFirst(d)
  <2>1. /\ logged'[d] = n + 1 /\ log'[d] = [q EXCEPT ![1] = Append(@, n + 1)]
        /\ ~FirstDue(d)' /\ pc'[d] \notin Opening
    BY <1>1, <1>2, <1>3, <1>8 DEF WriteFirst, RecordTuple, FirstDue, Opening
  <2>2. FirstDue(d) /\ n = 0 /\ pc[d] \notin Opening
    BY <1>2, <1>8 DEF WriteFirst, FirstDue, LogRuns, Opening
  <2>3. Len(q) = 2 /\ q[1] = <<>>
    <3>1. block_cnt[d] = 1 /\ log[d][1] = <<>> /\ Len(log[d]) = block_cnt[d] + Direct(d)
      BY <1>0, <2>2 DEF LogShape
    <3>2. Direct(d) = 1
      BY <2>2 DEF Direct, FirstDue
    <3> QED
      BY <1>3, <3>1, <3>2
  <2>4. PICK x \in Seq(Nat) : x = q[2]
    BY <2>3
  <2>5. q = <<<<>>, x>>
    BY <2>3, <2>4
  <2>6. <<>> \in Seq(Nat) /\ <<1>> \in Seq(Nat) /\ <<1>> \o <<>> = <<1>> /\ <<>> \o x = x
        /\ <<>> \o <<1>> = <<1>>
    BY ConcatEmptySeq
  <2>7. x = <<>>
    <3>1. FlattenSeq(q) = x
      BY <2>5, <2>6, FlattenTwo
    <3> QED
      BY <1>4, <2>2, <3>1, NumbersFacts
  <2>8. log'[d] = <<<<1>>, <<>>>>
    BY <2>1, <2>2, <2>5, <2>7
  <2>9. FlattenSeq(log'[d]) = <<1>>
    BY <2>6, <2>8, FlattenTwo
  <2>10. Numbers(0 + 1) = <<>> \o <<0 + 1>>
    BY NumbersFacts
  <2> QED
    BY <2>1, <2>2, <2>6, <2>9, <2>10
<1>9. CASE WriteOnBlock(d)
  <2>1. /\ logged'[d] = n + 1 /\ log'[d] = [q EXCEPT ![Len(q)] = Append(@, n + 1)]
        /\ ~FirstDue(d)' /\ pc'[d] \notin Opening
    BY <1>1, <1>2, <1>3, <1>9 DEF WriteOnBlock, RecordTuple, FirstDue, Opening
  <2>2. q # <<>>
    BY <1>0, <1>3, <1>9 DEF TypeOK, HistOK, WriteOnBlock, Opening
  <2>3. FlattenSeq(log'[d]) = FlattenSeq(q) \o <<n + 1>>
    <3>1. PICK m \in Nat : m = n + 1
      OBVIOUS
    <3> QED
      BY <2>1, <2>2, <3>1, FlattenLonger
  <2> QED
    BY <1>4, <2>1, <2>3, NumbersFacts
<1>10. CASE DequeueEmpty(d)
  <2>1. logged' = logged /\ first_logging' = first_logging
        /\ pc[d] = "fetch" /\ pc'[d] \notin Opening
    BY <1>1, <1>10 DEF DequeueEmpty, Opening
  <2>2. log'[d] = q \/ log'[d] = Append(q, <<>>)
    BY <1>1, <1>3, <1>10 DEF DequeueEmpty
  <2>3. FlattenSeq(Append(q, <<>>)) = FlattenSeq(q)
    <3>1. <<>> \in Seq(Nat)
      OBVIOUS
    <3>2. FlattenSeq(Append(q, <<>>)) = FlattenSeq(q) \o <<>>
      BY <3>1, FlattenLast
    <3> QED
      BY <1>4, <3>2, ConcatEmptySeq
  <2>4. FirstDue(d)' => logged[d] = 0
    BY <2>1 DEF FirstDue, LogRuns
  <2> QED
    BY <1>2, <1>4, <2>1, <2>2, <2>3, <2>4
<1> QED
  BY <1>7, <1>8, <1>9, <1>10

\* One channel at a time.
OnlyAt(d) ==
  \A e \in Chans : e # d =>
    file'[e] = file[e] /\ logged'[e] = logged[e] /\ (ch_logf'[e] = "closed" <=> ch_logf[e] = "closed")

\* A step changes the files and the log of one channel at most.
LEMMA OneChannel ==
  ASSUME TypeOK, [Next]_vars
  PROVE  UNCHANGED <<file, logged, ch_logf>> \/ \E d \in Chans : OnlyAt(d)
<1>0. DOMAIN file = Chans /\ DOMAIN ch_logf = Chans /\ DOMAIN logged = Chans
  BY DEF TypeOK, FileOK, HistOK
<1>1. ASSUME NEW d \in Chans, Request(d) \/ CloseStep(d) PROVE UNCHANGED <<file, logged, ch_logf>>
  BY <1>1 DEF Request, OpenChannel, LogTS, CloseChannel, CloseExchange, CloseStep, CloseMark, CloseEnqueue,
     CloseDecComp, CloseDec, fileVars, histVars
<1>2. ASSUME NEW d \in Chans, CallStep(d) PROVE OnlyAt(d)
  <2>1. CASE \/ OpenIOThread(d) \/ OpenIOStore(d) \/ OpenCountComp(d) \/ OpenCompThreads(d)
             \/ EnqueueFull(d) \/ DequeueEmpty(d)
    BY <2>1 DEF OpenIOThread, OpenIOStore, OpenCountComp, OpenCompThreads, EnqueueFull, DequeueEmpty,
       fileVars, histVars, OnlyAt
  <2>2. CASE OpenDone(d)
    BY <1>0, <2>2 DEF OpenDone, openLogFile, OnlyAt
  <2>3. CASE WriteFirst(d) \/ WriteOnBlock(d)
    BY <1>0, <2>3 DEF WriteFirst, WriteOnBlock, RecordTuple, fileVars, OnlyAt
  <2> QED
    BY <1>2, <2>1, <2>2, <2>3 DEF CallStep
<1>3. ASSUME NEW t \in CompThreads, CompStep(t) PROVE UNCHANGED <<file, logged, ch_logf>>
  BY <1>3 DEF CompStep, CompPop, CompLeaveLoop, CompDrained, CompStop, CompressBlock, SendBackLoad,
     SendBackStore, CompPush, fileVars, histVars
<1>4. ASSUME NEW g \in IOThreads, IOStep(g)
      PROVE  UNCHANGED <<file, logged, ch_logf>> \/ \E d \in Chans : OnlyAt(d)
  <2>1. CASE \/ IOTest(g) \/ IOTestLeft(g) \/ IOTestRight(g) \/ IOPop(g) \/ IOEmpty(g)
             \/ SendBackUncompressed(g) \/ ParkCompressed(g) \/ IOTerminate(g) \/ IOClearIO(g) \/ IOClearComp(g)
    BY <2>1 DEF IOTest, IOLoopTest, IOTestLeft, IOTestRight, IOPop, IOEmpty, SendBackUncompressed,
       ParkCompressed, IOTerminate, IOClearIO, IOClearComp, fileVars, histVars
  <2>2. ASSUME WriteUncompressed(g) \/ WriteCompressed(g) \/ UnparkCompressed(g) \/ UnparkDone(g)
        PROVE  OnlyAt(idata[g].ch)
    BY <1>0, <2>2 DEF WriteUncompressed, WriteCompressed, UnparkCompressed, UnparkDone, closeLogFile,
       histVars, OnlyAt
  <2>3. ASSUME WriteUncompressed(g) \/ WriteCompressed(g) \/ UnparkCompressed(g) \/ UnparkDone(g)
        PROVE  idata[g].ch \in Chans
    BY <2>3, ItemFacts DEF WriteUncompressed, WriteCompressed, UnparkCompressed, UnparkDone, TypeOK, IOOK
  <2> QED
    BY <1>4, <2>1, <2>2, <2>3 DEF IOStep
<1>5. ASSUME ExitRequest \/ ExitStep PROVE UNCHANGED <<file, logged, ch_logf>>
  BY <1>5 DEF ExitRequest, NormalExit, Signal, ExitStep, ExitClose, CloseExchange, ExitClosed, ExitCheck,
     ExitLoad, ExitJoin, fileVars, histVars
<1>6. ASSUME UNCHANGED vars PROVE UNCHANGED <<file, logged, ch_logf>>
  BY <1>6 DEF vars, fileVars, histVars
<1> QED
  BY <1>1, <1>2, <1>3, <1>4, <1>5, <1>6 DEF Next, Terminated

\* What a file holds are the first numbers of those logged.
LEMMA FileIsPrefix ==
  ASSUME PromiseInv, NEW c \in Chans
  PROVE  /\ FlattenSeq(file[c]) \in Seq(Nat) /\ logged[c] \in Nat
         /\ Len(FlattenSeq(file[c])) <= logged[c]
         /\ FlattenSeq(file[c]) = SubSeq(Numbers(logged[c]), 1, Len(FlattenSeq(file[c])))
         /\ ch_logf[c] = "closed" => FlattenSeq(file[c]) = Numbers(logged[c])
<1>1. TypeOK /\ LogInOrder /\ ClosedIsComplete
  BY OrderShows DEF PromiseInv, OrderInv, HolderInv
<1>2. PICK f \in Seq(Seq(Nat)), l \in Seq(Seq(Nat)) : f = file[c] /\ l = log[c]
  BY <1>1 DEF TypeOK, FileOK, HistOK
<1>3. PICK n \in Nat : n = logged[c]
  BY <1>1 DEF TypeOK, HistOK
<1>4. Len(f) <= Len(l) /\ \A i \in 1 .. Len(f) : l[i] = f[i]
  BY <1>1, <1>2 DEF LogInOrder
<1>5. PICK r \in Seq(Nat) : FlattenSeq(l) = FlattenSeq(f) \o r
  BY <1>4, FlattenPrefix
<1>6. PICK q \in Seq(Nat) : q = FlattenSeq(f)
  BY FlattenType
<1>7. Numbers(n) = q \o r
  BY <1>2, <1>3, <1>5, <1>6 DEF PromiseInv, LogRuns
<1>8. Len(q) <= n /\ q = SubSeq(Numbers(n), 1, Len(q))
  BY <1>7, NumbersPrefix
<1>9. ch_logf[c] = "closed" => q = Numbers(n)
  BY <1>1, <1>2, <1>3, <1>6 DEF ClosedIsComplete, PromiseInv, LogRuns
<1> QED
  BY <1>2, <1>3, <1>6, <1>8, <1>9

\* What a step of the pipeline does to one channel, as DurableLog sees it: nothing, ...
Silent(c) ==
  /\ logged'[c] = logged[c] /\ FlattenSeq(file'[c]) = FlattenSeq(file[c])
  /\ ch_logf'[c] = "closed" <=> ch_logf[c] = "closed"

\* ... a tuple more in the log, ...
Logs(c) ==
  /\ ch_logf[c] # "closed" /\ ch_logf'[c] # "closed"
  /\ logged'[c] = logged[c] + 1 /\ FlattenSeq(file'[c]) = FlattenSeq(file[c])

\* ... in the log and in the file, ...
LogsThrough(c) ==
  /\ ch_logf[c] # "closed" /\ ch_logf'[c] # "closed"
  /\ FlattenSeq(file[c]) = Numbers(logged[c])
  /\ logged'[c] = logged[c] + 1 /\ FlattenSeq(file'[c]) = Numbers(logged'[c])

\* ... or more of the log in the file, which may be closed.
Flushes(c) ==
  /\ ch_logf[c] # "closed" /\ logged'[c] = logged[c]
  /\ \E n \in 0 .. (logged[c] - Len(FlattenSeq(file[c]))) :
       FlattenSeq(file'[c]) = SubSeq(Numbers(logged[c]), 1, Len(FlattenSeq(file[c])) + n)
  /\ ch_logf'[c] = "closed" => FlattenSeq(file'[c]) = Numbers(logged[c])

\* FileIsPrefix as a property of a state, and of all channels.
PrefixAt(c) ==
  /\ FlattenSeq(file[c]) \in Seq(Nat) /\ logged[c] \in Nat
  /\ Len(FlattenSeq(file[c])) <= logged[c]
  /\ FlattenSeq(file[c]) = SubSeq(Numbers(logged[c]), 1, Len(FlattenSeq(file[c])))
  /\ ch_logf[c] = "closed" => FlattenSeq(file[c]) = Numbers(logged[c])

PrefixAll == \A c \in Chans : PrefixAt(c)

\* The same after a step.
LEMMA FileIsPrefixNext == PromiseInv' => PrefixAll'
<1>1. PromiseInv => PrefixAll
  BY FileIsPrefix DEF PrefixAll, PrefixAt
<1> QED
  BY <1>1, PTL

\* A function that is another one but for one place.
LEMMA ExceptOnly ==
  ASSUME NEW S, NEW f, NEW g, DOMAIN f = S, DOMAIN g = S, f = [x \in S |-> f[x]], g = [x \in S |-> g[x]],
         NEW d \in S, \A e \in S : e # d => g[e] = f[e]
  PROVE  g = [f EXCEPT ![d] = g[d]]
OBVIOUS

\* A tuple is logged by the two handlers, and only the first one of a TSC channel goes to
\* the file by the same step.
LEMMA LoggedSteps ==
  ASSUME TypeOK, [Next]_vars, NEW c \in Chans
  PROVE  \/ logged'[c] = logged[c]
         \/ logged'[c] = logged[c] + 1 /\ ch_logf' = ch_logf /\ file'[c] = file[c]
         \/ /\ logged'[c] = logged[c] + 1 /\ ch_logf' = ch_logf /\ ch_logf[c] = "open"
            /\ pc[c] \notin Opening /\ FirstDue(c)
            /\ file'[c] = Append(file[c], <<logged[c] + 1>>)
<1>1. DOMAIN logged = Chans /\ DOMAIN file = Chans
  BY DEF TypeOK, HistOK, FileOK
<1>2. CASE Unlogged
  BY <1>2 DEF Unlogged
<1>3. ASSUME NEW d \in Chans, OpenDone(d) \/ DequeueEmpty(d) PROVE logged' = logged
  BY <1>3 DEF OpenDone, DequeueEmpty
<1>4. ASSUME NEW d \in Chans, WriteOnBlock(d)
      PROVE  logged'[c] = logged[c] \/ (logged'[c] = logged[c] + 1 /\ ch_logf' = ch_logf /\ file'[c] = file[c])
  BY <1>1, <1>4 DEF WriteOnBlock, RecordTuple, fileVars
<1>5. ASSUME NEW d \in Chans, WriteFirst(d), d # c PROVE logged'[c] = logged[c]
  BY <1>1, <1>5 DEF WriteFirst, RecordTuple
<1>6. ASSUME WriteFirst(c)
      PROVE  /\ logged'[c] = logged[c] + 1 /\ ch_logf' = ch_logf /\ pc[c] \notin Opening /\ FirstDue(c)
             /\ file'[c] = IF ch_logf[c] = "open" THEN Append(file[c], <<logged[c] + 1>>) ELSE file[c]
  BY <1>1, <1>6 DEF WriteFirst, RecordTuple, Written, FirstDue, Opening
<1> QED
  BY <1>2, <1>3, <1>4, <1>5, <1>6, LoggingSteps

\* What a step does to a channel.
LEMMA ChannelStep ==
  ASSUME PromiseInv, PromiseInv', [Next]_vars, NEW c \in Chans
  PROVE  Silent(c) \/ Logs(c) \/ LogsThrough(c) \/ Flushes(c)
<1>0. OrderInv /\ TypeOK /\ LogShape /\ LogRuns
  BY DEF PromiseInv, OrderInv, OrderParts, HolderInv
<1> DEFINE f == FlattenSeq(file[c])
           w == FlattenSeq(file'[c])
           n == logged[c]
           m == logged'[c]
<1>1. /\ f \in Seq(Nat) /\ n \in Nat /\ Len(f) <= n /\ f = SubSeq(Numbers(n), 1, Len(f))
      /\ ch_logf[c] = "closed" => f = Numbers(n)
  BY FileIsPrefix
<1>2. /\ w \in Seq(Nat) /\ m \in Nat /\ Len(w) <= m /\ w = SubSeq(Numbers(m), 1, Len(w))
      /\ ch_logf'[c] = "closed" => w = Numbers(m)
  BY FileIsPrefixNext DEF PrefixAll, PrefixAt
<1>3. GrowsAt(c) /\ StaysClosed(c)
  BY <1>0, GrowStep
<1>4. file[c] \in Seq(Seq(Nat))
  BY <1>0 DEF TypeOK, FileOK
<1>5. CASE m = n
  <2>1. CASE ch_logf[c] = "closed"
    BY <1>3, <1>5, <2>1 DEF StaysClosed, Silent
  <2>2. CASE ch_logf[c] # "closed"
    <3>1. PICK k \in Nat : Len(w) = Len(f) + k
      <4>1. CASE file'[c] = file[c]
        BY <1>1, <4>1
      <4>2. CASE file'[c] # file[c]
        <5>1. PICK x \in Seq(Nat) : file'[c] = Append(file[c], x)
          BY <1>3, <4>2 DEF GrowsAt
        <5>2. w = f \o x
          BY <1>4, <5>1, FlattenLast
        <5>3. PICK k \in Nat : k = Len(x)
          OBVIOUS
        <5>4. PICK y \in Seq(Nat) : y = f
          BY <1>1
        <5>5. Len(y \o x) = Len(y) + Len(x)
          OBVIOUS
        <5> QED
          BY <5>2, <5>3, <5>4, <5>5
      <4> QED
        BY <4>1, <4>2
    <3>2. k \in 0 .. (n - Len(f))
      BY <1>1, <1>2, <1>5, <3>1
    <3>3. w = SubSeq(Numbers(n), 1, Len(f) + k)
      BY <1>2, <1>5, <3>1
    <3>4. ch_logf'[c] = "closed" => w = Numbers(n)
      BY <1>2, <1>5
    <3> QED
      BY <1>5, <2>2, <3>2, <3>3, <3>4 DEF Flushes
  <2> QED
    BY <2>1, <2>2
<1>6. CASE m = n + 1 /\ ch_logf' = ch_logf /\ file'[c] = file[c]
  <2>1. ch_logf[c] # "closed"
    <3>1. SUFFICES ASSUME ch_logf[c] = "closed" PROVE FALSE
      OBVIOUS
    <3>2. Numbers(n) = Numbers(n + 1)
      BY <1>1, <1>2, <1>6, <3>1
    <3>3. PICK k \in Nat : k = n
      BY <1>1
    <3>4. Len(Numbers(k)) = k
      BY NumbersFacts
    <3>5. PICK j \in Nat : j = k + 1
      OBVIOUS
    <3>6. Len(Numbers(j)) = j
      BY NumbersFacts
    <3> QED
      BY <3>2, <3>3, <3>4, <3>5, <3>6
  <2> QED
    BY <1>6, <2>1 DEF Logs
<1>7. CASE /\ m = n + 1 /\ ch_logf' = ch_logf /\ ch_logf[c] = "open"
           /\ pc[c] \notin Opening /\ FirstDue(c)
           /\ file'[c] = Append(file[c], <<n + 1>>)
  <2>1. n = 0 /\ file[c] = <<>>
    BY <1>0, <1>7 DEF LogShape, LogRuns
  <2>2. f = Numbers(n)
    <3>1. f = <<>>
      BY <2>1 DEF FlattenSeq
    <3>2. 0 \in Nat
      OBVIOUS
    <3>3. Numbers(0) = <<>>
      BY <3>2, NumbersFacts
    <3> QED
      BY <2>1, <3>1, <3>3
  <2>3. w = f \o <<n + 1>>
    <3>1. <<n + 1>> \in Seq(Nat)
      BY <1>1
    <3> QED
      BY <1>4, <1>7, <3>1, FlattenLast
  <2>4. w = Numbers(m)
    BY <1>1, <1>7, <2>2, <2>3, NumbersFacts
  <2> QED
    BY <1>7, <2>2, <2>4 DEF LogsThrough
<1> QED
  BY <1>0, <1>5, <1>6, <1>7, LoggedSteps

\* A step of the pipeline is a step of DurableLog, or none.
LEMMA PromiseStep ==
  ASSUME PromiseInv, PromiseInv', [Next]_vars
  PROVE  [Promise!Next]_(Promise!vars)
<1>0. TypeOK
  BY DEF PromiseInv, OrderInv, HolderInv
<1> DEFINE str  == [c \in Chans |-> [i \in 1 .. logged[c] |-> i]]
           dur  == [c \in Chans |-> FlattenSeq(file[c])]
           clo  == [c \in Chans |-> ch_logf[c] = "closed"]
           strN == [c \in Chans |-> [i \in 1 .. logged'[c] |-> i]]
           durN == [c \in Chans |-> FlattenSeq(file'[c])]
           cloN == [c \in Chans |-> ch_logf'[c] = "closed"]
<1>1. CASE UNCHANGED <<file, logged, ch_logf>>
  BY <1>1 DEF Promise!vars
<1>2. ASSUME NEW d \in Chans, OnlyAt(d) PROVE [Promise!Next]_(Promise!vars)
  <2>1. /\ \A e \in Chans : e # d => strN[e] = str[e] /\ durN[e] = dur[e] /\ cloN[e] = clo[e]
        /\ DOMAIN str = Chans /\ DOMAIN dur = Chans /\ DOMAIN clo = Chans
        /\ DOMAIN strN = Chans /\ DOMAIN durN = Chans /\ DOMAIN cloN = Chans
    BY <1>2 DEF OnlyAt
  <2>2. /\ str[d] = Numbers(logged[d]) /\ strN[d] = Numbers(logged'[d])
        /\ dur[d] = FlattenSeq(file[d]) /\ durN[d] = FlattenSeq(file'[d])
        /\ clo[d] = (ch_logf[d] = "closed") /\ cloN[d] = (ch_logf'[d] = "closed")
    BY DEF Numbers
  <2>f. /\ str = [c \in Chans |-> str[c]] /\ dur = [c \in Chans |-> dur[c]]
        /\ clo = [c \in Chans |-> clo[c]] /\ strN = [c \in Chans |-> strN[c]]
        /\ durN = [c \in Chans |-> durN[c]] /\ cloN = [c \in Chans |-> cloN[c]]
    OBVIOUS
  <2>e. /\ strN = [str EXCEPT ![d] = strN[d]] /\ durN = [dur EXCEPT ![d] = durN[d]]
        /\ cloN = [clo EXCEPT ![d] = cloN[d]]
    <3> HIDE DEF str, dur, clo, strN, durN, cloN
    <3>1. strN = [str EXCEPT ![d] = strN[d]]
      BY <2>1, <2>f, ExceptOnly
    <3>2. durN = [dur EXCEPT ![d] = durN[d]]
      BY <2>1, <2>f, ExceptOnly
    <3>3. cloN = [clo EXCEPT ![d] = cloN[d]]
      BY <2>1, <2>f, ExceptOnly
    <3> QED
      BY <3>1, <3>2, <3>3
  <2>u. /\ strN[d] = str[d] => strN = str
        /\ durN[d] = dur[d] => durN = dur
        /\ cloN[d] = clo[d] => cloN = clo
    <3> HIDE DEF str, dur, clo, strN, durN, cloN
    <3> QED
      BY <2>1, <2>f
  <2>3. /\ logged[d] \in Nat /\ Len(Numbers(logged[d])) = logged[d]
        /\ Numbers(logged[d] + 1) = Append(Numbers(logged[d]), logged[d] + 1)
    BY <1>0, NumbersFacts DEF TypeOK, HistOK
  <2>4. CASE Silent(d)
    <3>1. strN = str /\ durN = dur /\ cloN = clo
      <4> HIDE DEF str, dur, clo, strN, durN, cloN
      <4> QED
        BY <2>u, <2>e, <2>1, <2>2, <2>3, <2>4 DEF Silent
    <3> QED
      BY <3>1 DEF Promise!vars
  <2>5. CASE Logs(d)
    <3>1. /\ ~clo[d] /\ strN = [str EXCEPT ![d] = Append(@, Len(@) + 1)]
          /\ durN = dur /\ cloN = clo
      <4> HIDE DEF str, dur, clo, strN, durN, cloN
      <4>1. Len(str[d]) = logged[d] /\ strN[d] = Append(str[d], Len(str[d]) + 1)
        BY <2>2, <2>3, <2>5 DEF Logs
      <4>2. strN = [str EXCEPT ![d] = Append(str[d], Len(str[d]) + 1)]
        BY <2>e, <4>1
      <4>3. cloN = clo /\ ~clo[d] /\ durN = dur
        BY <2>u, <2>2, <2>5 DEF Logs
      <4> QED
        BY <2>e, <4>2, <4>3
    <3>2. Promise!Log(d)
      BY <3>1 DEF Promise!Log
    <3> QED
      BY <3>2 DEF Promise!Next
  <2>6. CASE LogsThrough(d)
    <3>1. /\ ~clo[d] /\ dur[d] = str[d]
          /\ strN = [str EXCEPT ![d] = Append(@, Len(@) + 1)]
          /\ durN = [dur EXCEPT ![d] = strN[d]] /\ cloN = clo
      <4> HIDE DEF str, dur, clo, strN, durN, cloN
      <4>1. Len(str[d]) = logged[d] /\ strN[d] = Append(str[d], Len(str[d]) + 1)
        BY <2>2, <2>3, <2>6 DEF LogsThrough
      <4>2. strN = [str EXCEPT ![d] = Append(str[d], Len(str[d]) + 1)]
        BY <2>e, <4>1
      <4>3. cloN = clo /\ ~clo[d] /\ dur[d] = str[d] /\ durN[d] = strN[d]
        BY <2>u, <2>2, <2>6 DEF LogsThrough
      <4> QED
        BY <2>e, <4>2, <4>3
    <3>2. Promise!LogThrough(d)
      BY <3>1 DEF Promise!LogThrough
    <3> QED
      BY <3>2 DEF Promise!Next
  <2>7. CASE Flushes(d)
    <3>1. PICK n \in 0 .. (logged[d] - Len(FlattenSeq(file[d]))) :
            FlattenSeq(file'[d]) = SubSeq(Numbers(logged[d]), 1, Len(FlattenSeq(file[d])) + n)
      BY <2>7 DEF Flushes
    <3>2. n \in 0 .. (Len(str[d]) - Len(dur[d]))
      BY <2>2, <2>3, <3>1
    <3>3. /\ ~clo[d] /\ durN = [dur EXCEPT ![d] = SubSeq(str[d], 1, Len(@) + n)]
          /\ strN = str
      <4> HIDE DEF str, dur, clo, strN, durN, cloN
      <4> QED
        BY <2>u, <2>e, <2>1, <2>2, <2>7, <3>1 DEF Flushes
    <3>4. cloN = clo \/ (durN[d] = str[d] /\ cloN = [clo EXCEPT ![d] = TRUE])
      <4> HIDE DEF str, dur, clo, strN, durN, cloN
      <4> QED
        BY <2>u, <2>e, <2>1, <2>2, <2>7, <3>1 DEF Flushes
    <3>5. Promise!Flush(d, n)
      BY <3>3, <3>4 DEF Promise!Flush
    <3> QED
      BY <3>2, <3>5 DEF Promise!Next
  <2> QED
    BY <2>4, <2>5, <2>6, <2>7, ChannelStep
<1> QED
  BY <1>0, <1>1, <1>2, OneChannel

\* The pipeline starts where DurableLog does, with nothing logged.
LEMMA PromiseInit ==
  ASSUME Init PROVE PromiseInv /\ Promise!Init
<1>1. OrderInv
  BY OrderInit
<1>2. Numbers(0) = <<>> /\ FlattenSeq(<<>>) = <<>>
  BY NumbersFacts DEF FlattenSeq
<1>3. \A c \in Chans : log[c] = <<>> /\ logged[c] = 0 /\ file[c] = <<>> /\ ch_logf[c] = "none"
  BY DEF Init
<1>4. LogRuns
  BY <1>2, <1>3 DEF LogRuns
<1>5. \A c \in Chans : [i \in 1 .. logged[c] |-> i] = <<>>
  BY <1>2, <1>3 DEF Numbers
<1>6. Promise!Init
  BY <1>2, <1>3, <1>5 DEF Promise!Init
<1> QED
  BY <1>1, <1>4, <1>6 DEF PromiseInv

\* The invariant is kept by every step.
LEMMA PromiseInvKept ==
  ASSUME "async_exit" \notin Races, PushesApart, PromiseInv, [Next]_vars
  PROVE  PromiseInv'
<1>1. OrderInv /\ LogRuns /\ TypeOK
  BY DEF PromiseInv, OrderInv, HolderInv
<1>2. OrderInv'
  BY <1>1, OrderKept
<1>3. LogRuns'
  BY <1>1, LoggingSteps, RunsUnlogged, RunsLogged
<1> QED
  BY <1>2, <1>3 DEF PromiseInv

\* The pipeline implements DurableLog: seen from the files, every step of a caller, a
\* compression thread, the IO thread or a cleanup handler either logs the next tuple or
\* brings the tuples that come next to the file of one channel, and closes a file only
\* when it is complete (writeUncompressedBlock, writeCompressedBlock, closeChannel).
\* Blocks, queues, threads and the order in which copies overtake one another do not show.
THEOREM PromiseKept ==
  ASSUME "async_exit" \notin Races, PushesApart
  PROVE  Spec => KeepsPromise
<1>1. Init => PromiseInv /\ Promise!Init
  BY PromiseInit
<1>2. PromiseInv /\ [Next]_vars => PromiseInv'
  BY PromiseInvKept
<1>3. PromiseInv /\ PromiseInv' /\ [Next]_vars => [Promise!Next]_(Promise!vars)
  BY PromiseStep
<1> QED
  BY <1>1, <1>2, <1>3, PTL DEF Spec, KeepsPromise, Promise!Spec

-----------------------------------------------------------------------------
(* The end of the process. *)

\* The channels num_buf_ch and num_buf_comp_ch count.
Counted == {c \in Chans : pc[c] # "new" /\ closing[c] # "done"}

CountedComp == {c \in Compressed : /\ pc[c] \notin {"new", "io", "iostore", "count"}
                                   /\ closing[c] \notin {"dec", "done"}}

Counts ==
  /\ num_buf_ch = Cardinality(Counted)
  /\ num_buf_comp_ch = Cardinality(CountedComp)

\* No channel is being opened once one is being closed.
Closing == \E c \in Chans : closing[c] # "no"

Phases == Closing => \A c \in Chans : pc[c] \notin Opening \ {"new"}

\* Every channel the program opened has handed over its last block.
Shut(c) == pc[c] = "new" \/ closing[c] \in {"dec", "done"}

AllShut == Closing /\ \A c \in Chans : Shut(c)

\* The compression threads of one channel run, from the time the first one counts.  Those
\* that leave their loop leave it when all channels are shut, and end with the queue empty.
Born(t) == cpc[t] # "unborn"

DeadComp == {t \in CompThreads : cpc[t] = "dead"}

CompCalm ==
  /\ \A c \in Chans : pc[c] \in {"count", "comp"} \/ closing[c] = "deccomp" => c \in Compressed
  /\ \A t \in CompThreads : Born(t) => t[1] \in Compressed
  /\ \A t, u \in CompThreads : Born(t) /\ Born(u) => t[1] = u[1]
  /\ \A t, u \in CompThreads : Born(t) /\ t[1] = u[1] => Born(u)
  /\ \A t \in CompThreads : Born(t) => comp_thread_created \/ AllShut
  /\ comp_thread_created => \E t \in CompThreads : Born(t)
  /\ ~comp_thread_created => \/ \A c \in Compressed : pc[c] \in Opening \ {"init"}
                             \/ \E g \in IOThreads : ipc[g] = "dead"
  /\ \A t \in CompThreads : cphase[t] = "drain" => AllShut
  /\ \A t \in CompThreads : cpc[t] \in {"stop", "dead"} =>
       cphase[t] = "drain" /\ compression_queue = <<>>
  /\ stop_io_thread = Cardinality(DeadComp)

\* There is one IO thread.  It leaves its loop when all channels are shut and the
\* compression threads have ended, and ends with its queue empty.
Ended(g) == ipc[g] \in {"term", "clear_io", "clear_comp", "dead"}

Over == \E g \in IOThreads : ipc[g] \in {"clear_io", "clear_comp", "dead"}

IOCalm ==
  /\ \A g, h \in IOThreads : ipc[g] # "unborn" /\ ipc[h] # "unborn" => g = h
  /\ \A g \in IOThreads : ipc[g] # "unborn" => io_thread_created \/ Over
  /\ io_thread_created => \/ buffer_write_thread # NULL \/ Over
                          \/ \E c \in Chans : pc[c] = "iostore"
  /\ ~io_thread_created => Over \/ \A c \in Chans : pc[c] \in {"new", "io"}
  /\ \A g \in IOThreads : ipc[g] # "test2" /\ (ipc[g] = "test" => iphase[g] = "loop")
  /\ \A g \in IOThreads : iphase[g] = "flush" =>
       /\ AllShut /\ compression_queue = <<>>
       /\ \A t \in CompThreads : cpc[t] \in {"unborn", "dead"}
  /\ \A g \in IOThreads : Ended(g) => iphase[g] = "flush" /\ io_queue = <<>>

\* The exit handlers wait for the application, and the process ends when the IO thread has
\* written what it had.
ExitCalm ==
  /\ xpc \in {"close", "check", "load", "join"} =>
       /\ \A c \in Chans : pc[c] \in {"new", "idle"}
       /\ \E c \in Chans : pc[c] = "idle"
  /\ xpc = "close" /\ xmode = "quick" => Over
  /\ xpc = "join" => xthr \in IOThreads \/ proc = "crashed"
  /\ proc = "exited" => \E g \in IOThreads : Ended(g)

\* A channel that has no file was never logged to.
FileCalm ==
  \A c \in Chans :
    /\ pc[c] \in Opening => log[c] = <<>>
    /\ pc[c] \notin Opening =>
         /\ ch_logf[c] = "none" => c \in Unopenable
         /\ c \in Unopenable => /\ pc[c] = "idle"
                                /\ \A i \in 1..Len(log[c]) : log[c][i] = <<>>

\* The inductive invariant of a calm end
CalmInv == OrderInv /\ Counts /\ Phases /\ CompCalm /\ IOCalm /\ ExitCalm /\ FileCalm

\* The well-behaved application, with channels of one kind
Calm ==
  /\ Races = {} /\ Tsc = {} /\ IsFiniteSet(Chans)
  /\ Compressed = {} \/ Compressed = Chans

-----------------------------------------------------------------------------
\* The places of the blocks and copies of a compressed channel: block number n of channel
\* c is in the compression queue, with a compression thread, in the IO queue, with the IO
\* thread, or parked.
InCompq(c, n, i) ==
  /\ i \in 1..Len(compression_queue)
  /\ compression_queue[i][1] = c /\ block_id[compression_queue[i]] = n

InComp(c, n, t) ==
  \/ cpc[t] = "compress" /\ cblk[t][1] = c /\ block_id[cblk[t]] = n
  \/ /\ cpc[t] \in {"slot", "store", "push"}
     /\ new_block[t].ch = c /\ new_block[t].block_id = n

InIoq(c, n, i) ==
  /\ i \in 1..Len(io_queue)
  /\ io_queue[i].compress /\ io_queue[i].ch = c /\ io_queue[i].block_id = n

InIo(c, n, g) == ipc[g] = "writecomp" /\ idata[g].ch = c /\ idata[g].block_id = n

InPending(c, n, i) == i \in 1..Len(pending[c]) /\ pending[c][i].block_id = n

\* The places of the numbers.
Places ==
  ({"compq", "ioq", "parked"} \X (Nat \ {0})) \cup ({"comp"} \X CompThreads) \cup ({"io"} \X IOThreads)

At(c, n, p) ==
  \/ p[1] = "compq" /\ InCompq(c, n, p[2])
  \/ p[1] = "comp" /\ InComp(c, n, p[2])
  \/ p[1] = "ioq" /\ InIoq(c, n, p[2])
  \/ p[1] = "io" /\ InIo(c, n, p[2])
  \/ p[1] = "parked" /\ InPending(c, n, p[2])

\* The IO thread has just written a copy of the channel and looks for the next.
Unparking(c) == \E g \in IOThreads : ipc[g] = "unpark" /\ idata[g].ch = c

\* Of a compressed channel with a file, the numbers on their way are those from the next
\* to be written to the last that was handed over, each in one place; the next one is not
\* left parked.
WayAt(c) ==
  /\ \A n \in Nat : \A p \in Places : At(c, n, p) => next_block[c] <= n
  /\ \A n \in Nat : next_block[c] <= n /\ n < Enqueued(c) => \E p \in Places : At(c, n, p)
  /\ \A n \in Nat : \A p, q \in Places : At(c, n, p) /\ At(c, n, q) => p = q
  /\ \A i \in Nat \ {0} : InPending(c, next_block[c], i) => Unparking(c)

CompOrder == \A c \in Compressed : ch_logf[c] = "open" => WayAt(c)

\* No copy is dropped: the IO queue has room whenever a compression thread pushes
\* (enqueueFullBlockFromCompThread ignores that it has not).
RoomForCopies == \A t \in CompThreads : cpc[t] = "push" => Len(io_queue) < IO_QUEUE_SIZE

-----------------------------------------------------------------------------
\* A call on a channel changes no other channel, and none is inside one that is shut.
LEMMA CallMoves ==
  ASSUME HolderInv, Phases, NEW c \in Chans, CallStep(c)
  PROVE  /\ UNCHANGED <<closing, closer, num_buf_ch, xpc, xmode, xthr, cphase, stop_io_thread>>
         /\ proc' \in {proc, "crashed"}
         /\ \A d \in Chans : d # c => pc'[d] = pc[d]
         /\ pc[c] # "new" /\ pc'[c] # "new" /\ pc[c] # "idle"
         /\ pc[c] \notin Opening => pc'[c] \notin Opening
         /\ closing[c] = "no" /\ ~Shut(c)
         /\ Closing => pc[c] \notin Opening
<1>1. TypeOK /\ CallsApart
  BY DEF HolderInv
<1>2. UNCHANGED <<closing, closer, num_buf_ch, xpc, xmode, xthr, cphase, stop_io_thread>>
  BY DEF CallStep, OpenIOThread, OpenIOStore, OpenCountComp, OpenCompThreads, OpenDone, WriteFirst, WriteOnBlock,
     EnqueueFull, DequeueEmpty, closeVars, ctlVars, exitVars, compVars
<1>3. proc' \in {proc, "crashed"}
  BY DEF CallStep, OpenIOThread, OpenIOStore, OpenCountComp, OpenCompThreads, OpenDone, WriteFirst, WriteOnBlock,
     EnqueueFull, DequeueEmpty, exitVars
<1>4. /\ \A d \in Chans : d # c => pc'[d] = pc[d]
      /\ pc[c] # "new" /\ pc'[c] # "new" /\ pc[c] # "idle"
      /\ pc[c] \notin Opening => pc'[c] \notin Opening
  BY <1>1 DEF CallStep, OpenIOThread, OpenIOStore, OpenCountComp, OpenCompThreads, OpenDone, WriteFirst,
     WriteOnBlock, EnqueueFull, DequeueEmpty, TypeOK, ChanOK, Opening, AfterIO
<1>5. closing[c] = "no"
  BY <1>1, <1>4 DEF CallsApart
<1>6. ~Shut(c) /\ (Closing => pc[c] \notin Opening)
  BY <1>4, <1>5 DEF Shut, Phases
<1> QED
  BY <1>2, <1>3, <1>4, <1>5, <1>6

\* closeChannel goes through its stages.
LEMMA CloseMoves ==
  ASSUME HolderInv, NEW c \in Chans, CloseStep(c)
  PROVE  /\ UNCHANGED <<pc, closer, xpc, xmode, xthr, proc, cpc, cphase, ipc, iphase, terminate, stop_io_thread,
                        io_thread_created, comp_thread_created, buffer_write_thread, quick_term, log, ch_logf>>
         /\ \A d \in Chans : d # c => closing'[d] = closing[d]
         /\ closing[c] \notin {"no", "done"} /\ closing'[c] \notin {"no", "mark"}
         /\ Shut(c) => Shut(c)'
BY DEF HolderInv, CloseStep, CloseMark, CloseEnqueue, CloseDecComp, CloseDec, chanVars, compVars, ioVars, exitVars,
   ctlVars, histVars, fileVars, closeVars, TypeOK, ChanOK, Shut

\* A thread leaves the stages of the channels alone.
LEMMA ThreadMoves ==
  ASSUME (\E t \in CompThreads : CompStep(t)) \/ (\E g \in IOThreads : IOStep(g))
  PROVE  UNCHANGED <<pc, handler_f, closing, closer, num_buf_ch, num_buf_comp_ch, xpc, xmode, xthr, log>>
<1>1. ASSUME NEW t \in CompThreads, CompStep(t)
      PROVE  UNCHANGED <<pc, handler_f, closing, closer, num_buf_ch, num_buf_comp_ch, xpc, xmode, xthr, log>>
  BY <1>1 DEF CompStep, CompPop, CompLeaveLoop, CompDrained, CompStop, CompressBlock, SendBackLoad, SendBackStore,
     CompPush, chanVars, closeVars, ctlVars, exitVars, histVars
<1>2. ASSUME NEW g \in IOThreads, IOStep(g)
      PROVE  UNCHANGED <<pc, handler_f, closing, closer, num_buf_ch, num_buf_comp_ch, xpc, xmode, xthr, log>>
  BY <1>2 DEF IOStep, IOTest, IOLoopTest, IOTestLeft, IOTestRight, IOPop, IOEmpty, WriteUncompressed,
     SendBackUncompressed, sendBackBlock, ParkCompressed, WriteCompressed, UnparkCompressed, UnparkDone,
     IOTerminate, IOClearIO, IOClearComp, chanVars, closeVars, ctlVars, exitVars, histVars
<1> QED
  BY <1>1, <1>2

\* The sweep at the end closes a channel as its owner would.
LEMMA SweepMoves ==
  ASSUME Calm, HolderInv, ExitRequest \/ ExitStep
  PROVE  /\ UNCHANGED <<pc, num_buf_ch, num_buf_comp_ch, cpc, cphase, ipc, iphase, stop_io_thread, log, ch_logf,
                        io_thread_created, comp_thread_created, buffer_write_thread, compression_queue, io_queue>>
         /\ \/ UNCHANGED closing
            \/ /\ xpc = "close"
               /\ \E c \in Chans :
                    /\ closing[c] = "no" /\ closing'[c] = "mark" /\ pc[c] = "idle"
                    /\ \A d \in Chans : d # c => closing'[d] = closing[d]
<1>1. CASE ExitRequest
  BY <1>1 DEF ExitRequest, NormalExit, Signal, chanVars, closeVars, ctlVars, compVars, ioVars, histVars, queueVars,
     fileVars
<1>2. ASSUME NEW c \in Chans, ExitClose(c)
      PROVE  /\ UNCHANGED <<pc, num_buf_ch, num_buf_comp_ch, cpc, cphase, ipc, iphase, stop_io_thread, log, ch_logf,
                        io_thread_created, comp_thread_created, buffer_write_thread, compression_queue, io_queue>>
             /\ xpc = "close" /\ closing[c] = "no" /\ closing'[c] = "mark" /\ pc[c] = "idle"
             /\ \A d \in Chans : d # c => closing'[d] = closing[d]
  <2>1. /\ UNCHANGED <<pc, num_buf_ch, num_buf_comp_ch, cpc, cphase, ipc, iphase, stop_io_thread, log, ch_logf,
                        io_thread_created, comp_thread_created, buffer_write_thread, compression_queue, io_queue>>
        /\ xpc = "close" /\ handler_f[c] \in {"id", "tsc"}
    BY <1>2 DEF ExitClose, CloseExchange, ctlVars, compVars, ioVars, histVars, queueVars, fileVars
  <2>2. handler_f[c] = "id" /\ closing[c] = "no" /\ pc[c] = "idle"
    BY <2>1 DEF HolderInv, CallsApart, TypeOK, ChanOK, Calm, Opening
  <2>3. /\ closing'[c] = "mark" /\ \A d \in Chans : d # c => closing'[d] = closing[d]
    BY <1>2, <2>2 DEF ExitClose, CloseExchange, HolderInv, TypeOK, ChanOK
  <2> QED
    BY <2>1, <2>2, <2>3
<1>3. CASE ExitClosed \/ ExitCheck \/ ExitLoad \/ ExitJoin
  BY <1>3 DEF ExitClosed, ExitCheck, ExitLoad, ExitJoin, chanVars, closeVars, ctlVars, compVars, ioVars, histVars,
     queueVars, fileVars
<1> QED
  BY <1>1, <1>2, <1>3 DEF ExitStep

\* What the application asks for.
LEMMA RequestMoves ==
  ASSUME Calm, HolderInv, ExitCalm, NEW c \in Chans, Request(c)
  PROVE  /\ UNCHANGED <<num_buf_comp_ch, cpc, cphase, ipc, iphase, stop_io_thread, log, ch_logf, io_thread_created,
                        comp_thread_created, buffer_write_thread, compression_queue, io_queue, xpc, xmode, xthr, proc>>
         /\ xpc \notin {"close", "check", "load", "join"}
         /\ \/ /\ OpenChannel(c) /\ ~Closing /\ UNCHANGED closing
               /\ pc[c] = "new" /\ pc'[c] = "io" /\ num_buf_ch' = num_buf_ch + 1
               /\ \A d \in Chans : d # c => pc'[d] = pc[d]
            \/ /\ LogTS(c) /\ UNCHANGED <<closing, num_buf_ch>>
               /\ pc[c] = "idle" /\ pc'[c] = "write" /\ closing[c] = "no" /\ c \notin Unopenable
               /\ \A d \in Chans : d # c => pc'[d] = pc[d]
            \/ /\ CloseChannel(c) /\ UNCHANGED <<pc, num_buf_ch>>
               /\ \A d \in Chans : pc[d] \notin Opening \ {"new"}
               /\ pc[c] = "idle" /\ closing[c] = "no" /\ closing'[c] = "mark"
               /\ \A d \in Chans : d # c => closing'[d] = closing[d]
<1>1. TypeOK /\ CallsApart
  BY DEF HolderInv
<1>2. CASE OpenChannel(c)
  BY <1>1, <1>2 DEF OpenChannel, AppRunning, Calm, Closing, TypeOK, ChanOK, closeVars, ctlVars, exitVars, compVars,
     ioVars, queueVars, histVars, fileVars
<1>3. CASE LogTS(c)
  BY <1>1, <1>3 DEF LogTS, AppRunning, OwnerFree, Calm, CallsApart, TypeOK, ChanOK, closeVars, ctlVars, exitVars,
     compVars, ioVars, queueVars, histVars, fileVars
<1>4. CASE CloseChannel(c)
  <2>1. /\ pc[c] = "idle" /\ AppRunning /\ handler_f[c] \in {"id", "tsc"}
        /\ \A d \in Chans : pc[d] \notin Opening \ {"new"}
    BY <1>4 DEF CloseChannel, CloseExchange, Calm
  <2>2. handler_f[c] = "id" /\ closing[c] = "no"
    BY <1>1, <2>1 DEF CallsApart, Calm
  <2> QED
    BY <1>1, <1>4, <2>1, <2>2 DEF CloseChannel, CloseExchange, AppRunning, Calm, TypeOK, ChanOK, ctlVars, exitVars,
       compVars, ioVars, queueVars, histVars, fileVars
<1> QED
  BY <1>2, <1>3, <1>4 DEF Request

\* The five kinds of steps.
LEMMA StepKinds ==
  ASSUME [Next]_vars
  PROVE  \/ \E c \in Chans : Request(c) \/ CallStep(c) \/ CloseStep(c)
         \/ (\E t \in CompThreads : CompStep(t)) \/ (\E g \in IOThreads : IOStep(g))
         \/ ExitRequest \/ ExitStep
         \/ UNCHANGED vars
BY DEF Next, Terminated

\* Once all channels are shut they stay so, and none is opened while one is closed.
LEMMA PhasesStep ==
  ASSUME Calm, HolderInv, Phases, ExitCalm, [Next]_vars
  PROVE  /\ Phases'
         /\ AllShut => AllShut'
<1>1. ASSUME NEW c \in Chans, Request(c) PROVE Phases' /\ (AllShut => AllShut')
  <2>1. CASE /\ ~Closing /\ UNCHANGED closing
    BY <2>1 DEF Closing, Phases, AllShut
  <2>2. CASE /\ UNCHANGED closing /\ pc[c] = "idle" /\ pc'[c] = "write" /\ closing[c] = "no"
             /\ \A d \in Chans : d # c => pc'[d] = pc[d]
    BY <2>2 DEF Closing, Phases, AllShut, Shut, Opening
  <2>3. CASE /\ UNCHANGED pc /\ \A d \in Chans : pc[d] \notin Opening \ {"new"}
             /\ pc[c] = "idle" /\ closing[c] = "no"
    BY <2>3 DEF Phases, AllShut, Shut
  <2> QED
    BY <1>1, <2>1, <2>2, <2>3, RequestMoves
<1>2. ASSUME NEW c \in Chans, CallStep(c) PROVE Phases' /\ (AllShut => AllShut')
  BY <1>2, CallMoves DEF Phases, Closing, AllShut
<1>3. ASSUME NEW c \in Chans, CloseStep(c) PROVE Phases' /\ (AllShut => AllShut')
  <2>1. Closing /\ UNCHANGED pc /\ closing'[c] # "no" /\ (Shut(c) => Shut(c)')
    BY <1>3, CloseMoves DEF Closing
  <2>2. \A d \in Chans : d # c => closing'[d] = closing[d]
    BY <1>3, CloseMoves
  <2> QED
    BY <2>1, <2>2 DEF Phases, Closing, AllShut, Shut
<1>4. CASE (\E t \in CompThreads : CompStep(t)) \/ (\E g \in IOThreads : IOStep(g))
  BY <1>4, ThreadMoves DEF Phases, Closing, AllShut, Shut
<1>5. CASE ExitRequest \/ ExitStep
  <2>1. CASE UNCHANGED <<pc, closing>>
    BY <2>1 DEF Phases, Closing, AllShut, Shut
  <2>2. ASSUME NEW c \in Chans, UNCHANGED pc, xpc = "close", closing[c] = "no", pc[c] = "idle",
               \A d \in Chans : d # c => closing'[d] = closing[d]
        PROVE  Phases' /\ (AllShut => AllShut')
    <3>1. \A d \in Chans : pc[d] \in {"new", "idle"}
      BY <2>2 DEF ExitCalm
    <3> QED
      BY <2>2, <3>1 DEF Phases, AllShut, Shut, Opening
  <2> QED
    BY <1>5, <2>1, <2>2, SweepMoves
<1>6. CASE UNCHANGED vars
  BY <1>6 DEF vars, chanVars, closeVars, Phases, Closing, AllShut, Shut
<1> QED
  BY <1>1, <1>2, <1>3, <1>4, <1>5, <1>6, StepKinds

\* Counting one more and one less.
LEMMA CountUp ==
  ASSUME NEW S, NEW T, IsFiniteSet(S), NEW x, x \notin S, T = S \cup {x}
  PROVE  Cardinality(T) = Cardinality(S) + 1
BY FS_AddElement

\* The same for an element that leaves.
LEMMA CountDown ==
  ASSUME NEW S, NEW T, IsFiniteSet(S), NEW x \in S, T = S \ {x}
  PROVE  Cardinality(T) = Cardinality(S) - 1
BY FS_RemoveElement

\* The channels that are counted are finitely many.
LEMMA CountedFinite ==
  ASSUME Calm
  PROVE  IsFiniteSet(Counted) /\ IsFiniteSet(CountedComp)
<1>1. Counted \in SUBSET Chans /\ CountedComp \in SUBSET Chans
  BY SetsAssumption DEF Counted, CountedComp
<1> QED
  BY <1>1, FS_Subset DEF Calm

\* The shared counters count the channels that are not closed (num_buf_ch++,
\* num_buf_comp_ch++ and the decrements of closeChannel).
LEMMA CountsStep ==
  ASSUME Calm, HolderInv, Phases, ExitCalm, CompCalm, Counts, [Next]_vars
  PROVE  Counts'
<1>0. IsFiniteSet(Counted) /\ IsFiniteSet(CountedComp) /\ TypeOK /\ CallsApart
  BY CountedFinite DEF HolderInv
<1>1. ASSUME NEW c \in Chans, OpenChannel(c) PROVE Counts'
  <2>1. /\ pc' = [pc EXCEPT ![c] = "io"] /\ pc[c] = "new" /\ num_buf_ch' = num_buf_ch + 1
        /\ UNCHANGED <<closing, num_buf_comp_ch>>
    BY <1>1 DEF OpenChannel, closeVars
  <2>2. closing[c] = "no"
    BY <1>0, <2>1 DEF CallsApart
  <2>3. c \notin Counted /\ Counted' = Counted \cup {c}
    BY <1>0, <2>1, <2>2 DEF Counted, TypeOK, ChanOK
  <2>4. CountedComp' = CountedComp
    BY <1>0, <2>1 DEF CountedComp, TypeOK, ChanOK
  <2> QED
    BY <1>0, <2>1, <2>3, <2>4, CountUp DEF Counts
<1>2. ASSUME NEW c \in Chans, OpenCountComp(c) PROVE Counts'
  <2>1. /\ pc' = [pc EXCEPT ![c] = "comp"] /\ pc[c] = "count" /\ num_buf_comp_ch' = num_buf_comp_ch + 1
        /\ UNCHANGED <<closing, num_buf_ch>>
    BY <1>2 DEF OpenCountComp, closeVars
  <2>2. closing[c] = "no" /\ c \in Compressed
    BY <1>0, <2>1 DEF CallsApart, CompCalm
  <2>3. c \notin CountedComp /\ CountedComp' = CountedComp \cup {c}
    BY <1>0, <2>1, <2>2, SetsAssumption DEF CountedComp, TypeOK, ChanOK
  <2>4. Counted' = Counted
    BY <1>0, <2>1 DEF Counted, TypeOK, ChanOK
  <2> QED
    BY <1>0, <2>1, <2>3, <2>4, CountUp DEF Counts
<1>3. ASSUME NEW c \in Chans, CloseDecComp(c) PROVE Counts'
  <2>1. /\ closing' = [closing EXCEPT ![c] = "dec"] /\ closing[c] = "deccomp"
        /\ num_buf_comp_ch' = num_buf_comp_ch - 1 /\ UNCHANGED <<pc, num_buf_ch>>
    BY <1>3 DEF CloseDecComp, chanVars
  <2>2. pc[c] = "idle"
    BY <1>0, <2>1 DEF CallsApart
  <2>3. c \in Compressed
    BY <2>1 DEF CompCalm
  <2>4. c \in CountedComp /\ CountedComp' = CountedComp \ {c}
    BY <1>0, <2>1, <2>2, <2>3, SetsAssumption DEF CountedComp, TypeOK, ChanOK
  <2>5. Counted' = Counted
    BY <1>0, <2>1 DEF Counted, TypeOK, ChanOK
  <2> QED
    BY <1>0, <2>1, <2>4, <2>5, CountDown DEF Counts
<1>4. ASSUME NEW c \in Chans, CloseDec(c) PROVE Counts'
  <2>1. /\ closing' = [closing EXCEPT ![c] = "done"] /\ closing[c] = "dec"
        /\ num_buf_ch' = num_buf_ch - 1 /\ UNCHANGED <<pc, num_buf_comp_ch>>
    BY <1>4 DEF CloseDec, chanVars
  <2>2. pc[c] = "idle"
    BY <1>0, <2>1 DEF CallsApart
  <2>4. c \in Counted /\ Counted' = Counted \ {c}
    BY <1>0, <2>1, <2>2 DEF Counted, TypeOK, ChanOK
  <2>5. CountedComp' = CountedComp
    BY <1>0, <2>1, SetsAssumption DEF CountedComp, TypeOK, ChanOK
  <2> QED
    BY <1>0, <2>1, <2>4, <2>5, CountDown DEF Counts
<1>5. CASE Counted' = Counted /\ CountedComp' = CountedComp /\ UNCHANGED <<num_buf_ch, num_buf_comp_ch>>
  BY <1>5 DEF Counts
<1>6. ASSUME NEW c \in Chans, LogTS(c) \/ CloseChannel(c), Request(c) PROVE <1>5!1
  <2>1. /\ UNCHANGED <<num_buf_ch, num_buf_comp_ch>>
        /\ pc[c] = "idle" /\ pc'[c] \in {"idle", "write"} /\ closing[c] = "no" /\ closing'[c] \in {"no", "mark"}
        /\ \A d \in Chans : d # c => pc'[d] = pc[d] /\ closing'[d] = closing[d]
    BY <1>6, RequestMoves DEF LogTS, CloseChannel
  <2> QED
    BY <2>1, SetsAssumption DEF Counted, CountedComp
<1>7. ASSUME NEW c \in Chans, CallStep(c), ~OpenCountComp(c) PROVE <1>5!1
  <2>1. /\ UNCHANGED <<closing, num_buf_ch>>
        /\ \A d \in Chans : d # c => pc'[d] = pc[d]
        /\ pc[c] # "new" /\ pc'[c] # "new"
    BY <1>7, CallMoves
  <2>2. /\ UNCHANGED num_buf_comp_ch
        /\ c \in Compressed => (pc[c] \in {"io", "iostore", "count"} <=> pc'[c] \in {"io", "iostore", "count"})
    BY <1>0, <1>7 DEF CallStep, OpenIOThread, OpenIOStore, OpenCompThreads, OpenDone, WriteFirst,
       WriteOnBlock, EnqueueFull, DequeueEmpty, TypeOK, ChanOK, Opening, AfterIO, ctlVars
  <2>3. Counted' = Counted
    BY <2>1 DEF Counted
  <2>4. CountedComp' = CountedComp
    BY <2>1, <2>2, SetsAssumption DEF CountedComp
  <2> QED
    BY <2>1, <2>2, <2>3, <2>4
<1>8. ASSUME NEW c \in Chans, CloseMark(c) \/ CloseEnqueue(c), CloseStep(c) PROVE <1>5!1
  <2>1. /\ UNCHANGED <<pc, num_buf_ch, num_buf_comp_ch>>
        /\ \A d \in Chans : d # c => closing'[d] = closing[d]
        /\ closing[c] \in {"mark", "enqueue"} /\ closing'[c] \in {"enqueue", "deccomp", "dec"}
        /\ c \in Compressed => closing'[c] # "dec"
    BY <1>0, <1>8 DEF CloseMark, CloseEnqueue, TypeOK, ChanOK, chanVars, ctlVars
  <2> QED
    BY <2>1, SetsAssumption DEF Counted, CountedComp
<1>9. CASE (\E t \in CompThreads : CompStep(t)) \/ (\E g \in IOThreads : IOStep(g))
  BY <1>5, <1>9, ThreadMoves DEF Counted, CountedComp
<1>10. CASE ExitRequest \/ ExitStep
  BY <1>5, <1>10, SweepMoves, SetsAssumption DEF Counted, CountedComp
<1>11. CASE UNCHANGED vars
  BY <1>5, <1>11 DEF vars, chanVars, closeVars, ctlVars, Counted, CountedComp
<1>12. ASSUME NEW c \in Chans, Request(c) PROVE Counts'
  BY <1>1, <1>5, <1>6, <1>12 DEF Request
<1>13. ASSUME NEW c \in Chans, CallStep(c) PROVE Counts'
  BY <1>2, <1>5, <1>7, <1>13
<1>14. ASSUME NEW c \in Chans, CloseStep(c) PROVE Counts'
  BY <1>3, <1>4, <1>5, <1>8, <1>14 DEF CloseStep
<1> QED
  BY <1>9, <1>10, <1>11, <1>12, <1>13, <1>14, StepKinds

\* When all channels are shut nothing is added to the compression queue, and nothing to
\* the IO queue once the compression threads have ended.
LEMMA QueueShut ==
  ASSUME Calm, HolderInv, Phases, ExitCalm, [Next]_vars, AllShut
  PROVE  /\ compression_queue = <<>> => compression_queue' = <<>>
         /\ io_queue = <<>> /\ (\A t \in CompThreads : cpc[t] \in {"unborn", "dead"}) => io_queue' = <<>>
         /\ (\A t \in CompThreads : cpc[t] \in {"unborn", "dead"}) =>
              \A t \in CompThreads : cpc'[t] \in {"unborn", "dead"}
<1>1. ASSUME NEW c \in Chans, CallStep(c) PROVE FALSE
  BY <1>1, CallMoves DEF AllShut
<1>2. ASSUME NEW c \in Chans, Request(c) PROVE UNCHANGED <<compression_queue, io_queue, cpc>>
  BY <1>2, RequestMoves
<1>3. ASSUME NEW c \in Chans, CloseStep(c) PROVE UNCHANGED <<compression_queue, io_queue, cpc>>
  <2>1. closing[c] # "enqueue"
    BY <1>3, CloseMoves DEF AllShut, Shut, HolderInv, CallsApart
  <2> QED
    BY <1>3, <2>1 DEF CloseStep, CloseMark, CloseEnqueue, CloseDecComp, CloseDec, queueVars, compVars
<1>4. ASSUME NEW t \in CompThreads, CompStep(t)
      PROVE  /\ compression_queue = <<>> => compression_queue' = <<>>
             /\ cpc[t] \notin {"unborn", "dead"}
  BY <1>4 DEF CompStep, CompPop, CompLeaveLoop, CompDrained, CompStop, CompressBlock, SendBackLoad, SendBackStore,
     CompPush, queueVars
<1>5. ASSUME NEW g \in IOThreads, IOStep(g)
      PROVE  UNCHANGED <<compression_queue, cpc>> /\ (io_queue = <<>> => io_queue' = <<>>)
  BY <1>5 DEF IOStep, IOTest, IOLoopTest, IOTestLeft, IOTestRight, IOPop, IOEmpty, WriteUncompressed,
     SendBackUncompressed, ParkCompressed, WriteCompressed, UnparkCompressed, UnparkDone,
     IOTerminate, IOClearIO, IOClearComp, queueVars, compVars
<1>6. CASE ExitRequest \/ ExitStep
  BY <1>6, SweepMoves
<1>7. CASE UNCHANGED vars
  BY <1>7 DEF vars, queueVars, compVars
<1> QED
  BY <1>1, <1>2, <1>3, <1>4, <1>5, <1>6, <1>7, StepKinds

\* A compression thread that finds no compressed channel finds all of them shut.
LEMMA NoneLeft ==
  ASSUME Calm, HolderInv, Phases, CompCalm, Counts, NEW t \in CompThreads, Born(t), num_buf_comp_ch = 0
  PROVE  AllShut
<1>1. CountedComp = {}
  BY CountedFinite, FS_EmptySet DEF Counts
<1>2. PICK d \in Chans : d = t[1]
  BY DEF CompThreads
<1>3. d \in Compressed /\ Compressed = Chans
  BY <1>2 DEF CompCalm, Calm
<1>4. pc[d] \notin Opening \ {"init"}
  BY <1>2 DEF HolderInv, Unborn, Born
<1>5. closing[d] \in {"dec", "done"}
  BY <1>1, <1>3, <1>4 DEF CountedComp, Opening
<1>6. Closing
  BY <1>5 DEF Closing
<1>7. ASSUME NEW c \in Chans, pc[c] # "new" PROVE closing[c] \in {"dec", "done"}
  BY <1>1, <1>3, <1>6, <1>7 DEF CountedComp, Phases, Opening
<1> QED
  BY <1>6, <1>7 DEF AllShut, Shut

\* What the compression threads need of a step that is not theirs.
LEMMA CompQuiet ==
  ASSUME CompCalm, AllShut => AllShut', AllShut /\ compression_queue = <<>> => compression_queue' = <<>>,
         UNCHANGED <<cpc, cphase, stop_io_thread, comp_thread_created>>,
         \A c \in Chans : pc'[c] \in {"count", "comp"} \/ closing'[c] = "deccomp" => c \in Compressed,
         \A c \in Compressed : pc[c] \in Opening \ {"init"} => pc'[c] \in Opening \ {"init"},
         \A g \in IOThreads : ipc[g] = "dead" => ipc'[g] = "dead"
  PROVE  CompCalm'
<1>1. DeadComp' = DeadComp /\ \A t \in CompThreads : Born(t)' <=> Born(t)
  BY DEF DeadComp, Born
<1>2. ~comp_thread_created' => \/ \A c \in Compressed : pc'[c] \in Opening \ {"init"}
                               \/ \E g \in IOThreads : ipc'[g] = "dead"
  BY DEF CompCalm
<1>3. \A t \in CompThreads : cphase'[t] = "drain" => AllShut'
  BY DEF CompCalm
<1>4. \A t \in CompThreads : cpc'[t] \in {"stop", "dead"} => cphase'[t] = "drain" /\ compression_queue' = <<>>
  BY DEF CompCalm
<1>5. \A t \in CompThreads : Born(t)' => comp_thread_created' \/ AllShut'
  BY <1>1 DEF CompCalm
<1>6. /\ \A t \in CompThreads : Born(t)' => t[1] \in Compressed
      /\ \A t, u \in CompThreads : Born(t)' /\ Born(u)' => t[1] = u[1]
      /\ \A t, u \in CompThreads : Born(t)' /\ t[1] = u[1] => Born(u)'
      /\ comp_thread_created' => \E t \in CompThreads : Born(t)'
  BY <1>1 DEF CompCalm
<1>7. stop_io_thread' = Cardinality(DeadComp')
  BY <1>1 DEF CompCalm
<1> QED
  BY <1>2, <1>3, <1>4, <1>5, <1>6, <1>7 DEF CompCalm

\* The first channel that counts starts the threads.
LEMMA OpenCompCalm ==
  ASSUME Calm, HolderInv, Phases, CompCalm, IOCalm, NEW c \in Chans, OpenCompThreads(c)
  PROVE  CompCalm'
<1>0. TypeOK /\ Unborn
  BY DEF HolderInv
<1>1. /\ pc[c] = "comp" /\ pc' = [pc EXCEPT ![c] = "init"] /\ comp_thread_created' = TRUE
      /\ cpc' = IF comp_thread_created THEN cpc
                ELSE [t \in CompThreads |-> IF t[1] = c THEN "poll" ELSE cpc[t]]
      /\ UNCHANGED <<closing, cphase, stop_io_thread, compression_queue, ipc>>
  BY DEF OpenCompThreads, closeVars, queueVars, ctlVars, ioVars
<1>2. c \in Compressed /\ ~Closing /\ ~AllShut
  BY <1>1 DEF CompCalm, Phases, Opening, AllShut
<1>3. \A d \in Chans : pc'[d] \in {"count", "comp"} \/ closing'[d] = "deccomp" => d \in Compressed
  BY <1>0, <1>1, <1>2 DEF CompCalm, TypeOK, ChanOK
<1>4. CASE comp_thread_created
  <2>1. UNCHANGED <<cpc, comp_thread_created>>
    BY <1>1, <1>4
  <2>2. /\ DeadComp' = DeadComp /\ \A t \in CompThreads : Born(t)' <=> Born(t)
    BY <2>1 DEF DeadComp, Born
  <2> QED
    BY <1>1, <1>2, <1>3, <1>4, <2>1, <2>2 DEF CompCalm
<1>5. CASE ~comp_thread_created
  <2>1. \A t \in CompThreads : ~Born(t)
    BY <1>2, <1>5 DEF CompCalm
  <2>2. \A t \in CompThreads : cpc'[t] = IF t[1] = c THEN "poll" ELSE "unborn"
    BY <1>1, <1>5, <2>1 DEF Born
  <2>3. \A t \in CompThreads : Born(t)' <=> t[1] = c
    BY <2>2 DEF Born
  <2>4. DeadComp = {} /\ DeadComp' = {}
    BY <2>1, <2>2 DEF DeadComp, Born
  <2>5. <<c, 1>> \in CompThreads
    BY SizesAssumption DEF CompThreads
  <2>6. \E t \in CompThreads : Born(t)'
    BY <2>3, <2>5
  <2>7. \A t \in CompThreads : cpc'[t] \notin {"stop", "dead"}
    BY <2>2
  <2> QED
    BY <1>1, <1>2, <1>3, <2>3, <2>4, <2>6, <2>7 DEF CompCalm
<1> QED
  BY <1>4, <1>5

\* There are finitely many threads, and the ones that ended are some of them.
LEMMA ThreadsFinite ==
  ASSUME Calm
  PROVE  IsFiniteSet(CompThreads) /\ IsFiniteSet(DeadComp)
<1>1. IsFiniteSet(1..COMP_THREAD_NUM)
  BY FS_Interval, SizesAssumption
<1>2. IsFiniteSet(CompThreads)
  BY <1>1, FS_Product DEF CompThreads, Calm
<1>3. DeadComp \in SUBSET CompThreads
  BY DEF DeadComp
<1> QED
  BY <1>2, <1>3, FS_Subset

\* A compression thread leaves its loop and ends.
LEMMA CompStepCalm ==
  ASSUME Calm, HolderInv, Phases, ExitCalm, CompCalm, Counts, [Next]_vars, NEW t \in CompThreads, CompStep(t)
  PROVE  CompCalm'
<1>0. /\ TypeOK /\ Unborn /\ (AllShut => AllShut')
      /\ AllShut /\ compression_queue = <<>> => compression_queue' = <<>>
  BY PhasesStep, QueueShut DEF HolderInv
<1>1. UNCHANGED <<pc, closing, ipc, comp_thread_created>>
  BY DEF CompStep, CompPop, CompLeaveLoop, CompDrained, CompStop, CompressBlock, SendBackLoad, SendBackStore,
     CompPush, chanVars, closeVars, ctlVars, ioVars
<1>2. /\ cpc[t] \notin {"unborn", "dead"} /\ cpc'[t] # "unborn"
      /\ \A u \in CompThreads : u # t => cpc'[u] = cpc[u] /\ cphase'[u] = cphase[u]
  BY <1>0 DEF CompStep, CompPop, CompLeaveLoop, CompDrained, CompStop, CompressBlock, SendBackLoad, SendBackStore,
     CompPush, TypeOK, CompOK, compVars
<1>3. \A u \in CompThreads : Born(u)' <=> Born(u)
  BY <1>2 DEF Born
<1>4. cphase'[t] = "drain" => AllShut'
  <2>1. CASE CompLeaveLoop(t)
    <3>1. AllShut
      BY <1>2, <2>1, NoneLeft DEF CompLeaveLoop, Born
    <3> QED
      BY <1>0, <3>1
  <2>2. CASE UNCHANGED cphase
    BY <1>0, <2>2 DEF CompCalm
  <2> QED
    BY <2>1, <2>2 DEF CompStep, CompPop, CompDrained, CompStop, CompressBlock, SendBackLoad, SendBackStore,
       CompPush
<1>5. cpc'[t] \in {"stop", "dead"} => cphase'[t] = "drain" /\ compression_queue' = <<>>
  <2>1. CASE CompDrained(t)
    BY <2>1 DEF CompDrained, queueVars
  <2>2. CASE CompStop(t)
    BY <2>2 DEF CompStop, queueVars, CompCalm
  <2>3. CASE ~(CompDrained(t) \/ CompStop(t))
    BY <1>0, <2>3 DEF CompStep, CompPop, CompLeaveLoop, CompressBlock, SendBackLoad, SendBackStore,
       CompPush, TypeOK, CompOK
  <2> QED
    BY <2>1, <2>2, <2>3
<1>6. \A u \in CompThreads : cpc'[u] \in {"stop", "dead"} => cphase'[u] = "drain" /\ compression_queue' = <<>>
  BY <1>0, <1>2, <1>5 DEF CompCalm
<1>7. \A u \in CompThreads : cphase'[u] = "drain" => AllShut'
  BY <1>0, <1>2, <1>4 DEF CompCalm
<1>8. stop_io_thread' = Cardinality(DeadComp')
  <2>1. CASE CompStop(t)
    <3>1. cpc' = [cpc EXCEPT ![t] = "dead"] /\ cpc[t] = "stop" /\ stop_io_thread' = stop_io_thread + 1
      BY <2>1 DEF CompStop
    <3>2. t \notin DeadComp /\ DeadComp' = DeadComp \cup {t}
      BY <1>0, <3>1 DEF DeadComp, TypeOK, CompOK
    <3> QED
      BY <3>1, <3>2, ThreadsFinite, CountUp DEF CompCalm
  <2>2. CASE ~CompStop(t)
    <3>1. UNCHANGED stop_io_thread /\ cpc'[t] # "dead"
      BY <1>0, <2>2 DEF CompStep, CompPop, CompLeaveLoop, CompDrained, CompressBlock, SendBackLoad, SendBackStore,
         CompPush, TypeOK, CompOK, ctlVars
    <3>2. DeadComp' = DeadComp
      BY <1>2, <3>1 DEF DeadComp
    <3> QED
      BY <3>1, <3>2 DEF CompCalm
  <2> QED
    BY <2>1, <2>2
<1>9. /\ \A c \in Chans : pc'[c] \in {"count", "comp"} \/ closing'[c] = "deccomp" => c \in Compressed
      /\ \A u \in CompThreads : Born(u)' => u[1] \in Compressed
      /\ \A u, v \in CompThreads : Born(u)' /\ Born(v)' => u[1] = v[1]
      /\ \A u, v \in CompThreads : Born(u)' /\ u[1] = v[1] => Born(v)'
      /\ \A u \in CompThreads : Born(u)' => comp_thread_created' \/ AllShut'
      /\ comp_thread_created' => \E u \in CompThreads : Born(u)'
      /\ ~comp_thread_created' => \/ \A c \in Compressed : pc'[c] \in Opening \ {"init"}
                                  \/ \E g \in IOThreads : ipc'[g] = "dead"
  BY <1>0, <1>1, <1>3 DEF CompCalm
<1> QED
  BY <1>6, <1>7, <1>8, <1>9 DEF CompCalm

\* The part of the compression threads is kept by every step.
LEMMA CompCalmStep ==
  ASSUME Calm, HolderInv, Phases, ExitCalm, CompCalm, IOCalm, Counts, [Next]_vars
  PROVE  CompCalm'
<1>0. /\ TypeOK /\ CallsApart /\ (AllShut => AllShut')
      /\ AllShut /\ compression_queue = <<>> => compression_queue' = <<>>
  BY PhasesStep, QueueShut DEF HolderInv
<1>1. ASSUME NEW c \in Chans, Request(c) PROVE CompCalm'
  <2>1. UNCHANGED <<cpc, cphase, stop_io_thread, comp_thread_created, ipc>>
    BY <1>1, RequestMoves
  <2>2. \A d \in Chans : pc'[d] \in {"count", "comp"} \/ closing'[d] = "deccomp" => d \in Compressed
    BY <1>1, RequestMoves DEF CompCalm
  <2>3. \A d \in Compressed : pc[d] \in Opening \ {"init"} => pc'[d] \in Opening \ {"init"}
    BY <1>1, RequestMoves, SetsAssumption DEF Opening
  <2> QED
    BY <1>0, <2>1, <2>2, <2>3, CompQuiet
<1>2. ASSUME NEW c \in Chans, CallStep(c), ~OpenCompThreads(c) PROVE CompCalm'
  <2>1. UNCHANGED <<closing, cpc, cphase, stop_io_thread, comp_thread_created>>
    BY <1>2 DEF CallStep, OpenIOThread, OpenIOStore, OpenCountComp, OpenDone, WriteFirst, WriteOnBlock,
       EnqueueFull, DequeueEmpty, ctlVars, compVars, closeVars
  <2>2. pc'[c] \in {"count", "comp"} => c \in Compressed
    BY <1>0, <1>2 DEF CallStep, OpenIOThread, OpenIOStore, OpenCountComp, OpenDone, WriteFirst, WriteOnBlock,
       EnqueueFull, DequeueEmpty, AfterIO, TypeOK, ChanOK, CompCalm
  <2>3. c \in Compressed /\ pc[c] \in Opening \ {"init"} => pc'[c] \in Opening \ {"init"}
    BY <1>0, <1>2 DEF CallStep, OpenIOThread, OpenIOStore, OpenCountComp, OpenDone, WriteFirst, WriteOnBlock,
       EnqueueFull, DequeueEmpty, AfterIO, Opening, TypeOK, ChanOK
  <2>4. \A d \in Chans : d # c => pc'[d] = pc[d]
    BY <1>2, CallMoves
  <2>5. \A g \in IOThreads : ipc[g] = "dead" => ipc'[g] = "dead"
    BY <1>0, <1>2 DEF CallStep, OpenIOThread, OpenIOStore, OpenCountComp, OpenDone, WriteFirst, WriteOnBlock,
       EnqueueFull, DequeueEmpty, ioVars, HolderInv, Unborn, IOThreads, TypeOK, IOOK
  <2>6. /\ \A d \in Chans : pc'[d] \in {"count", "comp"} \/ closing'[d] = "deccomp" => d \in Compressed
        /\ \A d \in Compressed : pc[d] \in Opening \ {"init"} => pc'[d] \in Opening \ {"init"}
    BY <2>1, <2>2, <2>3, <2>4, SetsAssumption DEF CompCalm
  <2> QED
    BY <1>0, <2>1, <2>5, <2>6, CompQuiet
<1>3. ASSUME NEW c \in Chans, CloseStep(c) PROVE CompCalm'
  <2>1. /\ UNCHANGED <<pc, cpc, cphase, stop_io_thread, comp_thread_created, ipc>>
        /\ \A d \in Chans : d # c => closing'[d] = closing[d]
    BY <1>3, CloseMoves
  <2>2. closing'[c] = "deccomp" => c \in Compressed
    BY <1>0, <1>3 DEF CloseStep, CloseMark, CloseEnqueue, CloseDecComp, CloseDec, TypeOK, ChanOK
  <2>3. \A d \in Chans : pc'[d] \in {"count", "comp"} \/ closing'[d] = "deccomp" => d \in Compressed
    BY <2>1, <2>2 DEF CompCalm
  <2> QED
    BY <1>0, <2>1, <2>3, CompQuiet
<1>4. ASSUME NEW g \in IOThreads, IOClearComp(g) PROVE CompCalm'
  <2>1. /\ ipc[g] = "clear_comp" /\ ipc' = [ipc EXCEPT ![g] = "dead"] /\ comp_thread_created' = FALSE
        /\ UNCHANGED <<pc, closing, cpc, cphase, stop_io_thread, compression_queue>>
    BY <1>4 DEF IOClearComp, chanVars, closeVars, compVars, queueVars
  <2>2. AllShut /\ AllShut'
    BY <1>0, <2>1 DEF IOCalm, Ended
  <2>3. ipc'[g] = "dead"
    BY <1>0, <2>1 DEF TypeOK, IOOK
  <2>4. DeadComp' = DeadComp /\ \A t \in CompThreads : Born(t)' <=> Born(t)
    BY <2>1 DEF DeadComp, Born
  <2> QED
    BY <2>1, <2>2, <2>3, <2>4 DEF CompCalm
<1>5. ASSUME NEW g \in IOThreads, IOStep(g), ~IOClearComp(g) PROVE CompCalm'
  <2>1. UNCHANGED <<pc, closing, cpc, cphase, stop_io_thread, comp_thread_created>>
    BY <1>5 DEF IOStep, IOTest, IOLoopTest, IOTestLeft, IOTestRight, IOPop, IOEmpty, WriteUncompressed,
       SendBackUncompressed, ParkCompressed, WriteCompressed, UnparkCompressed, UnparkDone,
       IOTerminate, IOClearIO, chanVars, closeVars, compVars, ctlVars
  <2>2. ipc[g] # "dead" /\ \A h \in IOThreads : h # g => ipc'[h] = ipc[h]
    BY <1>0, <1>5 DEF IOStep, IOTest, IOLoopTest, IOTestLeft, IOTestRight, IOPop, IOEmpty, WriteUncompressed,
       SendBackUncompressed, ParkCompressed, WriteCompressed, UnparkCompressed, UnparkDone,
       IOTerminate, IOClearIO, ioVars, TypeOK, IOOK
  <2>3. \A c \in Chans : pc'[c] \in {"count", "comp"} \/ closing'[c] = "deccomp" => c \in Compressed
    BY <2>1 DEF CompCalm
  <2> QED
    BY <1>0, <2>1, <2>2, <2>3, CompQuiet
<1>6. CASE ExitRequest \/ ExitStep
  <2>1. UNCHANGED <<pc, cpc, cphase, stop_io_thread, comp_thread_created, ipc>>
    BY <1>6, SweepMoves
  <2>2. \A c \in Chans : pc'[c] \in {"count", "comp"} \/ closing'[c] = "deccomp" => c \in Compressed
    BY <1>6, SweepMoves DEF CompCalm
  <2> QED
    BY <1>0, <2>1, <2>2, CompQuiet
<1>7. CASE UNCHANGED vars
  <2>1. UNCHANGED <<pc, closing, cpc, cphase, stop_io_thread, comp_thread_created, ipc>>
    BY <1>7 DEF vars, chanVars, closeVars, compVars, ctlVars, ioVars
  <2>2. \A c \in Chans : pc'[c] \in {"count", "comp"} \/ closing'[c] = "deccomp" => c \in Compressed
    BY <2>1 DEF CompCalm
  <2> QED
    BY <1>0, <2>1, <2>2, CompQuiet
<1> QED
  BY <1>1, <1>2, <1>3, <1>4, <1>5, <1>6, <1>7, StepKinds, OpenCompCalm, CompStepCalm

\* The IO thread that leaves its loop finds every channel shut, every compression thread
\* ended and the compression queue empty.
LEMMA IOLeaves ==
  ASSUME Calm, HolderInv, Phases, CompCalm, IOCalm, Counts, NEW g \in IOThreads, ipc[g] = "test",
         ~CompRuns, ~IORuns
  PROVE  /\ AllShut /\ compression_queue = <<>>
         /\ \A t \in CompThreads : cpc[t] \in {"unborn", "dead"}
<1>1. CASE comp_thread_created
  <2>1. stop_io_thread = COMP_THREAD_NUM
    BY <1>1 DEF CompRuns
  <2>2. PICK t \in CompThreads : Born(t)
    BY <1>1 DEF CompCalm
  <2>3. PICK d \in Chans : d = t[1]
    BY DEF CompThreads
  <2> DEFINE D == {d} \X (1..COMP_THREAD_NUM)
  <2>4. IsFiniteSet({d}) /\ Cardinality({d}) = 1
    BY FS_Singleton
  <2>5. /\ IsFiniteSet(1..COMP_THREAD_NUM) /\ Cardinality(1..COMP_THREAD_NUM) = COMP_THREAD_NUM
        /\ COMP_THREAD_NUM \in Nat
    BY FS_Interval, SizesAssumption
  <2>a. IsFiniteSet(D) /\ Cardinality(D) = Cardinality({d}) * Cardinality(1..COMP_THREAD_NUM)
    BY <2>4, <2>5, FS_Product
  <2>6. IsFiniteSet(D) /\ Cardinality(D) = 1 * COMP_THREAD_NUM
    BY <2>4, <2>5, <2>a
  <2>7. DeadComp \in SUBSET D
    <3>1. ASSUME NEW u \in DeadComp PROVE u \in D
      <4>1. u \in CompThreads /\ Born(u)
        BY DEF DeadComp, Born
      <4>2. u[1] = d
        BY <2>2, <2>3, <4>1 DEF CompCalm
      <4> QED
        BY <4>1, <4>2 DEF CompThreads
    <3> QED
      BY <3>1
  <2>8. Cardinality(D) = Cardinality(DeadComp)
    BY <2>1, <2>5, <2>6 DEF CompCalm
  <2>9. D = DeadComp
    BY <2>6, <2>7, <2>8, FS_Subset
  <2>10. ASSUME NEW u \in CompThreads, Born(u) PROVE cpc[u] = "dead"
    <3>1. u[1] = d
      BY <2>2, <2>3, <2>10 DEF CompCalm
    <3>2. u \in D
      BY <3>1 DEF CompThreads
    <3> QED
      BY <2>9, <3>2 DEF DeadComp
  <2>11. cpc[t] = "dead"
    BY <2>2, <2>10
  <2>12. AllShut /\ compression_queue = <<>>
    BY <2>11 DEF CompCalm
  <2> QED
    BY <2>10, <2>12 DEF Born
<1>2. CASE ~comp_thread_created
  <2>1. num_buf_ch = 0
    BY <1>2 DEF IORuns
  <2>2. Counted = {}
    BY <2>1, CountedFinite, FS_EmptySet DEF Counts
  <2>3. g \in Chans /\ pc[g] \notin {"new", "io"}
    BY DEF HolderInv, Unborn, IOThreads
  <2>4. closing[g] = "done" /\ pc[g] = "idle"
    BY <2>2, <2>3 DEF Counted, HolderInv, CallsApart
  <2>5. AllShut
    BY <2>2, <2>3, <2>4 DEF AllShut, Closing, Shut, Counted
  <2>6. \A h \in IOThreads : ipc[h] # "dead"
    BY DEF IOCalm
  <2>7. Compressed = {}
    BY <1>2, <2>3, <2>4, <2>6 DEF CompCalm, Calm, Opening
  <2>8. \A t \in CompThreads : cpc[t] = "unborn"
    BY <2>7 DEF CompCalm, Born
  <2>9. compression_queue = <<>>
    <3>1. \A i \in 1..Len(compression_queue) : FALSE
      BY <2>7 DEF HolderInv, KindsRight
    <3>2. compression_queue \in Seq(Blocks)
      BY DEF HolderInv, TypeOK, QueueOK
    <3>3. Len(compression_queue) = 0
      BY <3>1, <3>2
    <3> QED
      BY <3>2, <3>3
  <2> QED
    BY <2>5, <2>8, <2>9
<1> QED
  BY <1>1, <1>2

\* What the IO thread needs of a step that is not its own.
LEMMA IOQuiet ==
  ASSUME Calm, HolderInv, Phases, ExitCalm, IOCalm, [Next]_vars,
         UNCHANGED <<ipc, iphase, io_thread_created>>,
         \/ buffer_write_thread' # NULL
         \/ /\ UNCHANGED buffer_write_thread
            /\ \A c \in Chans : pc[c] = "iostore" => pc'[c] = "iostore",
         io_thread_created \/ Over \/ \A c \in Chans : pc[c] \in {"new", "io"} => pc'[c] \in {"new", "io"}
  PROVE  IOCalm'
<1>1. Over' <=> Over
  BY DEF Over
<1>2. \A g \in IOThreads : Ended(g)' <=> Ended(g)
  BY DEF Ended
<1>3. \A g \in IOThreads : iphase'[g] = "flush" =>
        /\ AllShut' /\ compression_queue' = <<>>
        /\ \A t \in CompThreads : cpc'[t] \in {"unborn", "dead"}
  BY PhasesStep, QueueShut DEF IOCalm
<1>4. \A g \in IOThreads : Ended(g)' => iphase'[g] = "flush" /\ io_queue' = <<>>
  BY <1>2, QueueShut DEF IOCalm
<1>5. io_thread_created' => \/ buffer_write_thread' # NULL \/ Over'
                            \/ \E c \in Chans : pc'[c] = "iostore"
  BY <1>1 DEF IOCalm
<1>6. ~io_thread_created' => Over' \/ \A c \in Chans : pc'[c] \in {"new", "io"}
  BY <1>1 DEF IOCalm
<1>7. /\ \A g, h \in IOThreads : ipc'[g] # "unborn" /\ ipc'[h] # "unborn" => g = h
      /\ \A g \in IOThreads : ipc'[g] # "unborn" => io_thread_created' \/ Over'
      /\ \A g \in IOThreads : ipc'[g] # "test2" /\ (ipc'[g] = "test" => iphase'[g] = "loop")
  BY <1>1 DEF IOCalm
<1> QED
  BY <1>3, <1>4, <1>5, <1>6, <1>7 DEF IOCalm

\* The first channel that needs it starts the IO thread.
LEMMA OpenIOCalm ==
  ASSUME Calm, HolderInv, Phases, ExitCalm, IOCalm, [Next]_vars, NEW c \in Chans, OpenIOThread(c), Running
  PROVE  IOCalm'
<1>0. TypeOK /\ Unborn
  BY DEF HolderInv
<1>1. /\ pc[c] = "io" /\ io_thread_created' = TRUE /\ UNCHANGED <<iphase, buffer_write_thread>>
      /\ \A d \in Chans : d # c => pc'[d] = pc[d]
  BY <1>0 DEF OpenIOThread, TypeOK, ChanOK
<1>2. ~AllShut /\ ~Over /\ (\A g \in IOThreads : iphase[g] # "flush" /\ ~Ended(g))
  BY <1>1 DEF Phases, AllShut, Opening, Over, IOCalm, Ended
<1>3. CASE io_thread_created
  <2>1. UNCHANGED <<ipc, io_thread_created>>
    BY <1>1, <1>3 DEF OpenIOThread
  <2>2. \A d \in Chans : pc[d] = "iostore" => pc'[d] = "iostore"
    BY <1>1
  <2> QED
    BY <1>1, <1>3, <2>1, <2>2, IOQuiet
<1>4. CASE ~io_thread_created
  <2>1. \A g \in IOThreads : ipc[g] = "unborn"
    BY <1>2, <1>4 DEF IOCalm
  <2>2. /\ pc'[c] = "iostore"
        /\ \A g \in IOThreads : ipc'[g] = IF g = c THEN "test" ELSE "unborn"
    BY <1>0, <1>4, <2>1 DEF OpenIOThread, TypeOK, ChanOK, IOOK
  <2>3. \A g \in IOThreads : ~Ended(g)' /\ iphase'[g] = "loop"
    BY <1>0, <1>1, <1>2, <2>2 DEF Ended, TypeOK, IOOK
  <2> QED
    BY <1>1, <2>2, <2>3 DEF IOCalm
<1> QED
  BY <1>3, <1>4

\* The IO thread works, leaves its loop and ends.
LEMMA IOStepCalm ==
  ASSUME Calm, HolderInv, Phases, ExitCalm, CompCalm, IOCalm, Counts, [Next]_vars, NEW g \in IOThreads, IOStep(g)
  PROVE  IOCalm'
<1>0. TypeOK /\ (AllShut => AllShut')
  BY PhasesStep DEF HolderInv
<1>1. UNCHANGED <<pc, closing, cpc, compression_queue>>
  BY DEF IOStep, IOTest, IOLoopTest, IOTestLeft, IOTestRight, IOPop, IOEmpty, WriteUncompressed,
     SendBackUncompressed, ParkCompressed, WriteCompressed, UnparkCompressed, UnparkDone,
     IOTerminate, IOClearIO, IOClearComp, chanVars, closeVars, compVars, queueVars
<1>2. /\ ipc[g] \notin {"unborn", "dead"} /\ ipc'[g] # "unborn"
      /\ \A h \in IOThreads : h # g => ipc'[h] = ipc[h] /\ iphase'[h] = iphase[h]
  BY <1>0 DEF IOStep, IOTest, IOLoopTest, IOTestLeft, IOTestRight, IOPop, IOEmpty, WriteUncompressed,
     SendBackUncompressed, ParkCompressed, WriteCompressed, UnparkCompressed, UnparkDone,
     IOTerminate, IOClearIO, IOClearComp, AfterBlock, ioVars, TypeOK, IOOK
<1>3. \A h \in IOThreads : h # g => ipc[h] = "unborn" /\ ipc'[h] = "unborn"
  BY <1>2 DEF IOCalm
<1>4. \A h \in IOThreads : h # g => iphase[h] # "flush" \/ iphase[h] = iphase'[h]
  BY <1>2
<1>5. ipc[g] = "test" => iphase[g] = "loop"
  BY DEF IOCalm
\* what is left to show of the thread itself
<1>6. SUFFICES
        /\ io_thread_created' \/ Over'
        /\ io_thread_created' => \/ buffer_write_thread' # NULL \/ Over'
                                 \/ \E c \in Chans : pc'[c] = "iostore"
        /\ ipc'[g] # "test2" /\ (ipc'[g] = "test" => iphase'[g] = "loop")
        /\ iphase'[g] = "flush" =>
             /\ AllShut /\ compression_queue = <<>>
             /\ \A t \in CompThreads : cpc[t] \in {"unborn", "dead"}
        /\ Ended(g)' => iphase'[g] = "flush" /\ io_queue' = <<>>
  <2>1. ~io_thread_created' => Over' \/ \A c \in Chans : pc'[c] \in {"new", "io"}
    BY <1>6
  <2>2. \A h, k \in IOThreads : ipc'[h] # "unborn" /\ ipc'[k] # "unborn" => h = k
    BY <1>3
  <2>3. \A h \in IOThreads : ipc'[h] # "test2" /\ (ipc'[h] = "test" => iphase'[h] = "loop")
    BY <1>3, <1>6
  <2>4. \A h \in IOThreads : iphase'[h] = "flush" =>
          /\ AllShut' /\ compression_queue' = <<>>
          /\ \A t \in CompThreads : cpc'[t] \in {"unborn", "dead"}
    BY <1>0, <1>1, <1>2, <1>6 DEF IOCalm
  <2>5. \A h \in IOThreads : Ended(h)' => iphase'[h] = "flush" /\ io_queue' = <<>>
    BY <1>3, <1>6 DEF Ended
  <2> QED
    BY <1>6, <2>1, <2>2, <2>3, <2>4, <2>5 DEF IOCalm
<1>7. CASE ipc[g] = "test"
  <2>1. IOTest(g)
    BY <1>7 DEF IOStep, IOTest, IOTestLeft, IOTestRight, IOPop, IOEmpty, WriteUncompressed,
       SendBackUncompressed, ParkCompressed, WriteCompressed, UnparkCompressed, UnparkDone,
       IOTerminate, IOClearIO, IOClearComp, Calm
  <2>2. /\ UNCHANGED <<io_thread_created, buffer_write_thread>> /\ ipc'[g] = "pop"
        /\ iphase'[g] = "flush" => ~CompRuns /\ ~IORuns
    BY <1>0, <2>1 DEF IOTest, IOLoopTest, ctlVars, TypeOK, IOOK
  <2>3. ~Over /\ io_thread_created
    BY <1>2, <1>3, <1>7 DEF Over, IOCalm
  <2>4. iphase'[g] = "flush" =>
             /\ AllShut /\ compression_queue = <<>>
             /\ \A t \in CompThreads : cpc[t] \in {"unborn", "dead"}
    BY <1>7, <2>2, IOLeaves
  <2>5. ~Ended(g)'
    BY <2>2 DEF Ended
  <2>6. buffer_write_thread' # NULL \/ \E c \in Chans : pc'[c] = "iostore"
    BY <1>1, <2>2, <2>3 DEF IOCalm
  <2> QED
    BY <2>2, <2>3, <2>4, <2>5, <2>6
<1>8. CASE ipc[g] = "term"
  <2>1. IOTerminate(g)
    BY <1>8 DEF IOStep, IOTest, IOTestLeft, IOTestRight, IOPop, IOEmpty, WriteUncompressed,
       SendBackUncompressed, ParkCompressed, WriteCompressed, UnparkCompressed, UnparkDone,
       IOTerminate, IOClearIO, IOClearComp
  <2>2. /\ UNCHANGED <<io_thread_created, iphase, io_queue>>
        /\ \/ UNCHANGED <<ipc, buffer_write_thread>>
           \/ ipc'[g] = "clear_io"
    BY <1>0, <2>1 DEF IOTerminate, queueVars, TypeOK, IOOK
  <2>3. ~Over /\ io_thread_created
    BY <1>2, <1>3, <1>8 DEF Over, IOCalm
  <2>4. iphase[g] = "flush" /\ io_queue = <<>>
    BY <1>8 DEF IOCalm, Ended
  <2>5. CASE UNCHANGED <<ipc, buffer_write_thread>>
    BY <1>1, <1>8, <2>2, <2>3, <2>4, <2>5 DEF IOCalm
  <2>6. CASE ipc'[g] = "clear_io"
    <3>1. Over'
      BY <2>6 DEF Over
    <3> QED
      BY <1>1, <2>2, <2>3, <2>4, <2>6, <3>1 DEF IOCalm
  <2> QED
    BY <2>2, <2>5, <2>6
<1>9. CASE ipc[g] \in {"clear_io", "clear_comp"}
  <2>1. IOClearIO(g) \/ IOClearComp(g)
    BY <1>9 DEF IOStep, IOTest, IOTestLeft, IOTestRight, IOPop, IOEmpty, WriteUncompressed,
       SendBackUncompressed, ParkCompressed, WriteCompressed, UnparkCompressed, UnparkDone,
       IOTerminate, IOClearIO, IOClearComp
  <2>2. ipc'[g] \in {"clear_comp", "dead"} /\ UNCHANGED <<iphase, io_queue>>
    BY <1>0, <2>1 DEF IOClearIO, IOClearComp, queueVars, TypeOK, IOOK
  <2>3. Over'
    BY <2>2 DEF Over
  <2>4. iphase[g] = "flush" /\ io_queue = <<>>
    BY <1>9 DEF IOCalm, Ended
  <2> QED
    BY <1>1, <2>2, <2>3, <2>4 DEF IOCalm
<1>10. CASE ipc[g] \notin {"test", "term", "clear_io", "clear_comp"}
  <2>1. /\ UNCHANGED <<iphase, io_thread_created, buffer_write_thread>>
        /\ ipc'[g] \in {"pop", "writeraw", "sendback", "writecomp", "unpark"}
           \/ (ipc'[g] = "test" /\ iphase[g] = "loop")
           \/ (ipc'[g] = "term" /\ iphase[g] # "loop" /\ io_queue = <<>> /\ UNCHANGED io_queue)
    <3>1. ipc[g] # "test2"
      BY DEF IOCalm
    <3> QED
      BY <1>0, <1>10, <3>1 DEF IOStep, IOTest, IOTestLeft, IOTestRight, IOPop, IOEmpty, WriteUncompressed,
         SendBackUncompressed, ParkCompressed, WriteCompressed, UnparkCompressed, UnparkDone, IOTerminate, IOClearIO,
         IOClearComp, AfterBlock, ctlVars, ioVars, queueVars, TypeOK, IOOK
  <2>2. ~Over /\ io_thread_created
    BY <1>2, <1>3, <1>10 DEF Over, IOCalm
  <2>3. iphase[g] \in {"loop", "flush"}
    BY <1>0 DEF TypeOK, IOOK
  <2>4. Ended(g)' => iphase'[g] = "flush" /\ io_queue' = <<>>
    BY <2>1, <2>3 DEF Ended
  <2> QED
    BY <1>1, <2>1, <2>2, <2>4 DEF IOCalm
<1> QED
  BY <1>7, <1>8, <1>9, <1>10

\* The part of the IO thread is kept by every step.
LEMMA IOCalmStep ==
  ASSUME Calm, HolderInv, Phases, ExitCalm, CompCalm, IOCalm, Counts, [Next]_vars
  PROVE  IOCalm'
<1>0. TypeOK
  BY DEF HolderInv
<1>1. ASSUME NEW c \in Chans, Request(c) PROVE IOCalm'
  <2>1. UNCHANGED <<ipc, iphase, io_thread_created, buffer_write_thread>>
    BY <1>1, RequestMoves
  <2>2. \A d \in Chans : /\ pc[d] = "iostore" => pc'[d] = "iostore"
                         /\ pc[d] \in {"new", "io"} => pc'[d] \in {"new", "io"}
    BY <1>1, RequestMoves
  <2> QED
    BY <2>1, <2>2, IOQuiet
<1>2. ASSUME NEW c \in Chans, CallStep(c), ~OpenIOThread(c) PROVE IOCalm'
  <2>1. /\ UNCHANGED <<ipc, iphase, io_thread_created>>
        /\ pc[c] \notin {"new", "io"}
    BY <1>2 DEF CallStep, OpenIOStore, OpenCountComp, OpenCompThreads, OpenDone, WriteFirst, WriteOnBlock,
       EnqueueFull, DequeueEmpty, ctlVars, ioVars
  <2>2. buffer_write_thread' # NULL \/ (UNCHANGED buffer_write_thread /\ pc[c] # "iostore")
    BY <1>2, SetsAssumption DEF CallStep, OpenIOStore, OpenCountComp, OpenCompThreads, OpenDone, WriteFirst,
       WriteOnBlock, EnqueueFull, DequeueEmpty, ctlVars
  <2>3. \A d \in Chans : d # c => pc'[d] = pc[d]
    BY <1>2, CallMoves
  <2>4. io_thread_created \/ Over \/ \A d \in Chans : pc[d] \in {"new", "io"} => pc'[d] \in {"new", "io"}
    BY <2>1, <2>3
  <2> QED
    BY <2>1, <2>2, <2>3, <2>4, IOQuiet
<1>3. ASSUME NEW c \in Chans, CloseStep(c) PROVE IOCalm'
  BY <1>3, CloseMoves, IOQuiet
<1>4. ASSUME NEW t \in CompThreads, CompStep(t) PROVE IOCalm'
  <2>1. UNCHANGED <<ipc, iphase, io_thread_created, buffer_write_thread, pc>>
    BY <1>4 DEF CompStep, CompPop, CompLeaveLoop, CompDrained, CompStop, CompressBlock, SendBackLoad,
       SendBackStore, CompPush, chanVars, ctlVars, ioVars
  <2> QED
    BY <2>1, IOQuiet
<1>5. CASE ExitRequest \/ ExitStep
  BY <1>5, SweepMoves, IOQuiet
<1>6. CASE UNCHANGED vars
  <2>1. UNCHANGED <<ipc, iphase, io_thread_created, buffer_write_thread, pc>>
    BY <1>6 DEF vars, chanVars, ctlVars, ioVars
  <2> QED
    BY <2>1, IOQuiet
<1>7. ASSUME NEW c \in Chans, CallStep(c), OpenIOThread(c) PROVE IOCalm'
  BY <1>7, OpenIOCalm DEF CallStep
<1> QED
  BY <1>1, <1>2, <1>3, <1>4, <1>5, <1>6, <1>7, StepKinds, IOStepCalm

\* An IO thread that has ended stays so.
LEMMA OverStays ==
  ASSUME HolderInv, Over, [Next]_vars
  PROVE  Over'
<1>0. TypeOK /\ Unborn
  BY DEF HolderInv
<1>1. PICK g \in IOThreads : ipc[g] \in {"clear_io", "clear_comp", "dead"}
  BY DEF Over
<1>2. ASSUME NEW c \in Chans, Request(c) \/ CallStep(c) \/ CloseStep(c) PROVE ipc'[g] = ipc[g]
  <2>1. CASE OpenIOThread(c)
    <3>1. g # c
      BY <1>0, <1>1, <2>1 DEF OpenIOThread, Unborn
    <3> QED
      BY <1>0, <2>1, <3>1 DEF OpenIOThread, TypeOK, IOOK
  <2>2. CASE ~OpenIOThread(c)
    BY <1>2, <2>2 DEF Request, OpenChannel, LogTS, CloseChannel, CloseExchange, CallStep, OpenIOStore, OpenCountComp,
       OpenCompThreads, OpenDone, WriteFirst, WriteOnBlock, EnqueueFull, DequeueEmpty, CloseStep, CloseMark,
       CloseEnqueue, CloseDecComp, CloseDec, ioVars
  <2> QED
    BY <2>1, <2>2
<1>3. ASSUME NEW t \in CompThreads, CompStep(t) PROVE ipc'[g] = ipc[g]
  BY <1>3 DEF CompStep, CompPop, CompLeaveLoop, CompDrained, CompStop, CompressBlock, SendBackLoad,
     SendBackStore, CompPush, ioVars
<1>4. ASSUME NEW h \in IOThreads, IOStep(h) PROVE ipc'[g] \in {"clear_io", "clear_comp", "dead"}
  BY <1>0, <1>1, <1>4 DEF IOStep, IOTest, IOLoopTest, IOTestLeft, IOTestRight, IOPop, IOEmpty, WriteUncompressed,
     SendBackUncompressed, ParkCompressed, WriteCompressed, UnparkCompressed, UnparkDone,
     IOTerminate, IOClearIO, IOClearComp, ioVars, TypeOK, IOOK
<1>5. ExitRequest \/ ExitStep => UNCHANGED ipc
  BY DEF ExitRequest, NormalExit, Signal, ExitStep, ExitClose, CloseExchange, ExitClosed, ExitCheck,
     ExitLoad, ExitJoin, ioVars
<1>6. UNCHANGED vars => UNCHANGED ipc
  BY DEF vars, ioVars
<1>7. ipc'[g] \in {"clear_io", "clear_comp", "dead"}
  BY <1>1, <1>2, <1>3, <1>4, <1>5, <1>6, StepKinds
<1> QED
  BY <1>7 DEF Over

\* When a channel is open, none is being opened and no IO thread is known, the IO thread
\* has ended.
LEMMA NoThreadOver ==
  ASSUME IOCalm, buffer_write_thread = NULL, \A c \in Chans : pc[c] \in {"new", "idle"},
         \E c \in Chans : pc[c] = "idle"
  PROVE  Over
BY DEF IOCalm

\* The exit handlers end the process when the IO thread has ended.
LEMMA ExitCalmStep ==
  ASSUME Calm, HolderInv, Phases, ExitCalm, CompCalm, IOCalm, [Next]_vars
  PROVE  ExitCalm'
<1>0. TypeOK /\ (Over => Over') /\ (Over' => \E g \in IOThreads : Ended(g)')
  BY OverStays DEF HolderInv, Over, Ended
<1>1. ASSUME UNCHANGED <<pc, xpc, xmode, xthr, proc>>, Running \/ UNCHANGED ipc PROVE ExitCalm'
  BY <1>0, <1>1 DEF ExitCalm, Running, Ended
<1>2. ASSUME NEW c \in Chans, Request(c) PROVE ExitCalm'
  <2>1. /\ UNCHANGED <<xpc, xmode, xthr, proc>> /\ Running
        /\ xpc \notin {"close", "check", "load", "join"}
    BY <1>2, RequestMoves DEF Request
  <2> QED
    BY <2>1 DEF ExitCalm, Running
<1>3. ASSUME NEW c \in Chans, CallStep(c) PROVE ExitCalm'
  <2>1. /\ UNCHANGED <<xpc, xmode, xthr>> /\ Running /\ proc' \in {proc, "crashed"}
        /\ pc[c] \notin {"new", "idle"}
    BY <1>3, CallMoves DEF CallStep
  <2>2. xpc \notin {"close", "check", "load", "join"}
    BY <2>1 DEF ExitCalm
  <2> QED
    BY <2>1, <2>2 DEF ExitCalm, Running
<1>4. ASSUME NEW c \in Chans, CloseStep(c) PROVE ExitCalm'
  <2>1. Running
    BY <1>4 DEF CloseStep
  <2> QED
    BY <1>1, <1>4, <2>1, CloseMoves
<1>5. ASSUME NEW t \in CompThreads, CompStep(t) PROVE ExitCalm'
  <2>1. UNCHANGED <<pc, xpc, xmode, xthr, proc>> /\ Running
    BY <1>5 DEF CompStep, CompPop, CompLeaveLoop, CompDrained, CompStop, CompressBlock, SendBackLoad, SendBackStore,
       CompPush, chanVars, exitVars
  <2> QED
    BY <1>1, <2>1
<1>6. ASSUME NEW g \in IOThreads, IOStep(g) PROVE ExitCalm'
  <2>1. UNCHANGED <<pc, xpc, xmode, xthr>> /\ Running
    BY <1>6, ThreadMoves DEF IOStep
  <2>2. UNCHANGED proc \/ (ipc[g] = "term" /\ UNCHANGED ipc)
    BY <1>6 DEF IOStep, IOTest, IOLoopTest, IOTestLeft, IOTestRight, IOPop, IOEmpty, WriteUncompressed,
       SendBackUncompressed, ParkCompressed, WriteCompressed, UnparkCompressed, UnparkDone,
       IOTerminate, IOClearIO, IOClearComp, exitVars
  <2>3. CASE UNCHANGED proc
    BY <1>1, <2>1, <2>3
  <2>4. CASE ipc[g] = "term" /\ UNCHANGED ipc
    <3>1. Ended(g)'
      BY <2>4 DEF Ended
    <3> QED
      BY <1>0, <2>1, <3>1 DEF ExitCalm, Running
  <2> QED
    BY <2>2, <2>3, <2>4
<1>7. CASE ExitRequest
  <2>1. /\ \A c \in Chans : pc[c] \in {"new", "idle"}
        /\ \E c \in Chans : pc[c] = "idle"
    BY <1>7 DEF ExitRequest, NormalExit, Signal, ExitAllowed, InCall, Calm, Opening
  <2>2. /\ UNCHANGED <<pc, proc>> /\ xpc' = "close" /\ Running
        /\ xmode' = "quick" => buffer_write_thread = NULL
    BY <1>7 DEF ExitRequest, NormalExit, Signal, chanVars
  <2>3. xmode' = "quick" => Over'
    BY <1>0, <2>1, <2>2, NoThreadOver
  <2> QED
    BY <2>1, <2>2, <2>3 DEF ExitCalm, Running
<1>8. CASE ExitStep
  <2>1. xpc \in {"close", "check", "load", "join"} /\ UNCHANGED <<pc, ipc, xmode>> /\ Running
    BY <1>8 DEF ExitStep, ExitClose, CloseExchange, ExitClosed, ExitCheck, ExitLoad, ExitJoin, chanVars, ioVars,
       exitVars
  <2>2. /\ \A c \in Chans : pc[c] \in {"new", "idle"}
        /\ \E c \in Chans : pc[c] = "idle"
    BY <2>1 DEF ExitCalm
  <2>3. xpc' = "join" => xthr' \in IOThreads \/ proc' = "crashed"
    <3>1. CASE ExitLoad
      BY <1>0, <3>1 DEF ExitLoad, TypeOK, CtlOK, IOThreads
    <3>2. CASE ~ExitLoad
      BY <1>8, <2>1, <3>2 DEF ExitStep, ExitClose, CloseExchange, ExitClosed, ExitCheck, ExitJoin, exitVars, ExitCalm,
         Running
    <3> QED
      BY <3>1, <3>2
  <2>4. xpc' = "close" /\ xmode' = "quick" => Over'
    BY <1>0, <1>8, <2>1 DEF ExitStep, ExitClose, CloseExchange, ExitClosed, ExitCheck, ExitLoad, ExitJoin, exitVars,
       ExitCalm
  <2>5. proc' = "exited" => \E g \in IOThreads : Ended(g)'
    <3>1. ASSUME NEW c \in Chans, ExitClose(c) PROVE UNCHANGED proc
      BY <3>1 DEF ExitClose, CloseExchange, exitVars
    <3>2. CASE ExitClosed
      BY <1>0, <2>1, <3>2 DEF ExitClosed, ExitCalm, Running
    <3>3. CASE ExitCheck
      BY <1>0, <2>1, <2>2, <3>3, NoThreadOver DEF ExitCheck, Running
    <3>4. CASE ExitLoad
      BY <2>1, <3>4 DEF ExitLoad, Running
    <3>5. CASE ExitJoin
      <4>1. xthr \in IOThreads
        BY <2>1, <3>5 DEF ExitJoin, ExitCalm, Running
      <4>2. ipc'[xthr] = "dead"
        BY <2>1, <3>5 DEF ExitJoin
      <4> QED
        BY <4>1, <4>2 DEF Ended
    <3> QED
      BY <1>8, <2>1, <3>1, <3>2, <3>3, <3>4, <3>5 DEF ExitStep, Running
  <2> QED
    BY <2>1, <2>2, <2>3, <2>4, <2>5 DEF ExitCalm
<1>9. CASE UNCHANGED vars
  BY <1>1, <1>9 DEF vars, chanVars, exitVars, ioVars
<1> QED
  BY <1>2, <1>3, <1>4, <1>5, <1>6, <1>7, <1>8, <1>9, StepKinds

\* A channel without a file is one whose file could not be opened, and gets no tuple.
LEMMA FileCalmStep ==
  ASSUME Calm, HolderInv, ExitCalm, Phases, FileCalm, [Next]_vars
  PROVE  FileCalm'
<1>0. TypeOK
  BY DEF HolderInv
<1>1. ASSUME NEW c \in Chans, OpenDone(c) PROVE FileCalm'
  <2>1. /\ pc' = [pc EXCEPT ![c] = "idle"]
        /\ ch_logf' = [ch_logf EXCEPT ![c] = IF c \in Unopenable THEN "none" ELSE "open"]
        /\ log' = [log EXCEPT ![c] = [i \in 1..(1 + Direct(c)) |-> <<>>]]
    BY <1>1 DEF OpenDone, openLogFile
  <2>2. Direct(c) = 0
    BY DEF Direct, Calm
  <2>3. log'[c] = [i \in 1..1 |-> <<>>]
    BY <1>0, <2>1, <2>2 DEF TypeOK, HistOK
  <2>4. Len(log'[c]) = 1 /\ log'[c][1] = <<>>
    BY <2>3
  <2>5. pc'[c] = "idle" /\ ch_logf'[c] = (IF c \in Unopenable THEN "none" ELSE "open")
    BY <1>0, <2>1 DEF TypeOK, ChanOK, FileOK
  <2>6. \A d \in Chans : d # c => pc'[d] = pc[d] /\ ch_logf'[d] = ch_logf[d] /\ log'[d] = log[d]
    BY <1>0, <2>1 DEF TypeOK, ChanOK, FileOK, HistOK
  <2> QED
    BY <2>4, <2>5, <2>6 DEF FileCalm, Opening
<1>2. ASSUME NEW c \in Chans, CallStep(c), ~OpenDone(c) PROVE FileCalm'
  <2>1. /\ UNCHANGED ch_logf /\ \A d \in Chans : d # c => pc'[d] = pc[d] /\ log'[d] = log[d]
    BY <1>0, <1>2, CallMoves DEF CallStep, OpenIOThread, OpenIOStore, OpenCountComp, OpenCompThreads, WriteFirst,
       WriteOnBlock, EnqueueFull, DequeueEmpty, RecordTuple, fileVars, histVars, TypeOK, HistOK
  <2>2. \/ pc[c] \in Opening /\ pc'[c] \in Opening /\ UNCHANGED log
        \/ pc[c] \notin Opening /\ pc[c] # "idle" /\ pc'[c] \notin Opening
    BY <1>0, <1>2 DEF CallStep, OpenIOThread, OpenIOStore, OpenCountComp, OpenCompThreads, WriteFirst,
       WriteOnBlock, EnqueueFull, DequeueEmpty, AfterIO, Opening, TypeOK, ChanOK, histVars
  <2>3. pc[c] \notin Opening /\ pc[c] # "idle" => c \notin Unopenable /\ ch_logf[c] # "none"
    BY DEF FileCalm
  <2> QED
    BY <2>1, <2>2, <2>3 DEF FileCalm
<1>3. ASSUME NEW c \in Chans, Request(c) PROVE FileCalm'
  <2>1. UNCHANGED <<log, ch_logf>>
    BY <1>3, RequestMoves
  <2>2. \/ UNCHANGED pc
        \/ /\ c \notin Unopenable /\ pc[c] \notin Opening /\ pc'[c] = "write"
           /\ \A d \in Chans : d # c => pc'[d] = pc[d]
        \/ pc[c] = "new" /\ pc'[c] = "io" /\ \A d \in Chans : d # c => pc'[d] = pc[d]
    BY <1>3, RequestMoves DEF Opening
  <2> QED
    BY <2>1, <2>2 DEF FileCalm, Opening
<1>4. ASSUME NEW c \in Chans, CloseStep(c) PROVE FileCalm'
  BY <1>4, CloseMoves DEF FileCalm
<1>5. CASE (\E t \in CompThreads : CompStep(t)) \/ (\E g \in IOThreads : IOStep(g))
  <2>1. UNCHANGED <<pc, log>>
    BY <1>5, ThreadMoves
  <2>2. \A c \in Chans : ch_logf'[c] = "none" => ch_logf[c] = "none"
    <3>1. ASSUME NEW t \in CompThreads, CompStep(t) PROVE UNCHANGED ch_logf
      BY <3>1 DEF CompStep, CompPop, CompLeaveLoop, CompDrained, CompStop, CompressBlock, SendBackLoad,
         SendBackStore, CompPush, fileVars
    <3>2. ASSUME NEW g \in IOThreads, IOStep(g)
          PROVE  \/ UNCHANGED ch_logf
                 \/ \E c \in Chans, close \in BOOLEAN : closeLogFile(c, close)
      <4>1. CASE WriteUncompressed(g) \/ UnparkCompressed(g) \/ UnparkDone(g)
        <5>1. PICK d \in Item : d = idata[g]
          BY <1>0, <4>1 DEF TypeOK, IOOK, WriteUncompressed, UnparkCompressed, UnparkDone
        <5>2. PICK c \in Chans : c = idata[g].ch
          BY <5>1, ItemFacts
        <5>3. CASE WriteUncompressed(g)
          <6>1. PICK b \in Blocks : b = idata[g].blk
            BY <1>0, <5>3, HeldBlocks DEF WriteUncompressed, IOHolds
          <6>2. close_file[b] \in BOOLEAN
            BY <1>0 DEF TypeOK, BlockOK
          <6> QED
            BY <5>2, <5>3, <6>1, <6>2 DEF WriteUncompressed
        <5>4. CASE UnparkCompressed(g)
          <6>1. PICK i \in DOMAIN pending[c] : closeLogFile(c, pending[c][i].close_file)
            BY <5>2, <5>4 DEF UnparkCompressed
          <6>2. pending[c][i] \in Item
            BY <1>0 DEF TypeOK, FileOK
          <6>3. pending[c][i].close_file \in BOOLEAN
            BY <6>2, ItemFacts
          <6> QED
            BY <6>1, <6>3
        <5>5. CASE UnparkDone(g)
          <6>1. d.close_file \in BOOLEAN
            BY ItemFacts
          <6> QED
            BY <5>1, <5>2, <5>5, <6>1 DEF UnparkDone
        <5> QED
          BY <4>1, <5>3, <5>4, <5>5
      <4>2. CASE ~(WriteUncompressed(g) \/ UnparkCompressed(g) \/ UnparkDone(g))
        BY <3>2, <4>2 DEF IOStep, IOTest, IOLoopTest, IOTestLeft, IOTestRight, IOPop, IOEmpty,
           SendBackUncompressed, ParkCompressed, WriteCompressed, IOTerminate, IOClearIO, IOClearComp, fileVars
      <4> QED
        BY <4>1, <4>2
    <3>3. ASSUME NEW c \in Chans, NEW close \in BOOLEAN, closeLogFile(c, close), NEW d \in Chans, ch_logf'[d] = "none"
          PROVE  ch_logf[d] = "none"
      BY <1>0, <3>3 DEF closeLogFile, TypeOK, FileOK
    <3> QED
      BY <1>5, <3>1, <3>2, <3>3
  <2> QED
    BY <2>1, <2>2 DEF FileCalm
<1>6. CASE ExitRequest \/ ExitStep
  BY <1>6, SweepMoves DEF FileCalm
<1>7. CASE UNCHANGED vars
  BY <1>7 DEF vars, chanVars, fileVars, histVars, FileCalm
<1> QED
  BY <1>1, <1>2, <1>3, <1>4, <1>5, <1>6, <1>7, StepKinds

\* Nothing is open, counted or running at the start.
LEMMA CalmInit ==
  ASSUME Calm
  PROVE  Init => CalmInv
<1> SUFFICES ASSUME Init PROVE CalmInv
  OBVIOUS
<1>1. OrderInv
  BY OrderInit
<1>2. /\ \A c \in Chans : pc[c] = "new" /\ closing[c] = "no" /\ log[c] = <<>>
      /\ \A t \in CompThreads : cpc[t] = "unborn" /\ cphase[t] = "loop"
      /\ \A g \in IOThreads : ipc[g] = "unborn" /\ iphase[g] = "loop"
      /\ num_buf_ch = 0 /\ num_buf_comp_ch = 0 /\ stop_io_thread = 0
      /\ ~io_thread_created /\ ~comp_thread_created
      /\ xpc = "no" /\ proc = "run"
  BY DEF Init
<1>3. Counted = {} /\ CountedComp = {} /\ DeadComp = {}
  BY <1>2, SetsAssumption DEF Counted, CountedComp, DeadComp
<1>4. Counts
  BY <1>2, <1>3, FS_EmptySet DEF Counts
<1>5. Phases
  BY <1>2 DEF Phases
<1>6. stop_io_thread = Cardinality(DeadComp)
  BY <1>2, <1>3, FS_EmptySet
<1>7. CompCalm
  BY <1>2, <1>6, SetsAssumption DEF CompCalm, Born, Opening
<1>8. IOCalm
  BY <1>2 DEF IOCalm, Ended
<1>9. ExitCalm
  BY <1>2 DEF ExitCalm
<1>10. FileCalm
  BY <1>2 DEF FileCalm, Opening
<1> QED
  BY <1>1, <1>4, <1>5, <1>7, <1>8, <1>9, <1>10 DEF CalmInv

\* The invariant is kept by every step.
LEMMA CalmKept ==
  ASSUME Calm
  PROVE  CalmInv /\ [Next]_vars => CalmInv'
<1> SUFFICES ASSUME CalmInv, [Next]_vars PROVE CalmInv'
  OBVIOUS
<1>1. OrderInv /\ HolderInv /\ Counts /\ Phases /\ CompCalm /\ IOCalm /\ ExitCalm /\ FileCalm
  BY DEF CalmInv, OrderInv
<1>2. "async_exit" \notin Races /\ PushesApart
  BY DEF Calm, PushesApart
<1>3. OrderInv'
  BY <1>1, <1>2, OrderKept
<1>4. Counts' /\ Phases'
  BY <1>1, CountsStep, PhasesStep
<1>5. CompCalm' /\ IOCalm'
  BY <1>1, CompCalmStep, IOCalmStep
<1>6. ExitCalm' /\ FileCalm'
  BY <1>1, ExitCalmStep, FileCalmStep
<1> QED
  BY <1>3, <1>4, <1>5, <1>6 DEF CalmInv

\* When the process has ended the queues are empty, no thread works, and every channel has
\* handed over all of its blocks.
LEMMA EndFacts ==
  ASSUME Calm, CalmInv, proc = "exited"
  PROVE  /\ compression_queue = <<>> /\ io_queue = <<>>
         /\ \A t \in CompThreads : cpc[t] \in {"unborn", "dead"}
         /\ \A g \in IOThreads : ipc[g] \notin {"writeraw", "writecomp", "unpark"}
         /\ \A c \in Chans : pc[c] # "new" =>
              pc[c] \notin Opening /\ Enqueued(c) = block_cnt[c] /\ Len(log[c]) = block_cnt[c]
<1>1. IOCalm /\ ExitCalm /\ HolderInv /\ LogShape /\ TypeOK
  BY DEF CalmInv, OrderInv, OrderParts, HolderInv
<1>2. PICK g \in IOThreads : Ended(g)
  BY <1>1 DEF ExitCalm
<1>3. /\ io_queue = <<>> /\ AllShut /\ compression_queue = <<>>
      /\ \A t \in CompThreads : cpc[t] \in {"unborn", "dead"}
  BY <1>1, <1>2 DEF IOCalm
<1>4. \A h \in IOThreads : ipc[h] \notin {"writeraw", "writecomp", "unpark"}
  BY <1>1, <1>2 DEF IOCalm, Ended
<1>5. ASSUME NEW c \in Chans, pc[c] # "new"
      PROVE  pc[c] \notin Opening /\ Enqueued(c) = block_cnt[c] /\ Len(log[c]) = block_cnt[c]
  <2>1. closing[c] \in {"dec", "done"}
    BY <1>3, <1>5 DEF AllShut, Shut
  <2>2. pc[c] \notin Opening
    BY <1>1, <2>1 DEF TypeOK, ChanOK
  <2>3. ~ClosureHolds(c)
    BY <2>1 DEF ClosureHolds, Calm
  <2>4. Direct(c) = 0
    BY DEF Direct, Calm
  <2>5. block_cnt[c] \in Nat
    BY <1>1 DEF TypeOK, ChanOK
  <2> QED
    BY <1>1, <2>2, <2>3, <2>4, <2>5 DEF Enqueued, LogShape
<1> QED
  BY <1>3, <1>4, <1>5

\* A channel whose file has as many chunks as were handed over has lost nothing.
LEMMA CompleteAt ==
  ASSUME Calm, CalmInv, NEW c \in Chans, pc[c] # "new" => Len(log[c]) = block_cnt[c],
         pc[c] # "new" => pc[c] \notin Opening,
         pc[c] # "new" /\ ch_logf[c] = "open" => Done(c) >= block_cnt[c],
         NEW i \in 1..Len(log[c]), log[c][i] # <<>>
  PROVE  i <= Len(file[c]) /\ file[c][i] = log[c][i]
<1>1. FileCalm /\ TypeOK /\ FileAt(c)
  BY DEF CalmInv, OrderInv, OrderParts, HolderInv, FileRight
<1>2. log[c] \in Seq(Seq(Nat)) /\ file[c] \in Seq(Seq(Nat)) /\ Len(file[c]) \in Nat /\ i \in Nat
  BY <1>1 DEF TypeOK, HistOK, FileOK
<1>3. pc[c] # "new"
  BY <1>1, <1>2 DEF FileCalm, Opening
<1>4. ch_logf[c] \in {"open", "closed"}
  BY <1>1, <1>3 DEF FileCalm, TypeOK, FileOK
<1>5. CASE ch_logf[c] = "closed"
  BY <1>1, <1>2, <1>5 DEF FileAt
<1>6. CASE ch_logf[c] = "open"
  <2>1. Done(c) = Len(file[c])
    BY <1>2 DEF Done, FirstDue, Direct, Calm
  <2>2. i <= Len(file[c])
    BY <1>1, <1>2, <1>3, <1>6, <2>1
  <2> QED
    BY <1>1, <1>2, <2>2 DEF FileAt
<1> QED
  BY <1>4, <1>5, <1>6

\* A well-behaved application whose channels are not compressed loses no tuple when the
\* process ends through a cleanup handler, by exit() or by a signal: for every number of
\* channels (some of whose files may fail to open), of blocks and of tuples and every
\* length of the queue, all that was logged is in the files (cleanup.h, "It closes all
\* channels not to lose any log data").
THEOREM NothingLost ==
  ASSUME Races = {}, Tsc = {}, IsFiniteSet(Chans), Compressed = {}
  PROVE  Spec => []NoLossAtExit
<1>1. Calm
  BY DEF Calm
<1>2. CalmInv => NoLossAtExit
  <2> SUFFICES ASSUME CalmInv, proc = "exited", NEW c \in Chans, NEW i \in 1..Len(log[c]), log[c][i] # <<>>
               PROVE  i <= Len(file[c]) /\ file[c][i] = log[c][i]
    BY DEF NoLossAtExit
  <2>1. /\ io_queue = <<>> /\ \A g \in IOThreads : ipc[g] # "writeraw"
        /\ pc[c] # "new" => pc[c] \notin Opening /\ Enqueued(c) = block_cnt[c] /\ Len(log[c]) = block_cnt[c]
    BY <1>1, EndFacts
  <2>2. ASSUME pc[c] # "new", ch_logf[c] = "open" PROVE Done(c) >= block_cnt[c]
    <3>1. RawAt(c) /\ FileAt(c) /\ TypeOK /\ LogShape
      BY <2>2 DEF CalmInv, OrderInv, OrderParts, RawOrder, FileRight, HolderInv
    <3>2. \A n \in Nat : ~(Done(c) <= n /\ n < Enqueued(c))
      BY <2>1, <3>1 DEF RawAt, AtHand
    <3>3. Done(c) >= 0 /\ Done(c) \in Int /\ block_cnt[c] \in Nat
      BY <2>2, <3>1, CountFacts DEF FileAt
    <3>4. PICK n \in Nat : n = Done(c)
      BY <3>3
    <3>5. ~(n < Enqueued(c))
      BY <3>2, <3>4
    <3> QED
      BY <2>1, <2>2, <3>3, <3>4, <3>5
  <2> QED
    BY <1>1, <2>1, <2>2, CompleteAt
<1>3. Init => CalmInv
  BY <1>1, CalmInit
<1>4. CalmInv /\ [Next]_vars => CalmInv'
  BY <1>1, CalmKept
<1> QED
  BY <1>2, <1>3, <1>4, PTL DEF Spec

-----------------------------------------------------------------------------
\* The places by their kind
LEMMA PlaceFacts ==
  /\ \A k \in {"compq", "ioq", "parked"} : \A i \in Nat \ {0} : <<k, i>> \in Places
  /\ \A t \in CompThreads : <<"comp", t>> \in Places
  /\ \A g \in IOThreads : <<"io", g>> \in Places
  /\ \A p \in Places :
       \/ p[1] = "compq" /\ p[2] \in Nat \ {0} /\ p = <<"compq", p[2]>>
       \/ p[1] = "ioq" /\ p[2] \in Nat \ {0} /\ p = <<"ioq", p[2]>>
       \/ p[1] = "parked" /\ p[2] \in Nat \ {0} /\ p = <<"parked", p[2]>>
       \/ p[1] = "comp" /\ p[2] \in CompThreads /\ p = <<"comp", p[2]>>
       \/ p[1] = "io" /\ p[2] \in IOThreads /\ p = <<"io", p[2]>>
<1>1. /\ \A k \in {"compq", "ioq", "parked"} : \A i \in Nat \ {0} : <<k, i>> \in Places
      /\ \A t \in CompThreads : <<"comp", t>> \in Places
      /\ \A g \in IOThreads : <<"io", g>> \in Places
  BY DEF Places
<1>2. ASSUME NEW p \in Places
      PROVE \/ p[1] = "compq" /\ p[2] \in Nat \ {0} /\ p = <<"compq", p[2]>>
            \/ p[1] = "ioq" /\ p[2] \in Nat \ {0} /\ p = <<"ioq", p[2]>>
            \/ p[1] = "parked" /\ p[2] \in Nat \ {0} /\ p = <<"parked", p[2]>>
            \/ p[1] = "comp" /\ p[2] \in CompThreads /\ p = <<"comp", p[2]>>
            \/ p[1] = "io" /\ p[2] \in IOThreads /\ p = <<"io", p[2]>>
  <2>1. CASE p \in {"compq", "ioq", "parked"} \X (Nat \ {0})
    BY <2>1
  <2>2. CASE p \in {"comp"} \X CompThreads
    BY <2>2
  <2>3. CASE p \in {"io"} \X IOThreads
    BY <2>3
  <2> QED
    BY <2>1, <2>2, <2>3 DEF Places
<1> QED
  BY <1>1, <1>2

\* What is at a place, by its kind
LEMMA AtKinds ==
  ASSUME NEW c, NEW n
  PROVE  /\ \A i : At(c, n, <<"compq", i>>) <=> InCompq(c, n, i)
         /\ \A i : At(c, n, <<"ioq", i>>) <=> InIoq(c, n, i)
         /\ \A i : At(c, n, <<"parked", i>>) <=> InPending(c, n, i)
         /\ \A t : At(c, n, <<"comp", t>>) <=> InComp(c, n, t)
         /\ \A g : At(c, n, <<"io", g>>) <=> InIo(c, n, g)
         /\ \A i : At(c, n, <<"compq", i>>)' <=> InCompq(c, n, i)'
         /\ \A i : At(c, n, <<"ioq", i>>)' <=> InIoq(c, n, i)'
         /\ \A i : At(c, n, <<"parked", i>>)' <=> InPending(c, n, i)'
         /\ \A t : At(c, n, <<"comp", t>>)' <=> InComp(c, n, t)'
         /\ \A g : At(c, n, <<"io", g>>)' <=> InIo(c, n, g)'
<1>1. /\ \A i : At(c, n, <<"compq", i>>) <=> InCompq(c, n, i)
      /\ \A i : At(c, n, <<"ioq", i>>) <=> InIoq(c, n, i)
      /\ \A i : At(c, n, <<"parked", i>>) <=> InPending(c, n, i)
      /\ \A t : At(c, n, <<"comp", t>>) <=> InComp(c, n, t)
      /\ \A g : At(c, n, <<"io", g>>) <=> InIo(c, n, g)
  BY DEF At
<1>2. /\ \A i : At(c, n, <<"compq", i>>)' <=> InCompq(c, n, i)'
      /\ \A i : At(c, n, <<"ioq", i>>)' <=> InIoq(c, n, i)'
      /\ \A i : At(c, n, <<"parked", i>>)' <=> InPending(c, n, i)'
      /\ \A t : At(c, n, <<"comp", t>>)' <=> InComp(c, n, t)'
      /\ \A g : At(c, n, <<"io", g>>)' <=> InIo(c, n, g)'
  BY DEF At
<1> QED
  BY <1>1, <1>2

\* A step that moves numbers from place f[p] to place p, and takes off their way those
\* it writes.
LEMMA WayMoved ==
  ASSUME NEW c \in Chans, WayAt(c), next_block[c] \in Nat, next_block'[c] \in Nat, Enqueued(c) \in Nat,
         Enqueued(c)' = Enqueued(c), next_block[c] <= next_block'[c], NEW f \in [Places -> Places],
         \A n \in Nat : \A p \in Places : At(c, n, p)' => At(c, n, f[p]) /\ next_block'[c] <= n,
         \A n \in Nat : \A p, q \in Places : At(c, n, p)' /\ At(c, n, q)' /\ f[p] = f[q] => p = q,
         \A n \in Nat : \A q \in Places : At(c, n, q) /\ next_block'[c] <= n =>
           \E p \in Places : At(c, n, p)',
         \A i \in Nat \ {0} : InPending(c, next_block[c], i)' => Unparking(c)'
  PROVE  WayAt(c)'
<1>1. \A n \in Nat : \A p \in Places : At(c, n, p)' => next_block'[c] <= n
  OBVIOUS
<1>2. ASSUME NEW n \in Nat, next_block'[c] <= n, n < Enqueued(c)' PROVE \E p \in Places : At(c, n, p)'
  <2>1. next_block[c] <= n /\ n < Enqueued(c)
    BY <1>2
  <2>2. PICK q \in Places : At(c, n, q)
    BY <2>1 DEF WayAt
  <2> QED
    BY <1>2, <2>2
<1>3. ASSUME NEW n \in Nat, NEW p \in Places, NEW q \in Places, At(c, n, p)', At(c, n, q)' PROVE p = q
  <2>1. At(c, n, f[p]) /\ At(c, n, f[q]) /\ f[p] \in Places /\ f[q] \in Places
    BY <1>3
  <2>2. f[p] = f[q]
    BY <2>1 DEF WayAt
  <2> QED
    BY <1>3, <2>2
<1> QED
  BY <1>1, <1>2, <1>3 DEF WayAt

\* A step that moves none.
LEMMA WayQuiet ==
  ASSUME NEW c \in Chans, WayAt(c), next_block'[c] = next_block[c], Enqueued(c)' = Enqueued(c),
         \A n \in Nat : \A p \in Places : At(c, n, p)' <=> At(c, n, p),
         \A i \in Nat \ {0} : InPending(c, next_block[c], i)' => Unparking(c)'
  PROVE  WayAt(c)'
<1>1. \A n \in Nat : \A p \in Places : At(c, n, p)' => next_block'[c] <= n
  BY DEF WayAt
<1>2. \A n \in Nat : next_block'[c] <= n /\ n < Enqueued(c)' => \E p \in Places : At(c, n, p)'
  BY DEF WayAt
<1>3. \A n \in Nat : \A p, q \in Places : At(c, n, p)' /\ At(c, n, q)' => p = q
  BY DEF WayAt
<1> QED
  BY <1>1, <1>2, <1>3 DEF WayAt

\* The head of a queue is taken to place h.
LEMMA WayTaken ==
  ASSUME NEW c \in Chans, WayAt(c), next_block[c] \in Nat, UNCHANGED next_block, Enqueued(c) \in Nat,
         Enqueued(c)' = Enqueued(c), NEW k \in {"compq", "ioq"}, NEW h \in Places, h[1] \in {"comp", "io"},
         \A n \in Nat : \A i \in Nat \ {0} : At(c, n, <<k, i>>)' <=> At(c, n, <<k, i + 1>>),
         \A n \in Nat : At(c, n, h)' <=> At(c, n, <<k, 1>>),
         \A n \in Nat : ~At(c, n, h),
         \A n \in Nat : \A p \in Places : p # h /\ p[1] # k => (At(c, n, p)' <=> At(c, n, p)),
         \A i \in Nat \ {0} : InPending(c, next_block[c], i)' => Unparking(c)'
  PROVE  WayAt(c)'
<1> DEFINE f == [p \in Places |-> IF p = h THEN <<k, 1>> ELSE IF p[1] = k THEN <<k, p[2] + 1>> ELSE p]
<1>1. \A p \in Places : p[1] = k => p[2] \in Nat \ {0} /\ p = <<k, p[2]>> /\ p # h
  BY PlaceFacts
<1>2. <<k, 1>> \in Places /\ \A i \in Nat \ {0} : <<k, i>> \in Places /\ <<k, i + 1>> \in Places
  BY PlaceFacts
<1>3. f \in [Places -> Places]
  BY <1>1, <1>2
<1>4. \A n \in Nat : \A p \in Places : At(c, n, p)' => At(c, n, f[p])
  BY <1>1, <1>2
<1>5. \A p, q \in Places : p # h /\ q # h /\ f[p] = f[q] => p = q
  BY <1>1, <1>2
<1>6. \A q \in Places : q # h /\ q[1] = k => f[q] # f[h]
  BY <1>1, <1>2
<1>7. ASSUME NEW n \in Nat, NEW p \in Places, NEW q \in Places, At(c, n, p)', At(c, n, q)', f[p] = f[q]
      PROVE  p = q
  <2>1. ASSUME NEW x \in Places, x # h, f[x] = f[h] PROVE FALSE
    <3>1. x[1] # k
      BY <1>6, <2>1
    <3>2. f[x] = x /\ f[h] = <<k, 1>>
      BY <2>1, <3>1
    <3> QED
      BY <2>1, <3>1, <3>2
  <2> QED
    BY <1>5, <1>7, <2>1
<1>8. ASSUME NEW n \in Nat, NEW q \in Places, At(c, n, q) PROVE \E p \in Places : At(c, n, p)'
  <2>1. CASE q[1] # k
    BY <1>8, <2>1
  <2>2. CASE q[1] = k /\ q[2] = 1
    <3>1. q = <<k, 1>>
      BY <1>1, <2>2
    <3> QED
      BY <1>8, <3>1
  <2>3. CASE q[1] = k /\ q[2] # 1
    <3>1. PICK i \in Nat \ {0} : q[2] = i + 1
      <4>1. q[2] \in Nat /\ q[2] > 1
        BY <1>1, <2>3
      <4>2. q[2] - 1 \in Nat \ {0} /\ q[2] = (q[2] - 1) + 1
        BY <4>1
      <4> QED
        BY <4>2
    <3>2. q = <<k, i + 1>>
      BY <1>1, <2>3, <3>1
    <3>3. At(c, n, <<k, i>>)'
      BY <1>8, <3>2
    <3> QED
      BY <1>2, <3>3
  <2> QED
    BY <2>1, <2>2, <2>3
<1>9. \A n \in Nat : \A p \in Places : At(c, n, p)' => next_block'[c] <= n
  BY <1>3, <1>4 DEF WayAt
<1> HIDE DEF f
<1> QED
  BY <1>3, <1>4, <1>7, <1>8, <1>9, WayMoved

\* What is at place h goes to place e.
LEMMA WayPut ==
  ASSUME NEW c \in Chans, WayAt(c), next_block[c] \in Nat, UNCHANGED next_block, Enqueued(c) \in Nat,
         Enqueued(c)' = Enqueued(c), NEW h \in Places, NEW e \in Places, e # h,
         \A n \in Nat : At(c, n, e)' <=> At(c, n, h),
         \A n \in Nat : ~At(c, n, h)' /\ ~At(c, n, e),
         \A n \in Nat : \A p \in Places : p # h /\ p # e => (At(c, n, p)' <=> At(c, n, p)),
         \A i \in Nat \ {0} : InPending(c, next_block[c], i)' => Unparking(c)'
  PROVE  WayAt(c)'
<1> DEFINE f == [p \in Places |-> IF p = e THEN h ELSE p]
<1>1. f \in [Places -> Places]
  OBVIOUS
<1>2. \A n \in Nat : \A p \in Places : At(c, n, p)' => At(c, n, f[p])
  OBVIOUS
<1>3. \A n \in Nat : \A p, q \in Places : At(c, n, p)' /\ At(c, n, q)' /\ f[p] = f[q] => p = q
  OBVIOUS
<1>4. \A n \in Nat : \A q \in Places : At(c, n, q) => \E p \in Places : At(c, n, p)'
  OBVIOUS
<1>5. \A n \in Nat : \A p \in Places : At(c, n, p)' => next_block'[c] <= n
  BY <1>1, <1>2 DEF WayAt
<1> HIDE DEF f
<1> QED
  BY <1>1, <1>2, <1>3, <1>4, <1>5, WayMoved

\* The next number is at place h, and is written.
LEMMA WayWritten ==
  ASSUME NEW c \in Chans, WayAt(c), next_block[c] \in Nat, next_block'[c] = next_block[c] + 1,
         Enqueued(c) \in Nat, Enqueued(c)' = Enqueued(c), NEW h \in Places,
         At(c, next_block[c], h),
         \A n \in Nat : ~At(c, n, h)' /\ (At(c, n, h) => n = next_block[c]),
         \A n \in Nat : \A p \in Places : p # h => (At(c, n, p)' <=> At(c, n, p)),
         \A i \in Nat \ {0} : InPending(c, next_block[c], i)' => Unparking(c)'
  PROVE  WayAt(c)'
<1> DEFINE f == [p \in Places |-> p]
<1>1. f \in [Places -> Places] /\ next_block'[c] \in Nat /\ next_block[c] <= next_block'[c]
  OBVIOUS
<1>2. \A n \in Nat : \A p \in Places : At(c, n, p)' => At(c, n, f[p]) /\ p # h
  OBVIOUS
<1>3. \A n \in Nat : \A p, q \in Places : At(c, n, p)' /\ At(c, n, q)' /\ f[p] = f[q] => p = q
  OBVIOUS
<1>4. ASSUME NEW n \in Nat, NEW q \in Places, At(c, n, q), next_block'[c] <= n
      PROVE  \E p \in Places : At(c, n, p)'
  BY <1>4
<1>5. ASSUME NEW n \in Nat, NEW p \in Places, At(c, n, p)' PROVE next_block'[c] <= n
  <2>1. At(c, n, p) /\ p # h
    BY <1>5
  <2>2. next_block[c] <= n /\ n # next_block[c]
    BY <2>1 DEF WayAt
  <2> QED
    BY <2>2
<1> HIDE DEF f
<1> QED
  BY <1>1, <1>2, <1>3, <1>4, <1>5, WayMoved

\* The next number is parked at i, and is written and removed.
LEMMA WayUnparked ==
  ASSUME NEW c \in Chans, WayAt(c), next_block[c] \in Nat, next_block'[c] = next_block[c] + 1,
         Enqueued(c) \in Nat, Enqueued(c)' = Enqueued(c), NEW i \in Nat \ {0},
         At(c, next_block[c], <<"parked", i>>),
         \A n \in Nat : At(c, n, <<"parked", i>>) => n = next_block[c],
         \A n \in Nat : \A j \in Nat \ {0} : At(c, n, <<"parked", j>>)' <=>
           At(c, n, <<"parked", IF j < i THEN j ELSE j + 1>>),
         \A n \in Nat : \A p \in Places : p[1] # "parked" => (At(c, n, p)' <=> At(c, n, p)),
         Unparking(c)'
  PROVE  WayAt(c)'
<1> DEFINE f == [p \in Places |-> IF p[1] # "parked" \/ p[2] < i THEN p ELSE <<"parked", p[2] + 1>>]
<1>0. next_block'[c] \in Nat /\ next_block[c] <= next_block'[c]
  OBVIOUS
<1>1. \A p \in Places : p[1] = "parked" => p[2] \in Nat \ {0} /\ p = <<"parked", p[2]>>
  BY PlaceFacts
<1>2. \A j \in Nat \ {0} : <<"parked", j>> \in Places /\ <<"parked", j + 1>> \in Places
  <2>1. \A j \in Nat \ {0} : <<"parked", j>> \in Places
    BY PlaceFacts
  <2>2. \A j \in Nat \ {0} : j + 1 \in Nat \ {0}
    OBVIOUS
  <2> QED
    BY <2>1, <2>2
<1>3. f \in [Places -> Places]
  BY <1>1, <1>2
<1>4. ASSUME NEW n \in Nat, NEW p \in Places, At(c, n, p)' PROVE At(c, n, f[p]) /\ f[p] # <<"parked", i>>
  <2>1. CASE p[1] # "parked"
    BY <1>4, <2>1
  <2>2. CASE p[1] = "parked"
    <3>1. PICK j \in Nat \ {0} : p = <<"parked", j>> /\ j = p[2]
      BY <1>1, <2>2
    <3>2. At(c, n, <<"parked", IF j < i THEN j ELSE j + 1>>)
      BY <1>4, <3>1
    <3> QED
      BY <3>1, <3>2
  <2> QED
    BY <2>1, <2>2
<1>5. ASSUME NEW p \in Places, NEW q \in Places, f[p] = f[q] PROVE p = q
  <2>1. p[1] = "parked" <=> q[1] = "parked"
    BY <1>1, <1>5
  <2>2. CASE p[1] # "parked"
    BY <1>5, <2>1, <2>2
  <2>3. CASE p[1] = "parked"
    <3>1. PICK j \in Nat \ {0} : p = <<"parked", j>>
      BY <1>1, <2>3
    <3>2. PICK m \in Nat \ {0} : q = <<"parked", m>>
      BY <1>1, <2>1, <2>3
    <3>3. f[p] = <<"parked", IF j < i THEN j ELSE j + 1>> /\ f[q] = <<"parked", IF m < i THEN m ELSE m + 1>>
      BY <3>1, <3>2
    <3>4. (IF j < i THEN j ELSE j + 1) = (IF m < i THEN m ELSE m + 1)
      BY <1>5, <3>3
    <3> QED
      BY <3>1, <3>2, <3>4
  <2> QED
    BY <2>2, <2>3
<1>6. ASSUME NEW n \in Nat, NEW q \in Places, At(c, n, q), next_block'[c] <= n
      PROVE  \E p \in Places : At(c, n, p)'
  <2>1. CASE q[1] # "parked"
    BY <1>6, <2>1
  <2>2. CASE q[1] = "parked"
    <3>1. PICK j \in Nat \ {0} : q = <<"parked", j>>
      BY <1>1, <2>2
    <3>2. j # i
      BY <1>0, <1>6, <3>1
    <3>3. CASE j < i
      <4>1. At(c, n, <<"parked", j>>)'
        BY <1>6, <3>1, <3>3
      <4> QED
        BY <1>2, <4>1
    <3>4. CASE j > i
      <4>1. PICK m \in Nat \ {0} : m + 1 = j /\ ~(m < i)
        <5>1. j - 1 \in Nat \ {0} /\ (j - 1) + 1 = j /\ ~(j - 1 < i)
          BY <3>4
        <5> QED
          BY <5>1
      <4>2. At(c, n, <<"parked", m>>)'
        BY <1>6, <3>1, <4>1
      <4> QED
        BY <1>2, <4>2
    <3> QED
      BY <3>2, <3>3, <3>4
  <2> QED
    BY <2>1, <2>2
<1>7. ASSUME NEW n \in Nat, NEW p \in Places, At(c, n, p)' PROVE next_block'[c] <= n
  <2>1. At(c, n, f[p]) /\ f[p] # <<"parked", i>> /\ f[p] \in Places
    BY <1>3, <1>4, <1>7
  <2>2. <<"parked", i>> \in Places
    BY <1>2
  <2>3. next_block[c] <= n
    BY <2>1 DEF WayAt
  <2>4. n # next_block[c]
    BY <2>1, <2>2 DEF WayAt
  <2> QED
    BY <2>3, <2>4
<1> HIDE DEF f
<1> QED
  BY <1>0, <1>3, <1>4, <1>5, <1>6, <1>7, WayMoved

\* The block in use is handed over: its number is the next after those on their way.
LEMMA WayHanded ==
  ASSUME NEW c \in Chans, WayAt(c), next_block[c] \in Nat, UNCHANGED next_block, Enqueued(c) \in Nat,
         Enqueued(c)' = Enqueued(c) + 1, next_block[c] <= Enqueued(c), NEW e \in Places,
         \A n \in Nat : At(c, n, e)' <=> n = Enqueued(c),
         \A n \in Nat : ~At(c, n, e),
         \A n \in Nat : \A p \in Places : At(c, n, p) => n < Enqueued(c),
         \A n \in Nat : \A p \in Places : p # e => (At(c, n, p)' <=> At(c, n, p)),
         \A i \in Nat \ {0} : InPending(c, next_block[c], i)' => Unparking(c)'
  PROVE  WayAt(c)'
<1>1. \A n \in Nat : \A p \in Places : At(c, n, p)' => next_block'[c] <= n
  BY DEF WayAt
<1>2. ASSUME NEW n \in Nat, next_block'[c] <= n, n < Enqueued(c)' PROVE \E p \in Places : At(c, n, p)'
  <2>1. CASE n = Enqueued(c)
    BY <2>1
  <2>2. CASE n < Enqueued(c)
    BY <1>2, <2>2 DEF WayAt
  <2> QED
    BY <1>2, <2>1, <2>2
<1>3. ASSUME NEW n \in Nat, NEW p \in Places, NEW q \in Places, At(c, n, p)', At(c, n, q)' PROVE p = q
  <2>1. CASE p = e \/ q = e
    BY <1>3, <2>1
  <2>2. CASE p # e /\ q # e
    BY <1>3, <2>2 DEF WayAt
  <2> QED
    BY <2>1, <2>2
<1> QED
  BY <1>1, <1>2, <1>3 DEF WayAt

\* What is on its way was handed over.
LEMMA OnWayBelow ==
  ASSUME OrderInv, NEW c \in Chans, NEW n \in Nat, NEW p \in Places, At(c, n, p)
  PROVE  n < Enqueued(c)
<1>0. TypeOK /\ Tags /\ BlocksFull /\ CopiesRight /\ ParkedRight
  BY DEF OrderInv, OrderParts, HolderInv
<1>1. ASSUME NEW b \in Blocks, Carrying(b), b[1] = c, block_id[b] = n PROVE n < Enqueued(c)
  BY <1>0, <1>1 DEF BlocksFull, Full
<1>2. ASSUME NEW d \in Item, Copies(d), d.ch = c, d.block_id = n PROVE n < Enqueued(c)
  BY <1>0, <1>2 DEF CopiesRight, CopyRight
<1>3. CASE p[1] = "compq"
  <2>1. InCompq(c, n, p[2])
    BY <1>3 DEF At
  <2>2. PICK b \in Blocks : b = compression_queue[p[2]] /\ holder[b] = "compq" /\ b[1] = c /\ block_id[b] = n
    BY <1>0, <2>1, HeldBlocks DEF InCompq, Tags, CompqTag
  <2> QED
    BY <1>1, <2>2 DEF Carrying
<1>4. CASE p[1] = "comp"
  <2>1. InComp(c, n, p[2]) /\ p[2] \in CompThreads
    BY <1>4, PlaceFacts DEF At
  <2>2. CASE cpc[p[2]] = "compress"
    <3>1. PICK b \in Blocks : b = cblk[p[2]]
      BY <1>0, <2>1, <2>2 DEF TypeOK, CompOK
    <3> QED
      BY <1>1, <2>1, <2>2, <3>1 DEF InComp, Carrying
  <2>3. CASE cpc[p[2]] \in {"slot", "store", "push"}
    <3>1. PICK d \in Item : d = new_block[p[2]]
      BY <1>0, <2>1, <2>3 DEF TypeOK, CompOK
    <3> QED
      BY <1>2, <2>1, <2>3, <3>1 DEF InComp, Copies
  <2> QED
    BY <2>1, <2>2, <2>3 DEF InComp
<1>5. CASE p[1] = "ioq"
  <2>1. InIoq(c, n, p[2])
    BY <1>5 DEF At
  <2>2. PICK d \in Item : d = io_queue[p[2]]
    BY <1>0, <2>1, HeldBlocks DEF InIoq
  <2> QED
    BY <1>2, <2>1, <2>2 DEF InIoq, Copies
<1>6. CASE p[1] = "io"
  <2>1. InIo(c, n, p[2]) /\ p[2] \in IOThreads
    BY <1>6, PlaceFacts DEF At
  <2>2. PICK d \in Item : d = idata[p[2]]
    BY <1>0, <2>1 DEF InIo, TypeOK, IOOK
  <2> QED
    BY <1>2, <2>1, <2>2 DEF InIo, Copies
<1>7. CASE p[1] = "parked"
  <2>1. InPending(c, n, p[2])
    BY <1>7 DEF At
  <2>2. PICK d \in Item : d = pending[c][p[2]] /\ d.ch = c /\ d.block_id = n
    BY <1>0, <2>1 DEF InPending, ParkedRight, TypeOK, FileOK
  <2> QED
    BY <1>2, <2>1, <2>2 DEF InPending, Copies
<1> QED
  BY <1>3, <1>4, <1>5, <1>6, <1>7, PlaceFacts

\* Only a hand-over changes how many blocks were handed over.
LEMMA EnqueuedSame ==
  ASSUME Calm, HolderInv, LogShape, ExitCalm, Phases, [Next]_vars, NEW c \in Chans, ~EnqueueFull(c), ~CloseEnqueue(c)
  PROVE  Enqueued(c)' = Enqueued(c)
<1>0. TypeOK /\ CallsApart /\ block_cnt[c] \in Nat
  BY DEF HolderInv, TypeOK, ChanOK
<1>1. CASE pc'[c] = pc[c] /\ closing'[c] = closing[c] /\ block_cnt'[c] = block_cnt[c]
  BY <1>1 DEF Enqueued, ClosureHolds
<1>2. ASSUME NEW d \in Chans, Request(d) PROVE Enqueued(c)' = Enqueued(c)
  <2>1. block_cnt' = block_cnt
    BY <1>2 DEF Request, OpenChannel, LogTS, CloseChannel, CloseExchange
  <2> QED
    BY <1>0, <1>2, <2>1, RequestMoves DEF Enqueued, ClosureHolds, Opening, Calm
<1>3. ASSUME NEW d \in Chans, CallStep(d) PROVE Enqueued(c)' = Enqueued(c)
  <2>1. CASE OpenIOThread(d) \/ OpenIOStore(d) \/ OpenCountComp(d) \/ OpenCompThreads(d)
    <3>1. /\ block_cnt' = block_cnt /\ closing' = closing
          /\ pc'[c] = pc[c] \/ (pc[c] \in Opening /\ pc'[c] \in Opening)
      BY <1>0, <2>1 DEF OpenIOThread, OpenIOStore, OpenCountComp, OpenCompThreads, closeVars, TypeOK, ChanOK,
         Opening, AfterIO
    <3> QED
      BY <3>1 DEF Enqueued, ClosureHolds
  <2>2. CASE OpenDone(d)
    <3>1. CASE c = d
      <4>1. pc[c] = "init" /\ pc'[c] = "idle" /\ block_cnt'[c] = 1 /\ closing'[c] = "no"
        BY <1>0, <2>2, <3>1 DEF OpenDone, InitBlocks, TypeOK, ChanOK, closeVars, Opening
      <4> QED
        BY <4>1 DEF Enqueued, ClosureHolds, Opening
    <3>2. CASE c # d
      BY <1>0, <1>1, <2>2, <3>2 DEF OpenDone, InitBlocks, TypeOK, ChanOK, closeVars
    <3> QED
      BY <3>1, <3>2
  <2>3. CASE WriteFirst(d) \/ WriteOnBlock(d)
    <3>1. /\ block_cnt' = block_cnt /\ closing' = closing
          /\ pc'[c] = pc[c] \/ (pc[c] = "write" /\ pc'[c] \in {"idle", "full"})
      BY <1>0, <2>3 DEF WriteFirst, WriteOnBlock, closeVars, TypeOK, ChanOK
    <3> QED
      BY <3>1 DEF Enqueued, ClosureHolds, Opening
  <2>4. CASE EnqueueFull(d)
    <3>1. c # d
      BY <2>4
    <3> QED
      BY <1>0, <1>1, <2>4, <3>1 DEF EnqueueFull, TypeOK, ChanOK, closeVars
  <2>5. CASE DequeueEmpty(d)
    <3>1. CASE c # d \/ slots[d][ridx[d]] = NULL
      BY <1>0, <1>1, <2>5, <3>1 DEF DequeueEmpty, TypeOK, ChanOK, closeVars
    <3>2. CASE c = d /\ slots[d][ridx[d]] # NULL
      <4>1. pc[c] = "fetch" /\ closing' = closing /\ closing[c] = "no"
        BY <1>0, <2>5, <3>2 DEF DequeueEmpty, closeVars, CallsApart
      <4>2. pc'[c] = "idle" /\ block_cnt'[c] = block_cnt[c] + 1
        BY <1>0, <2>5, <3>2 DEF DequeueEmpty, TypeOK, ChanOK
      <4> QED
        BY <1>0, <4>1, <4>2 DEF Enqueued, ClosureHolds, Opening
    <3> QED
      BY <3>1, <3>2
  <2> QED
    BY <1>3, <2>1, <2>2, <2>3, <2>4, <2>5 DEF CallStep
<1>4. ASSUME NEW d \in Chans, CloseStep(d) PROVE Enqueued(c)' = Enqueued(c)
  <2>1. pc' = pc /\ block_cnt' = block_cnt
    BY <1>4 DEF CloseStep, CloseMark, CloseEnqueue, CloseDecComp, CloseDec, chanVars
  <2>2. CASE CloseEnqueue(d)
    <3>1. c # d
      BY <2>2
    <3> QED
      BY <1>0, <1>1, <2>1, <2>2, <3>1 DEF CloseEnqueue, TypeOK, ChanOK
  <2>3. CASE CloseMark(d) \/ CloseDecComp(d) \/ CloseDec(d)
    BY <1>0, <2>1, <2>3 DEF CloseMark, CloseDecComp, CloseDec, TypeOK, ChanOK, Enqueued, ClosureHolds, Calm
  <2> QED
    BY <1>4, <2>2, <2>3 DEF CloseStep
<1>5. ASSUME (\E t \in CompThreads : CompStep(t)) \/ (\E g \in IOThreads : IOStep(g)) PROVE Enqueued(c)' = Enqueued(c)
  <2>1. ASSUME NEW t \in CompThreads, CompStep(t) PROVE block_cnt' = block_cnt
    BY <2>1 DEF CompStep, CompPop, CompLeaveLoop, CompDrained, CompStop, CompressBlock, SendBackLoad, SendBackStore,
       CompPush, chanVars
  <2>2. ASSUME NEW g \in IOThreads, IOStep(g) PROVE block_cnt' = block_cnt
    <3>1. CASE IOTest(g) \/ IOTestLeft(g) \/ IOTestRight(g) \/ IOPop(g) \/ IOEmpty(g)
      BY <3>1 DEF IOTest, IOLoopTest, IOTestLeft, IOTestRight, IOPop, IOEmpty, chanVars
    <3>2. CASE WriteUncompressed(g) \/ SendBackUncompressed(g) \/ ParkCompressed(g) \/ WriteCompressed(g)
      BY <3>2 DEF WriteUncompressed, SendBackUncompressed, ParkCompressed, WriteCompressed, chanVars
    <3>3. CASE UnparkCompressed(g) \/ UnparkDone(g) \/ IOTerminate(g) \/ IOClearIO(g) \/ IOClearComp(g)
      BY <3>3 DEF UnparkCompressed, UnparkDone, IOTerminate, IOClearIO, IOClearComp, chanVars
    <3> QED
      BY <2>2, <3>1, <3>2, <3>3 DEF IOStep
  <2> QED
    BY <1>1, <1>5, <2>1, <2>2, ThreadMoves
<1>6. CASE ExitRequest \/ ExitStep
  <2>1. block_cnt' = block_cnt
    BY <1>6 DEF ExitRequest, NormalExit, Signal, ExitStep, ExitClose, CloseExchange, ExitClosed, ExitCheck, ExitLoad,
       ExitJoin, chanVars
  <2> QED
    BY <1>6, <2>1, SweepMoves DEF Enqueued, ClosureHolds
<1>7. CASE UNCHANGED vars
  BY <1>1, <1>7 DEF vars, chanVars, closeVars
<1> QED
  BY <1>2, <1>3, <1>4, <1>5, <1>6, <1>7, StepKinds

\* A step that moves no number of the channel.
LEMMA WaySame ==
  ASSUME HolderInv, NEW c \in Chans, WayAt(c), Enqueued(c)' = Enqueued(c),
         UNCHANGED <<compression_queue, io_queue>>, next_block'[c] = next_block[c], pending'[c] = pending[c],
         \A b \in Blocks : holder[b] = "compq" => block_id'[b] = block_id[b],
         \A n \in Nat : \A t \in CompThreads : InComp(c, n, t)' <=> InComp(c, n, t),
         \A n \in Nat : \A g \in IOThreads : InIo(c, n, g)' <=> InIo(c, n, g),
         \A i \in Nat \ {0} : InPending(c, next_block[c], i) => Unparking(c)'
  PROVE  WayAt(c)'
<1>1. \A n \in Nat : \A i \in Nat \ {0} : InCompq(c, n, i)' <=> InCompq(c, n, i)
  BY HeldBlocks DEF HolderInv, Tags, CompqTag, InCompq
<1>2. \A n \in Nat : \A i \in Nat \ {0} : InIoq(c, n, i)' <=> InIoq(c, n, i)
  BY DEF InIoq
<1>3. \A n \in Nat : \A i \in Nat \ {0} : InPending(c, n, i)' <=> InPending(c, n, i)
  BY DEF InPending
<1>4. ASSUME NEW n \in Nat, NEW p \in Places PROVE At(c, n, p)' <=> At(c, n, p)
  BY <1>1, <1>2, <1>3, PlaceFacts DEF At
<1>5. \A i \in Nat \ {0} : InPending(c, next_block[c], i)' => Unparking(c)'
  BY DEF InPending
<1> QED
  BY <1>4, <1>5, WayQuiet

\* A step that moves nothing at all.
LEMMA WayIdle ==
  ASSUME HolderInv, NEW c \in Chans, WayAt(c), Enqueued(c)' = Enqueued(c),
         UNCHANGED <<compression_queue, io_queue, next_block, pending, block_id, cpc, cblk, new_block, ipc, idata>>
  PROVE  WayAt(c)'
<1>1. \A n \in Nat : \A t \in CompThreads : InComp(c, n, t)' <=> InComp(c, n, t)
  BY DEF InComp
<1>2. \A n \in Nat : \A g \in IOThreads : InIo(c, n, g)' <=> InIo(c, n, g)
  BY DEF InIo
<1>3. \A i \in Nat \ {0} : InPending(c, next_block[c], i) => Unparking(c)'
  BY DEF WayAt, Unparking
<1> QED
  BY <1>1, <1>2, <1>3, WaySame

\* The places of a compression thread do not depend on the other threads.
LEMMA InCompSame ==
  ASSUME NEW c, NEW n, NEW u \in CompThreads, cpc'[u] = cpc[u], cblk'[u] = cblk[u], new_block'[u] = new_block[u],
         cpc[u] = "compress" => block_id'[cblk[u]] = block_id[cblk[u]]
  PROVE  InComp(c, n, u)' <=> InComp(c, n, u)
BY DEF InComp

\* A compression thread takes the first block of the queue.
LEMMA WayCompPop ==
  ASSUME OrderInv, NEW c \in Chans, WayAt(c), Enqueued(c)' = Enqueued(c), NEW t \in CompThreads, CompPop(t)
  PROVE  WayAt(c)'
<1>0. TypeOK /\ Tags /\ LogShape /\ next_block[c] \in Nat /\ Enqueued(c) \in Nat
  BY CountFacts DEF OrderInv, OrderParts, HolderInv, TypeOK, FileOK
<1>1. /\ compression_queue \in Seq(Blocks) /\ compression_queue # <<>> /\ cpc[t] = "poll"
      /\ compression_queue' = Tail(compression_queue)
      /\ UNCHANGED <<block_id, io_queue, new_block, ipc, idata, next_block, pending>>
  BY <1>0, HeldBlocks DEF CompPop, blockVars, ioVars, fileVars
<1>2. /\ cpc'[t] = "compress" /\ cblk'[t] = compression_queue[1]
      /\ \A u \in CompThreads : u # t => cpc'[u] = cpc[u] /\ cblk'[u] = cblk[u]
  BY <1>0, <1>1, HeadTail DEF CompPop, TypeOK, CompOK
<1>3. /\ Len(compression_queue) \in Nat \ {0} /\ Len(compression_queue') = Len(compression_queue) - 1
      /\ \A i \in 1..Len(compression_queue) - 1 : compression_queue'[i] = compression_queue[i + 1]
  BY <1>1, HeadTail
<1>4. ASSUME NEW n \in Nat, NEW i \in Nat \ {0} PROVE At(c, n, <<"compq", i>>)' <=> At(c, n, <<"compq", i + 1>>)
  <2>1. i \in 1..Len(compression_queue') <=> i + 1 \in 1..Len(compression_queue)
    BY <1>3
  <2>2. InCompq(c, n, i)' <=> InCompq(c, n, i + 1)
    BY <1>1, <1>3, <2>1 DEF InCompq
  <2> QED
    BY <2>2, AtKinds
<1>5. ASSUME NEW n \in Nat PROVE At(c, n, <<"comp", t>>)' <=> At(c, n, <<"compq", 1>>)
  <2>1. InComp(c, n, t)' <=> InCompq(c, n, 1)
    BY <1>1, <1>2, <1>3 DEF InComp, InCompq
  <2> QED
    BY <2>1, AtKinds
<1>6. ASSUME NEW n \in Nat PROVE ~At(c, n, <<"comp", t>>)
  BY <1>1, AtKinds DEF InComp
<1>7. ASSUME NEW n \in Nat, NEW p \in Places, p # <<"comp", t>>, p[1] # "compq"
      PROVE  At(c, n, p)' <=> At(c, n, p)
  <2>1. CASE p[1] = "comp"
    <3>1. PICK u \in CompThreads : p = <<"comp", u>> /\ u # t
      BY <1>7, <2>1, PlaceFacts
    <3>2. InComp(c, n, u)' <=> InComp(c, n, u)
      BY <1>1, <1>2, <3>1, InCompSame
    <3> QED
      BY <3>1, <3>2, AtKinds
  <2>2. CASE p[1] # "comp"
    BY <1>1, <1>7, <2>2, PlaceFacts DEF At, InIoq, InIo, InPending
  <2> QED
    BY <2>1, <2>2
<1>8. \A i \in Nat \ {0} : InPending(c, next_block[c], i)' => Unparking(c)'
  BY <1>1 DEF InPending, WayAt, Unparking
<1>9. <<"comp", t>> \in Places /\ <<"comp", t>>[1] \in {"comp", "io"}
  BY PlaceFacts
<1>10. PICK h \in Places : h = <<"comp", t>> /\ h[1] \in {"comp", "io"}
  BY <1>9
<1> QED
  BY <1>0, <1>1, <1>4, <1>5, <1>6, <1>7, <1>8, <1>10, WayTaken

\* A compression thread makes the copy and gives the block back.
LEMMA WayCompress ==
  ASSUME OrderInv, NEW c \in Chans, WayAt(c), Enqueued(c)' = Enqueued(c), NEW t \in CompThreads,
         CompressBlock(t) \/ SendBackLoad(t) \/ SendBackStore(t) \/ CompLeaveLoop(t) \/ CompDrained(t) \/ CompStop(t)
  PROVE  WayAt(c)'
<1>0. TypeOK
  BY DEF OrderInv, HolderInv
<1>1. UNCHANGED <<block_id, compression_queue, io_queue, cblk, ipc, idata, next_block, pending>>
  BY DEF CompressBlock, SendBackLoad, SendBackStore, CompLeaveLoop, CompDrained, CompStop, blockVars, queueVars,
     ioVars, fileVars, compVars
<1>2. \A u \in CompThreads : u # t => cpc'[u] = cpc[u] /\ new_block'[u] = new_block[u]
  BY <1>0 DEF CompressBlock, SendBackLoad, SendBackStore, CompLeaveLoop, CompDrained, CompStop, TypeOK, CompOK,
     compVars
<1>3. ASSUME NEW n \in Nat PROVE InComp(c, n, t)' <=> InComp(c, n, t)
  <2>1. CASE CompressBlock(t)
    <3>1. /\ cpc[t] = "compress" /\ cpc'[t] = "slot" /\ new_block'[t] = CompressedCopy(cblk[t])
      BY <1>0, <2>1 DEF CompressBlock, TypeOK, CompOK
    <3>2. new_block'[t].ch = cblk[t][1] /\ new_block'[t].block_id = block_id[cblk[t]]
      BY <3>1 DEF CompressedCopy
    <3> QED
      BY <3>1, <3>2 DEF InComp
  <2>2. CASE SendBackLoad(t) \/ SendBackStore(t)
    <3>1. /\ cpc[t] \in {"slot", "store"} /\ cpc'[t] \in {"store", "push"} /\ new_block'[t] = new_block[t]
      BY <1>0, <2>2 DEF SendBackLoad, SendBackStore, TypeOK, CompOK
    <3> QED
      BY <3>1 DEF InComp
  <2>3. CASE CompLeaveLoop(t) \/ CompDrained(t) \/ CompStop(t)
    <3>1. cpc[t] \in {"poll", "stop"} /\ cpc'[t] \in {"poll", "stop", "dead"}
      BY <1>0, <2>3 DEF CompLeaveLoop, CompDrained, CompStop, TypeOK, CompOK
    <3> QED
      BY <3>1 DEF InComp
  <2> QED
    BY <2>1, <2>2, <2>3
<1>4. \A n \in Nat : \A u \in CompThreads : InComp(c, n, u)' <=> InComp(c, n, u)
  BY <1>1, <1>2, <1>3, InCompSame
<1>5. \A n \in Nat : \A g \in IOThreads : InIo(c, n, g)' <=> InIo(c, n, g)
  BY <1>1 DEF InIo
<1>6. \A i \in Nat \ {0} : InPending(c, next_block[c], i) => Unparking(c)'
  BY <1>1 DEF WayAt, Unparking
<1> QED
  BY <1>1, <1>4, <1>5, <1>6, WaySame DEF OrderInv

\* A compression thread sends its copy on, and the queue has room for it.
LEMMA WayCompPush ==
  ASSUME OrderInv, RoomForCopies, NEW c \in Chans, WayAt(c), Enqueued(c)' = Enqueued(c), NEW t \in CompThreads,
         CompPush(t)
  PROVE  WayAt(c)'
<1>0. TypeOK /\ Tags /\ LogShape /\ next_block[c] \in Nat /\ Enqueued(c) \in Nat
  BY CountFacts DEF OrderInv, OrderParts, HolderInv, TypeOK, FileOK
<1>1. /\ io_queue \in Seq(Item) /\ cpc[t] = "push" /\ new_block[t] \in Item /\ new_block[t].compress
      /\ io_queue' = Append(io_queue, new_block[t])
      /\ UNCHANGED <<block_id, compression_queue, ipc, idata, next_block, pending>>
  BY <1>0 DEF CompPush, RoomForCopies, blockVars, ioVars, fileVars, TypeOK, QueueOK, CompOK
<1>2. /\ cpc'[t] = "poll"
      /\ \A u \in CompThreads : u # t => cpc'[u] = cpc[u] /\ cblk'[u] = cblk[u] /\ new_block'[u] = new_block[u]
  BY <1>0 DEF CompPush, TypeOK, CompOK
<1>3. /\ Len(io_queue) \in Nat /\ Len(io_queue') = Len(io_queue) + 1 /\ io_queue'[Len(io_queue) + 1] = new_block[t]
      /\ \A i \in 1..Len(io_queue) : io_queue'[i] = io_queue[i]
  BY <1>1, SeqAppend
<1>4. PICK k \in Nat \ {0} : k = Len(io_queue) + 1
  BY <1>3
<1>5. PICK h \in Places : h = <<"comp", t>>
  BY PlaceFacts
<1>6. PICK e \in Places : e = <<"ioq", k>>
  BY PlaceFacts
<1>7. e # h
  BY <1>5, <1>6
<1>8. ASSUME NEW n \in Nat PROVE At(c, n, e)' <=> At(c, n, h)
  <2>1. InIoq(c, n, k)' <=> InComp(c, n, t)
    BY <1>1, <1>3, <1>4 DEF InIoq, InComp
  <2> QED
    BY <1>5, <1>6, <2>1, AtKinds
<1>9. ASSUME NEW n \in Nat PROVE ~At(c, n, h)' /\ ~At(c, n, e)
  <2>1. ~InComp(c, n, t)' /\ ~InIoq(c, n, k)
    BY <1>2, <1>3, <1>4 DEF InIoq, InComp
  <2> QED
    BY <1>5, <1>6, <2>1, AtKinds
<1>10. ASSUME NEW n \in Nat, NEW p \in Places, p # h, p # e PROVE At(c, n, p)' <=> At(c, n, p)
  <2>1. CASE p[1] = "comp"
    <3>1. PICK u \in CompThreads : p = <<"comp", u>> /\ u # t
      BY <1>5, <1>10, <2>1, PlaceFacts
    <3>2. InComp(c, n, u)' <=> InComp(c, n, u)
      BY <1>1, <1>2, <3>1, InCompSame
    <3> QED
      BY <3>1, <3>2, AtKinds
  <2>2. CASE p[1] = "ioq"
    <3>1. PICK i \in Nat \ {0} : p = <<"ioq", i>> /\ i # k
      BY <1>6, <1>10, <2>2, PlaceFacts
    <3>2. i \in 1..Len(io_queue') <=> i \in 1..Len(io_queue)
      BY <1>3, <1>4, <3>1
    <3>3. InIoq(c, n, i)' <=> InIoq(c, n, i)
      BY <1>3, <3>2 DEF InIoq
    <3> QED
      BY <3>1, <3>3, AtKinds
  <2>3. CASE p[1] \notin {"comp", "ioq"}
    BY <1>1, <2>3, PlaceFacts DEF At, InCompq, InIo, InPending
  <2> QED
    BY <2>1, <2>2, <2>3
<1>11. \A i \in Nat \ {0} : InPending(c, next_block[c], i)' => Unparking(c)'
  BY <1>1 DEF InPending, WayAt, Unparking
<1> QED
  BY <1>0, <1>1, <1>7, <1>8, <1>9, <1>10, <1>11, WayPut

\* A step of a compression thread
LEMMA WayComp ==
  ASSUME OrderInv, RoomForCopies, NEW c \in Chans, WayAt(c), Enqueued(c)' = Enqueued(c), NEW t \in CompThreads,
         CompStep(t)
  PROVE  WayAt(c)'
BY WayCompPop, WayCompress, WayCompPush DEF CompStep

\* The IO thread takes the first item of its queue: a copy, or a block of a channel that is
\* not compressed.
LEMMA WayIOPop ==
  ASSUME OrderInv, NEW c \in Chans, WayAt(c), Enqueued(c)' = Enqueued(c), NEW g \in IOThreads, IOPop(g)
  PROVE  WayAt(c)'
<1>0. TypeOK /\ Tags /\ LogShape /\ next_block[c] \in Nat /\ Enqueued(c) \in Nat
  BY CountFacts DEF OrderInv, OrderParts, HolderInv, TypeOK, FileOK
<1>1. /\ io_queue \in Seq(Item) /\ io_queue # <<>> /\ ipc[g] = "pop" /\ io_queue' = Tail(io_queue)
      /\ UNCHANGED <<block_id, compression_queue, cpc, cblk, new_block, next_block, pending>>
  BY <1>0 DEF IOPop, blockVars, compVars, fileVars, TypeOK, QueueOK
<1>2. /\ ipc'[g] = IF io_queue[1].compress THEN "writecomp" ELSE "writeraw"
      /\ idata'[g] = io_queue[1]
      /\ \A h \in IOThreads : h # g => ipc'[h] = ipc[h] /\ idata'[h] = idata[h]
  BY <1>0, <1>1, HeadTail DEF IOPop, TypeOK, IOOK
<1>3. /\ Len(io_queue) \in Nat \ {0} /\ Len(io_queue') = Len(io_queue) - 1
      /\ \A i \in 1..Len(io_queue) - 1 : io_queue'[i] = io_queue[i + 1]
  BY <1>1, HeadTail
<1>4. ASSUME NEW n \in Nat, NEW i \in Nat \ {0} PROVE At(c, n, <<"ioq", i>>)' <=> At(c, n, <<"ioq", i + 1>>)
  <2>1. i \in 1..Len(io_queue') <=> i + 1 \in 1..Len(io_queue)
    BY <1>3
  <2>2. InIoq(c, n, i)' <=> InIoq(c, n, i + 1)
    BY <1>3, <2>1 DEF InIoq
  <2> QED
    BY <2>2, AtKinds
<1>5. ASSUME NEW n \in Nat PROVE At(c, n, <<"io", g>>)' <=> At(c, n, <<"ioq", 1>>)
  <2>1. InIo(c, n, g)' <=> InIoq(c, n, 1)
    BY <1>2, <1>3 DEF InIo, InIoq
  <2> QED
    BY <2>1, AtKinds
<1>6. ASSUME NEW n \in Nat PROVE ~At(c, n, <<"io", g>>)
  BY <1>1, AtKinds DEF InIo
<1>7. ASSUME NEW n \in Nat, NEW p \in Places, p # <<"io", g>>, p[1] # "ioq"
      PROVE  At(c, n, p)' <=> At(c, n, p)
  <2>1. CASE p[1] = "io"
    <3>1. PICK h \in IOThreads : p = <<"io", h>> /\ h # g
      BY <1>7, <2>1, PlaceFacts
    <3>2. InIo(c, n, h)' <=> InIo(c, n, h)
      BY <1>2, <3>1 DEF InIo
    <3> QED
      BY <3>1, <3>2, AtKinds
  <2>2. CASE p[1] # "io"
    BY <1>1, <1>7, <2>2, PlaceFacts DEF At, InCompq, InComp, InPending
  <2> QED
    BY <2>1, <2>2
<1>8. \A i \in Nat \ {0} : InPending(c, next_block[c], i)' => Unparking(c)'
  <2>1. Unparking(c) => Unparking(c)'
    BY <1>1, <1>2 DEF Unparking
  <2> QED
    BY <1>1, <2>1 DEF InPending, WayAt
<1>9. PICK h \in Places : h = <<"io", g>> /\ h[1] \in {"comp", "io"}
  BY PlaceFacts
<1> QED
  BY <1>0, <1>1, <1>4, <1>5, <1>6, <1>7, <1>8, <1>9, WayTaken

\* The IO thread parks a copy that is early.
LEMMA WayPark ==
  ASSUME OrderInv, NEW c \in Chans, WayAt(c), Enqueued(c)' = Enqueued(c), NEW g \in IOThreads, ParkCompressed(g)
  PROVE  WayAt(c)'
<1>0. TypeOK /\ Tags /\ LogShape /\ next_block[c] \in Nat /\ Enqueued(c) \in Nat
  BY CountFacts DEF OrderInv, OrderParts, HolderInv, TypeOK, FileOK
<1>1. /\ ipc[g] = "writecomp" /\ idata[g] \in Item /\ idata[g].ch \in Chans
      /\ idata[g].block_id # next_block[idata[g].ch]
      /\ pending' = [pending EXCEPT ![idata[g].ch] = Append(@, idata[g])]
      /\ UNCHANGED <<block_id, compression_queue, io_queue, cpc, cblk, new_block, next_block>>
  BY <1>0, ItemFacts DEF ParkCompressed, InOrder, blockVars, compVars, queueVars, TypeOK, IOOK
<1>2. /\ ipc'[g] \in {"test", "pop"}
      /\ \A h \in IOThreads : h # g => ipc'[h] = ipc[h] /\ idata'[h] = idata[h]
  BY <1>0 DEF ParkCompressed, AfterBlock, TypeOK, IOOK
<1>3. Unparking(c) => Unparking(c)'
  BY <1>1, <1>2 DEF Unparking
<1>4. pending[c] \in Seq(Item) /\ Len(pending[c]) \in Nat
  BY <1>0 DEF TypeOK, FileOK
<1>5. CASE idata[g].ch # c
  <2>1. pending'[c] = pending[c]
    BY <1>0, <1>1, <1>5 DEF TypeOK, FileOK
  <2>2. \A n \in Nat : \A h \in IOThreads : InIo(c, n, h)' <=> InIo(c, n, h)
    BY <1>1, <1>2, <1>5 DEF InIo
  <2>3. \A n \in Nat : \A t \in CompThreads : InComp(c, n, t)' <=> InComp(c, n, t)
    BY <1>1 DEF InComp
  <2>4. \A i \in Nat \ {0} : InPending(c, next_block[c], i) => Unparking(c)'
    BY <1>3 DEF WayAt
  <2> QED
    BY <1>1, <2>1, <2>2, <2>3, <2>4, WaySame DEF OrderInv
<1>6. CASE idata[g].ch = c
  <2>1. pending'[c] = Append(pending[c], idata[g])
    BY <1>0, <1>1, <1>6 DEF TypeOK, FileOK
  <2>2. /\ Len(pending'[c]) = Len(pending[c]) + 1 /\ pending'[c][Len(pending[c]) + 1] = idata[g]
        /\ \A i \in 1..Len(pending[c]) : pending'[c][i] = pending[c][i]
    BY <1>1, <1>4, <2>1, SeqAppend
  <2>3. PICK k \in Nat \ {0} : k = Len(pending[c]) + 1
    BY <1>4
  <2>4. PICK h \in Places : h = <<"io", g>>
    BY PlaceFacts
  <2>5. PICK e \in Places : e = <<"parked", k>>
    BY PlaceFacts
  <2>6. e # h
    BY <2>4, <2>5
  <2>7. ASSUME NEW n \in Nat PROVE At(c, n, e)' <=> At(c, n, h)
    <3>1. InPending(c, n, k)' <=> InIo(c, n, g)
      BY <1>1, <1>4, <1>6, <2>2, <2>3 DEF InPending, InIo
    <3> QED
      BY <2>4, <2>5, <3>1, AtKinds
  <2>8. ASSUME NEW n \in Nat PROVE ~At(c, n, h)' /\ ~At(c, n, e)
    <3>1. ~InIo(c, n, g)' /\ ~InPending(c, n, k)
      BY <1>2, <1>4, <2>3 DEF InPending, InIo
    <3> QED
      BY <2>4, <2>5, <3>1, AtKinds
  <2>9. \A n \in Nat : \A i \in Nat \ {0} : i # k => (InPending(c, n, i)' <=> InPending(c, n, i))
    BY <1>4, <2>2, <2>3 DEF InPending
  <2>10. ASSUME NEW n \in Nat, NEW p \in Places, p # h, p # e PROVE At(c, n, p)' <=> At(c, n, p)
    <3>1. CASE p[1] = "io"
      <4>1. PICK u \in IOThreads : p = <<"io", u>> /\ u # g
        BY <2>4, <2>10, <3>1, PlaceFacts
      <4>2. InIo(c, n, u)' <=> InIo(c, n, u)
        BY <1>2, <4>1 DEF InIo
      <4> QED
        BY <4>1, <4>2, AtKinds
    <3>2. CASE p[1] = "parked"
      <4>1. PICK i \in Nat \ {0} : p = <<"parked", i>> /\ i # k
        BY <2>5, <2>10, <3>2, PlaceFacts
      <4> QED
        BY <2>9, <4>1, AtKinds
    <3>3. CASE p[1] \notin {"io", "parked"}
      BY <1>1, <3>3, PlaceFacts DEF At, InCompq, InComp, InIoq
    <3> QED
      BY <3>1, <3>2, <3>3
  <2>11. ASSUME NEW i \in Nat \ {0}, InPending(c, next_block[c], i)' PROVE Unparking(c)'
    <3>1. i # k
      BY <1>1, <1>4, <1>6, <2>2, <2>3, <2>11 DEF InPending
    <3>2. InPending(c, next_block[c], i)
      BY <1>1, <1>4, <2>2, <2>3, <2>11, <3>1 DEF InPending
    <3> QED
      BY <1>3, <3>2 DEF WayAt
  <2> QED
    BY <1>0, <1>1, <2>6, <2>7, <2>8, <2>10, <2>11, WayPut
<1> QED
  BY <1>5, <1>6

\* The IO thread writes a copy that is next.
LEMMA WayWrite ==
  ASSUME OrderInv, NEW c \in Chans, WayAt(c), Enqueued(c)' = Enqueued(c), NEW g \in IOThreads, WriteCompressed(g)
  PROVE  WayAt(c)'
<1>0. TypeOK /\ Tags /\ LogShape /\ next_block[c] \in Nat /\ Enqueued(c) \in Nat
  BY CountFacts DEF OrderInv, OrderParts, HolderInv, TypeOK, FileOK
<1>1. /\ ipc[g] = "writecomp" /\ idata[g] \in Item /\ idata[g].ch \in Chans
      /\ idata[g].block_id = next_block[idata[g].ch]
      /\ next_block' = [next_block EXCEPT ![idata[g].ch] = @ + 1]
      /\ UNCHANGED <<block_id, compression_queue, io_queue, cpc, cblk, new_block, pending, idata>>
  BY <1>0, ItemFacts DEF WriteCompressed, InOrder, blockVars, compVars, queueVars, TypeOK, IOOK
<1>2. /\ ipc'[g] = "unpark" /\ \A h \in IOThreads : h # g => ipc'[h] = ipc[h]
  BY <1>0 DEF WriteCompressed, TypeOK, IOOK
<1>3. CASE idata[g].ch # c
  <2>1. next_block'[c] = next_block[c]
    BY <1>0, <1>1, <1>3 DEF TypeOK, FileOK
  <2>2. \A n \in Nat : \A h \in IOThreads : InIo(c, n, h)' <=> InIo(c, n, h)
    BY <1>1, <1>2, <1>3 DEF InIo
  <2>3. \A n \in Nat : \A t \in CompThreads : InComp(c, n, t)' <=> InComp(c, n, t)
    BY <1>1 DEF InComp
  <2>4. Unparking(c) => Unparking(c)'
    BY <1>1, <1>2 DEF Unparking
  <2>5. \A i \in Nat \ {0} : InPending(c, next_block[c], i) => Unparking(c)'
    BY <2>4 DEF WayAt
  <2> QED
    BY <1>1, <2>1, <2>2, <2>3, <2>5, WaySame DEF OrderInv
<1>4. CASE idata[g].ch = c
  <2>1. next_block'[c] = next_block[c] + 1
    BY <1>0, <1>1, <1>4 DEF TypeOK, FileOK
  <2>2. PICK h \in Places : h = <<"io", g>>
    BY PlaceFacts
  <2>3. At(c, next_block[c], h)
    BY <1>1, <1>4, <2>2 DEF At, InIo
  <2>4. ASSUME NEW n \in Nat PROVE ~At(c, n, h)' /\ (At(c, n, h) => n = next_block[c])
    <3>1. ~InIo(c, n, g)' /\ (InIo(c, n, g) => n = next_block[c])
      BY <1>1, <1>2, <1>4 DEF InIo
    <3> QED
      BY <2>2, <3>1, AtKinds
  <2>5. ASSUME NEW n \in Nat, NEW p \in Places, p # h PROVE At(c, n, p)' <=> At(c, n, p)
    <3>1. CASE p[1] = "io"
      <4>1. PICK u \in IOThreads : p = <<"io", u>> /\ u # g
        BY <2>2, <2>5, <3>1, PlaceFacts
      <4>2. InIo(c, n, u)' <=> InIo(c, n, u)
        BY <1>1, <1>2, <4>1 DEF InIo
      <4> QED
        BY <4>1, <4>2, AtKinds
    <3>2. CASE p[1] # "io"
      BY <1>1, <3>2, PlaceFacts DEF At, InCompq, InComp, InIoq, InPending
    <3> QED
      BY <3>1, <3>2
  <2>6. Unparking(c)'
    BY <1>1, <1>2, <1>4 DEF Unparking
  <2> QED
    BY <1>0, <2>1, <2>3, <2>4, <2>5, <2>6, WayWritten
<1> QED
  BY <1>3, <1>4

\* The IO thread writes a parked copy that is next.
LEMMA WayUnpark ==
  ASSUME OrderInv, NEW c \in Chans, WayAt(c), Enqueued(c)' = Enqueued(c), NEW g \in IOThreads, UnparkCompressed(g)
  PROVE  WayAt(c)'
<1>0. TypeOK /\ LogShape /\ ParkedRight /\ next_block[c] \in Nat /\ Enqueued(c) \in Nat
  BY CountFacts DEF OrderInv, OrderParts, HolderInv, TypeOK, FileOK
<1>1. /\ ipc[g] = "unpark" /\ idata[g] \in Item /\ idata[g].ch \in Chans
      /\ next_block' = [next_block EXCEPT ![idata[g].ch] = @ + 1]
      /\ UNCHANGED <<block_id, compression_queue, io_queue, cpc, cblk, new_block, ipc, idata>>
  BY <1>0, ItemFacts DEF UnparkCompressed, blockVars, compVars, queueVars, ioVars, TypeOK, IOOK
<1>2. PICK i \in DOMAIN pending[idata[g].ch] :
        /\ InOrder(pending[idata[g].ch][i])
        /\ pending' = [pending EXCEPT ![idata[g].ch] = RemoveAt(@, i)]
  BY DEF UnparkCompressed
<1>3. pending[c] \in Seq(Item) /\ Len(pending[c]) \in Nat
  BY <1>0 DEF TypeOK, FileOK
<1>4. \A n \in Nat : \A h \in IOThreads : InIo(c, n, h)' <=> InIo(c, n, h)
  BY <1>1 DEF InIo
<1>5. \A n \in Nat : \A t \in CompThreads : InComp(c, n, t)' <=> InComp(c, n, t)
  BY <1>1 DEF InComp
<1>6. CASE idata[g].ch # c
  <2>1. next_block'[c] = next_block[c] /\ pending'[c] = pending[c]
    BY <1>0, <1>1, <1>2, <1>6 DEF TypeOK, FileOK
  <2>2. \A j \in Nat \ {0} : InPending(c, next_block[c], j) => Unparking(c)'
    BY <1>1 DEF WayAt, Unparking
  <2> QED
    BY <1>1, <1>4, <1>5, <2>1, <2>2, WaySame DEF OrderInv
<1>7. CASE idata[g].ch = c
  <2>1. next_block'[c] = next_block[c] + 1 /\ pending'[c] = RemoveAt(pending[c], i)
    BY <1>0, <1>1, <1>2, <1>7 DEF TypeOK, FileOK
  <2>2. i \in 1..Len(pending[c]) /\ i \in Nat \ {0}
    BY <1>2, <1>3, <1>7
  <2>3. pending[c][i].block_id = next_block[c]
    BY <1>0, <1>2, <1>7, <2>2 DEF InOrder, ParkedRight
  <2>4. /\ Len(pending'[c]) = Len(pending[c]) - 1
        /\ \A j \in 1..Len(pending[c]) - 1 :
             pending'[c][j] = IF j < i THEN pending[c][j] ELSE pending[c][j + 1]
    <3>1. PICK s \in Seq(Item) : s = pending[c]
      BY <1>3
    <3>2. PICK k \in 1..Len(s) : k = i
      BY <2>2, <3>1
    <3>3. /\ Len(RemoveAt(s, k)) = Len(s) - 1
          /\ \A j \in 1..Len(s) - 1 : RemoveAt(s, k)[j] = IF j < k THEN s[j] ELSE s[j + 1]
      BY SeqRemove
    <3> QED
      BY <2>1, <3>1, <3>2, <3>3
  <2>5. At(c, next_block[c], <<"parked", i>>)
    BY <2>2, <2>3, AtKinds DEF InPending
  <2>6. \A n \in Nat : At(c, n, <<"parked", i>>) => n = next_block[c]
    <3> SUFFICES ASSUME NEW n \in Nat, At(c, n, <<"parked", i>>) PROVE n = next_block[c]
      OBVIOUS
    <3>1. InPending(c, n, i)
      BY AtKinds
    <3> QED
      BY <2>3, <3>1 DEF InPending
  <2>7. ASSUME NEW n \in Nat, NEW j \in Nat \ {0}
        PROVE  At(c, n, <<"parked", j>>)' <=> At(c, n, <<"parked", IF j < i THEN j ELSE j + 1>>)
    <3>1. PICK m \in Nat \ {0} : m = IF j < i THEN j ELSE j + 1
      OBVIOUS
    <3>2. j \in 1..Len(pending'[c]) <=> m \in 1..Len(pending[c])
      BY <1>3, <2>2, <2>4, <3>1
    <3>3. j \in 1..Len(pending'[c]) => pending'[c][j] = pending[c][m]
      BY <1>3, <2>2, <2>4, <3>1
    <3>4. InPending(c, n, j)' <=> InPending(c, n, m)
      BY <3>2, <3>3 DEF InPending
    <3> QED
      BY <3>1, <3>4, AtKinds
  <2>8. ASSUME NEW n \in Nat, NEW p \in Places, p[1] # "parked" PROVE At(c, n, p)' <=> At(c, n, p)
    BY <1>1, <2>8, PlaceFacts DEF At, InCompq, InComp, InIoq, InIo
  <2>9. Unparking(c)'
    BY <1>1, <1>7 DEF Unparking
  <2> QED
    BY <1>0, <2>1, <2>2, <2>5, <2>6, <2>7, <2>8, <2>9, WayUnparked
<1> QED
  BY <1>6, <1>7

\* The IO thread ends its look at the parked copies when the next one is not there.
LEMMA WayUnparkDone ==
  ASSUME OrderInv, NEW c \in Chans, WayAt(c), Enqueued(c)' = Enqueued(c), NEW g \in IOThreads, UnparkDone(g)
  PROVE  WayAt(c)'
<1>0. TypeOK /\ ParkedRight
  BY DEF OrderInv, OrderParts, HolderInv
<1>1. /\ ipc[g] = "unpark" /\ idata[g] \in Item /\ idata[g].ch \in Chans
      /\ UNCHANGED <<block_id, compression_queue, io_queue, cpc, cblk, new_block, next_block, pending>>
      /\ \A i \in DOMAIN pending[idata[g].ch] : ~(IsTop(idata[g].ch, i) /\ InOrder(pending[idata[g].ch][i]))
  BY <1>0, ItemFacts DEF UnparkDone, blockVars, compVars, queueVars, fileVars, TypeOK, IOOK
<1>2. /\ ipc'[g] \in {"test", "pop"}
      /\ \A h \in IOThreads : h # g => ipc'[h] = ipc[h] /\ idata'[h] = idata[h]
  BY <1>0 DEF UnparkDone, AfterBlock, TypeOK, IOOK
<1>3. \A n \in Nat : \A h \in IOThreads : InIo(c, n, h)' <=> InIo(c, n, h)
  BY <1>1, <1>2 DEF InIo
<1>4. \A n \in Nat : \A t \in CompThreads : InComp(c, n, t)' <=> InComp(c, n, t)
  BY <1>1 DEF InComp
<1>5. ASSUME NEW i \in Nat \ {0}, InPending(c, next_block[c], i) PROVE Unparking(c)'
  <2>1. CASE idata[g].ch # c
    <3>1. Unparking(c) => Unparking(c)'
      BY <1>1, <1>2, <2>1 DEF Unparking
    <3> QED
      BY <1>5, <3>1 DEF WayAt
  <2>2. CASE idata[g].ch = c
    <3>1. pending[c] \in Seq(Item) /\ i \in DOMAIN pending[c] /\ next_block[c] \in Nat
      BY <1>0, <1>5 DEF TypeOK, FileOK, InPending
    <3>2. pending[c][i].ch = c /\ pending[c][i].block_id = next_block[c]
      BY <1>0, <1>5 DEF InPending, ParkedRight
    <3>3. ASSUME NEW j \in DOMAIN pending[c] PROVE next_block[c] <= pending[c][j].block_id
      <4>1. j \in Nat \ {0} /\ j \in 1..Len(pending[c]) /\ pending[c][j] \in Item
        BY <3>1, <3>3
      <4>2. PICK n \in Nat : n = pending[c][j].block_id
        BY <4>1, ItemFacts
      <4>3. InPending(c, n, j)
        BY <4>1, <4>2 DEF InPending
      <4>4. At(c, n, <<"parked", j>>)
        BY <4>3, AtKinds
      <4>5. <<"parked", j>> \in Places
        BY <4>1, PlaceFacts
      <4> QED
        BY <4>2, <4>4, <4>5 DEF WayAt
    <3>4. IsTop(c, i) /\ InOrder(pending[c][i])
      BY <3>1, <3>2, <3>3 DEF IsTop, InOrder
    <3> QED
      BY <1>1, <2>2, <3>1, <3>4
  <2> QED
    BY <2>1, <2>2
<1> QED
  BY <1>1, <1>3, <1>4, <1>5, WaySame DEF OrderInv

\* A step of the IO thread
LEMMA WayIO ==
  ASSUME OrderInv, NEW c \in Chans, WayAt(c), Enqueued(c)' = Enqueued(c), NEW g \in IOThreads, IOStep(g)
  PROVE  WayAt(c)'
<1>0. TypeOK
  BY DEF OrderInv, HolderInv
<1>1. CASE \/ IOTest(g) \/ IOTestLeft(g) \/ IOTestRight(g) \/ IOEmpty(g) \/ WriteUncompressed(g)
           \/ SendBackUncompressed(g) \/ IOTerminate(g) \/ IOClearIO(g) \/ IOClearComp(g)
  <2>1. UNCHANGED <<block_id, compression_queue, io_queue, cpc, cblk, new_block, next_block, pending>>
    BY <1>1 DEF IOTest, IOLoopTest, IOTestLeft, IOTestRight, IOEmpty, WriteUncompressed, SendBackUncompressed,
       IOTerminate, IOClearIO, IOClearComp, blockVars, compVars, queueVars, fileVars
  <2>2. /\ ipc[g] \notin {"writecomp", "unpark"} /\ ipc'[g] \notin {"writecomp", "unpark"}
        /\ \A h \in IOThreads : h # g => ipc'[h] = ipc[h] /\ idata'[h] = idata[h]
    BY <1>0, <1>1 DEF IOTest, IOLoopTest, IOTestLeft, IOTestRight, IOEmpty, WriteUncompressed, SendBackUncompressed,
       IOTerminate, IOClearIO, IOClearComp, AfterBlock, TypeOK, IOOK
  <2>3. \A n \in Nat : \A h \in IOThreads : InIo(c, n, h)' <=> InIo(c, n, h)
    BY <2>2 DEF InIo
  <2>4. \A n \in Nat : \A t \in CompThreads : InComp(c, n, t)' <=> InComp(c, n, t)
    BY <2>1 DEF InComp
  <2>5. Unparking(c) => Unparking(c)'
    BY <2>2 DEF Unparking
  <2>6. \A i \in Nat \ {0} : InPending(c, next_block[c], i) => Unparking(c)'
    BY <2>5 DEF WayAt
  <2> QED
    BY <2>1, <2>3, <2>4, <2>6, WaySame DEF OrderInv
<1> QED
  BY <1>1, WayIOPop, WayPark, WayWrite, WayUnpark, WayUnparkDone DEF IOStep

\* The block in use is handed over to the compression threads.
LEMMA WayEnqueue ==
  ASSUME OrderInv, NEW c \in Chans, c \in Compressed, ch_logf[c] = "open", WayAt(c), ClosureHolds(c),
         Enqueued(c)' = Enqueued(c) + 1, enqueueBlock(block[c]), pc[c] \notin Opening,
         UNCHANGED <<block_id, cpc, cblk, new_block, ipc, idata, next_block, pending>>
  PROVE  WayAt(c)'
<1>0. /\ TypeOK /\ LogShape /\ ClosureBlock /\ FileAt(c) /\ next_block[c] \in Nat /\ Enqueued(c) \in Nat
      /\ Done(c) \in Int
  BY CountFacts DEF OrderInv, OrderParts, HolderInv, TypeOK, FileOK, FileRight
<1>1. PICK b \in Blocks : b = block[c] /\ b[1] = c
  BY <1>0, HeldBlocks, BlockFacts
<1>2. block_id[b] = Enqueued(c)
  BY <1>0, <1>1, CountFacts DEF ClosureBlock
<1>3. next_block[c] <= Enqueued(c)
  BY <1>0 DEF FileAt
<1>4. compression_queue' = Append(compression_queue, b) /\ UNCHANGED io_queue /\ compression_queue \in Seq(Blocks)
  BY <1>0, <1>1 DEF enqueueBlock, TypeOK, QueueOK
<1>5. /\ Len(compression_queue) \in Nat /\ Len(compression_queue') = Len(compression_queue) + 1
      /\ compression_queue'[Len(compression_queue) + 1] = b
      /\ \A i \in 1..Len(compression_queue) : compression_queue'[i] = compression_queue[i]
  BY <1>4, SeqAppend
<1>6. PICK k \in Nat \ {0} : k = Len(compression_queue) + 1
  BY <1>5
<1>7. PICK e \in Places : e = <<"compq", k>>
  BY PlaceFacts
<1>8. ASSUME NEW n \in Nat PROVE (At(c, n, e)' <=> n = Enqueued(c)) /\ ~At(c, n, e)
  <2>1. (InCompq(c, n, k)' <=> n = Enqueued(c)) /\ ~InCompq(c, n, k)
    BY <1>1, <1>2, <1>5, <1>6 DEF InCompq
  <2> QED
    BY <1>7, <2>1, AtKinds
<1>9. ASSUME NEW n \in Nat, NEW p \in Places, p # e PROVE At(c, n, p)' <=> At(c, n, p)
  <2>1. CASE p[1] = "compq"
    <3>1. PICK i \in Nat \ {0} : p = <<"compq", i>> /\ i # k
      BY <1>7, <1>9, <2>1, PlaceFacts
    <3>2. i \in 1..Len(compression_queue') <=> i \in 1..Len(compression_queue)
      BY <1>5, <1>6, <3>1
    <3>3. InCompq(c, n, i)' <=> InCompq(c, n, i)
      BY <1>5, <3>2 DEF InCompq
    <3> QED
      BY <3>1, <3>3, AtKinds
  <2>2. CASE p[1] # "compq"
    BY <1>4, <2>2, PlaceFacts DEF At, InComp, InIoq, InIo, InPending
  <2> QED
    BY <2>1, <2>2
<1>10. \A i \in Nat \ {0} : InPending(c, next_block[c], i)' => Unparking(c)'
  BY DEF InPending, WayAt, Unparking
<1>11. \A n \in Nat : \A p \in Places : At(c, n, p) => n < Enqueued(c)
  BY OnWayBelow
<1> QED
  BY <1>0, <1>3, <1>8, <1>9, <1>10, <1>11, WayHanded

\* Another compressed channel hands a block over.
LEMMA WayOther ==
  ASSUME OrderInv, NEW c \in Chans, NEW d \in Chans, c # d, d \in Compressed, WayAt(c), Enqueued(c)' = Enqueued(c),
         ClosureHolds(d), enqueueBlock(block[d]),
         UNCHANGED <<block_id, cpc, cblk, new_block, ipc, idata, next_block, pending>>
  PROVE  WayAt(c)'
<1>0. TypeOK
  BY DEF OrderInv, HolderInv
<1>1. PICK b \in Blocks : b = block[d] /\ b[1] = d
  BY <1>0, HeldBlocks, BlockFacts
<1>2. compression_queue' = Append(compression_queue, b) /\ UNCHANGED io_queue /\ compression_queue \in Seq(Blocks)
  BY <1>0, <1>1 DEF enqueueBlock, TypeOK, QueueOK
<1>3. /\ Len(compression_queue) \in Nat /\ Len(compression_queue') = Len(compression_queue) + 1
      /\ compression_queue'[Len(compression_queue) + 1] = b
      /\ \A i \in 1..Len(compression_queue) : compression_queue'[i] = compression_queue[i]
  BY <1>2, SeqAppend
<1>4. ASSUME NEW n \in Nat, NEW i \in Nat \ {0} PROVE InCompq(c, n, i)' <=> InCompq(c, n, i)
  <2>1. CASE i = Len(compression_queue) + 1
    BY <1>1, <1>3, <2>1 DEF InCompq
  <2>2. CASE i # Len(compression_queue) + 1
    <3>1. i \in 1..Len(compression_queue') <=> i \in 1..Len(compression_queue)
      BY <1>3, <2>2
    <3> QED
      BY <1>3, <3>1 DEF InCompq
  <2> QED
    BY <2>1, <2>2
<1>5. ASSUME NEW n \in Nat, NEW p \in Places PROVE At(c, n, p)' <=> At(c, n, p)
  <2>1. CASE p[1] = "compq"
    BY <1>4, <2>1, PlaceFacts DEF At
  <2>2. CASE p[1] # "compq"
    BY <1>2, <2>2, PlaceFacts DEF At, InComp, InIoq, InIo, InPending
  <2> QED
    BY <2>1, <2>2
<1>6. \A i \in Nat \ {0} : InPending(c, next_block[c], i)' => Unparking(c)'
  BY DEF InPending, WayAt, Unparking
<1> QED
  BY <1>5, <1>6, WayQuiet

\* A channel hands its block over, at the end of a full block or of closeChannel.
LEMMA WayHandOver ==
  ASSUME Calm, OrderInv, OrderInv', CompOrder, NEW d \in Chans, ClosureHolds(d), ~ClosureHolds(d)',
         enqueueBlock(block[d]), pc'[d] \notin Opening, \A c \in Chans : c # d => Enqueued(c)' = Enqueued(c),
         UNCHANGED <<block_cnt, block_id, cpc, cblk, new_block, ipc, idata, next_block, pending, ch_logf>>
  PROVE  CompOrder'
<1>0. TypeOK /\ TypeOK' /\ LogShape /\ LogShape'
  BY DEF OrderInv, OrderParts, HolderInv
<1>1. pc[d] \notin Opening
  BY DEF ClosureHolds, Opening
<1>2. Enqueued(d)' = Enqueued(d) + 1
  <2>1. Enqueued(d) = block_cnt[d] - 1 /\ block_cnt[d] \in Nat
    BY <1>0, <1>1, CountFacts
  <2>2. Enqueued(d)' = block_cnt'[d]
    BY <1>0, CountFactsNext
  <2> QED
    BY <2>1, <2>2
<1>3. ASSUME NEW c \in Compressed, ch_logf[c] = "open" PROVE WayAt(c)'
  <2>1. c \in Chans /\ WayAt(c) /\ d \in Compressed
    BY <1>3 DEF Calm, CompOrder
  <2>2. CASE c = d
    BY <1>1, <1>2, <1>3, <2>1, <2>2, WayEnqueue
  <2>3. CASE c # d
    BY <2>1, <2>3, WayOther
  <2> QED
    BY <2>2, <2>3
<1> QED
  BY <1>3 DEF CompOrder

\* A channel is opened: nothing of it is on its way.
LEMMA WayOpenDone ==
  ASSUME OrderInv, OrderInv', CompOrder, NEW d \in Chans, OpenDone(d), \A c \in Chans : Enqueued(c)' = Enqueued(c),
         Calm
  PROVE  CompOrder'
<1>0. TypeOK /\ Tags /\ LogShape
  BY DEF OrderInv, OrderParts, HolderInv
<1>1. /\ pc[d] = "init" /\ block_id' = [block_id EXCEPT ![<<d, 1>>] = 0] /\ <<d, 1>> \in Blocks
      /\ UNCHANGED <<compression_queue, io_queue, cpc, cblk, new_block, ipc, idata, next_block, pending>>
  BY SizesAssumption DEF OpenDone, InitBlocks, Blocks, compVars, queueVars, ioVars
<1>2. holder[<<d, 1>>] = "none"
  BY <1>0, <1>1, BlockFacts DEF Tags, NoneTag, Opening
<1>3. \A b \in Blocks : holder[b] # "none" => block_id'[b] = block_id[b]
  BY <1>0, <1>1, <1>2 DEF TypeOK, BlockOK
<1>4. ASSUME NEW c \in Chans, NEW n \in Nat, NEW p \in Places PROVE At(c, n, p)' <=> At(c, n, p)
  <2>1. ASSUME NEW i \in Nat \ {0} PROVE InCompq(c, n, i)' <=> InCompq(c, n, i)
    BY <1>0, <1>1, <1>3, HeldBlocks DEF InCompq, Tags, CompqTag
  <2>2. ASSUME NEW t \in CompThreads PROVE InComp(c, n, t)' <=> InComp(c, n, t)
    BY <1>0, <1>1, <1>3, HeldBlocks, InCompSame DEF CompHolds, Tags, CompTag
  <2> QED
    BY <1>1, <2>1, <2>2, PlaceFacts DEF At, InIoq, InIo, InPending
<1>5. ASSUME NEW c \in Compressed, ch_logf'[c] = "open", c # d PROVE WayAt(c)'
  <2>1. c \in Chans /\ ch_logf[c] = "open"
    BY <1>0, <1>5 DEF OpenDone, openLogFile, TypeOK, FileOK, Calm
  <2>2. WayAt(c)
    BY <1>5, <2>1 DEF CompOrder
  <2>3. \A i \in Nat \ {0} : InPending(c, next_block[c], i)' => Unparking(c)'
    BY <1>1, <2>2 DEF InPending, WayAt, Unparking
  <2> QED
    BY <1>1, <1>4, <2>1, <2>2, <2>3, WayQuiet
<1>6. WayAt(d)'
  <2>1. Enqueued(d) = 0 /\ next_block'[d] = 0 /\ Enqueued(d)' = 0
    BY <1>0, <1>1, CountFacts DEF LogShape, Opening
  <2>2. \A n \in Nat : \A p \in Places : ~At(d, n, p)
    BY <2>1, OnWayBelow
  <2>3. \A n \in Nat : \A p \in Places : ~At(d, n, p)'
    BY <1>4, <2>2
  <2>4. \A i \in Nat \ {0} : ~InPending(d, next_block[d], i)'
    <3>1. \A i \in Nat \ {0} : ~InPending(d, 0, i)
      BY <2>2, AtKinds, PlaceFacts
    <3> QED
      BY <1>1, <2>1, <3>1 DEF InPending
  <2> QED
    BY <2>1, <2>3, <2>4 DEF WayAt
<1> QED
  BY <1>5, <1>6 DEF CompOrder

\* A channel takes an empty block from its ring and numbers it.
LEMMA WayDequeue ==
  ASSUME OrderInv, NEW c \in Chans, WayAt(c), Enqueued(c)' = Enqueued(c), NEW d \in Chans, DequeueEmpty(d)
  PROVE  WayAt(c)'
<1>0. TypeOK /\ Tags
  BY DEF OrderInv, HolderInv
<1>1. UNCHANGED <<compression_queue, io_queue, cpc, cblk, new_block, ipc, idata, next_block, pending>>
  BY DEF DequeueEmpty, compVars, queueVars, ioVars, fileVars
<1>2. \A b \in Blocks : holder[b] \in {"compq", "comp"} => block_id'[b] = block_id[b]
  <2>1. CASE slots[d][ridx[d]] = NULL
    BY <2>1 DEF DequeueEmpty
  <2>2. CASE slots[d][ridx[d]] # NULL
    <3>1. ridx[d] \in RingSlots /\ ~ring_empty(d)
      BY <1>0 DEF DequeueEmpty, TypeOK, RingOK
    <3>2. PICK b \in Blocks : b = slots[d][ridx[d]]
      BY <1>0, <2>2, <3>1, HeldBlocks
    <3>3. /\ slots' = slots /\ widx' = widx /\ ridx' = [ridx EXCEPT ![d] = next_index(ridx[d])]
          /\ holder' = [holder EXCEPT ![b] = "closure"]
          /\ block_id' = [block_id EXCEPT ![b] = block_cnt[d]]
      BY <2>2, <3>2 DEF DequeueEmpty
    <3>4. holder[b] = "ring"
      BY <1>0, <3>1, <3>2, <3>3, LeaveRing DEF Tags
    <3> QED
      BY <1>0, <3>3, <3>4 DEF TypeOK, BlockOK
  <2> QED
    BY <2>1, <2>2
<1>3. \A n \in Nat : \A t \in CompThreads : InComp(c, n, t)' <=> InComp(c, n, t)
  BY <1>0, <1>1, <1>2, HeldBlocks, InCompSame DEF CompHolds, Tags, CompTag
<1>4. \A n \in Nat : \A g \in IOThreads : InIo(c, n, g)' <=> InIo(c, n, g)
  BY <1>1 DEF InIo
<1>5. \A i \in Nat \ {0} : InPending(c, next_block[c], i) => Unparking(c)'
  BY <1>1 DEF WayAt, Unparking
<1> QED
  BY <1>1, <1>2, <1>3, <1>4, <1>5, WaySame DEF OrderInv

\* A channel starts the threads.
LEMMA WayStart ==
  ASSUME OrderInv, NEW c \in Chans, WayAt(c), Enqueued(c)' = Enqueued(c), NEW d \in Chans,
         OpenIOThread(d) \/ OpenCompThreads(d)
  PROVE  WayAt(c)'
<1>0. TypeOK /\ Unborn
  BY DEF OrderInv, HolderInv
<1>1. UNCHANGED <<compression_queue, io_queue, cblk, new_block, idata, next_block, pending, block_id>>
  BY DEF OpenIOThread, OpenCompThreads, compVars, queueVars, ioVars, fileVars, blockVars
<1>2. \A t \in CompThreads : cpc'[t] = cpc[t] \/ (cpc[t] = "unborn" /\ cpc'[t] = "poll")
  BY <1>0 DEF OpenIOThread, OpenCompThreads, compVars, Unborn, Opening
<1>3. \A g \in IOThreads : ipc'[g] = ipc[g] \/ (ipc[g] = "unborn" /\ ipc'[g] = "test")
  BY <1>0 DEF OpenIOThread, OpenCompThreads, ioVars, Unborn, TypeOK, IOOK
<1>4. \A n \in Nat : \A t \in CompThreads : InComp(c, n, t)' <=> InComp(c, n, t)
  BY <1>1, <1>2 DEF InComp
<1>5. \A n \in Nat : \A g \in IOThreads : InIo(c, n, g)' <=> InIo(c, n, g)
  BY <1>1, <1>3 DEF InIo
<1>6. Unparking(c) => Unparking(c)'
  BY <1>1, <1>3 DEF Unparking
<1>7. \A i \in Nat \ {0} : InPending(c, next_block[c], i) => Unparking(c)'
  BY <1>6 DEF WayAt
<1> QED
  BY <1>1, <1>4, <1>5, <1>7, WaySame DEF OrderInv

\* A file that is open was open, unless its channel has just been opened.
LEMMA OpenBefore ==
  ASSUME TypeOK, [Next]_vars, NEW c \in Chans, ch_logf'[c] = "open", ~\E d \in Chans : OpenDone(d)
  PROVE  ch_logf[c] = "open"
<1>0. ch_logf \in [Chans -> {"none", "open", "closed"}]
  BY DEF TypeOK, FileOK
<1>1. ASSUME NEW d \in Chans, Request(d) \/ CallStep(d) \/ CloseStep(d) PROVE ch_logf' = ch_logf
  BY <1>1 DEF Request, OpenChannel, LogTS, CloseChannel, CloseExchange, CallStep, OpenIOThread, OpenIOStore,
     OpenCountComp, OpenCompThreads, WriteFirst, WriteOnBlock, EnqueueFull, DequeueEmpty, CloseStep, CloseMark,
     CloseEnqueue, CloseDecComp, CloseDec, fileVars
<1>2. ASSUME NEW t \in CompThreads, CompStep(t) PROVE ch_logf' = ch_logf
  BY <1>2 DEF CompStep, CompPop, CompLeaveLoop, CompDrained, CompStop, CompressBlock, SendBackLoad, SendBackStore,
     CompPush, fileVars
<1>3. ASSUME NEW g \in IOThreads, IOStep(g) PROVE ch_logf[c] = "open"
  <2>1. CASE WriteUncompressed(g) \/ UnparkCompressed(g) \/ UnparkDone(g)
    BY <1>0, <2>1 DEF WriteUncompressed, UnparkCompressed, UnparkDone, closeLogFile
  <2>2. CASE ~(WriteUncompressed(g) \/ UnparkCompressed(g) \/ UnparkDone(g))
    BY <1>3, <2>2 DEF IOStep, IOTest, IOLoopTest, IOTestLeft, IOTestRight, IOPop, IOEmpty, SendBackUncompressed,
       ParkCompressed, WriteCompressed, IOTerminate, IOClearIO, IOClearComp, fileVars
  <2> QED
    BY <2>1, <2>2
<1>4. CASE ExitRequest \/ ExitStep
  BY <1>4 DEF ExitRequest, NormalExit, Signal, ExitStep, ExitClose, CloseExchange, ExitClosed, ExitCheck, ExitLoad,
     ExitJoin, fileVars
<1>5. CASE UNCHANGED vars
  BY <1>5 DEF vars, fileVars
<1> QED
  BY <1>1, <1>2, <1>3, <1>4, <1>5, StepKinds

\* The numbers stay in order on their way.
LEMMA CompOrderStep ==
  ASSUME Calm, CalmInv, RoomForCopies, CompOrder, [Next]_vars
  PROVE  CompOrder'
<1>0. /\ OrderInv /\ HolderInv /\ TypeOK /\ LogShape /\ ExitCalm /\ Phases /\ OrderInv' /\ CallsApart
  BY CalmKept DEF CalmInv, OrderInv, OrderParts, HolderInv
<1>1. ASSUME NEW c \in Chans, ~EnqueueFull(c), ~CloseEnqueue(c) PROVE Enqueued(c)' = Enqueued(c)
  BY <1>0, <1>1, EnqueuedSame
<1>2. ASSUME NEW d \in Chans, OpenDone(d) PROVE CompOrder'
  <2>1. \A c \in Chans : ~EnqueueFull(c) /\ ~CloseEnqueue(c)
    BY <1>0, <1>2 DEF OpenDone, EnqueueFull, CloseEnqueue, enqueueBlock, queueVars, TypeOK, QueueOK
  <2> QED
    BY <1>0, <1>1, <1>2, <2>1, WayOpenDone
<1>3. ASSUME NEW d \in Chans, EnqueueFull(d) \/ CloseEnqueue(d) PROVE CompOrder'
  <2>1. ClosureHolds(d) /\ ~ClosureHolds(d)' /\ enqueueBlock(block[d]) /\ pc'[d] \notin Opening
    <3>1. CASE EnqueueFull(d)
      BY <1>0, <3>1 DEF EnqueueFull, ClosureHolds, CallsApart, TypeOK, ChanOK, Opening, closeVars
    <3>2. CASE CloseEnqueue(d)
      BY <1>0, <3>2 DEF CloseEnqueue, ClosureHolds, CallsApart, TypeOK, ChanOK, Opening, chanVars, Calm
    <3> QED
      BY <1>3, <3>1, <3>2
  <2>2. /\ UNCHANGED <<block_cnt, block_id, cpc, cblk, new_block, ipc, idata, next_block, pending, ch_logf>>
        /\ \A c \in Chans : c # d => pc'[c] = pc[c] /\ closing'[c] = closing[c]
    BY <1>0, <1>3 DEF EnqueueFull, CloseEnqueue, chanVars, closeVars, blockVars, compVars, ioVars, fileVars, TypeOK,
       ChanOK
  <2>3. \A c \in Chans : c # d => Enqueued(c)' = Enqueued(c)
    BY <2>2 DEF Enqueued, ClosureHolds
  <2> QED
    BY <1>0, <2>1, <2>2, <2>3, WayHandOver
<1>4. ASSUME \A d \in Chans : ~OpenDone(d) /\ ~EnqueueFull(d) /\ ~CloseEnqueue(d) PROVE CompOrder'
  <2> SUFFICES ASSUME NEW c \in Compressed, ch_logf'[c] = "open" PROVE WayAt(c)'
    BY DEF CompOrder
  <2>1. c \in Chans /\ ch_logf[c] = "open"
    BY <1>0, <1>4, OpenBefore DEF Calm
  <2>2. WayAt(c) /\ Enqueued(c)' = Enqueued(c)
    BY <1>1, <1>4, <2>1 DEF CompOrder
  <2>3. ASSUME NEW d \in Chans, Request(d) PROVE WayAt(c)'
    <3>1. UNCHANGED <<compression_queue, io_queue, next_block, pending, block_id, cpc, cblk, new_block, ipc, idata>>
      BY <2>3 DEF Request, OpenChannel, LogTS, CloseChannel, CloseExchange, queueVars, fileVars, blockVars, compVars,
         ioVars
    <3> QED
      BY <1>0, <2>1, <2>2, <3>1, WayIdle
  <2>4. ASSUME NEW d \in Chans, CallStep(d) PROVE WayAt(c)'
    <3>1. CASE OpenIOThread(d) \/ OpenCompThreads(d)
      BY <1>0, <2>1, <2>2, <3>1, WayStart
    <3>2. CASE DequeueEmpty(d)
      BY <1>0, <2>1, <2>2, <3>2, WayDequeue
    <3>3. CASE OpenIOStore(d) \/ OpenCountComp(d) \/ WriteFirst(d) \/ WriteOnBlock(d)
      <4>1. UNCHANGED <<compression_queue, io_queue, next_block, pending, block_id, cpc, cblk, new_block, ipc, idata>>
        BY <3>3 DEF OpenIOStore, OpenCountComp, WriteFirst, WriteOnBlock, queueVars, fileVars, blockVars, compVars,
           ioVars
      <4> QED
        BY <1>0, <2>1, <2>2, <4>1, WayIdle
    <3> QED
      BY <1>4, <2>4, <3>1, <3>2, <3>3 DEF CallStep
  <2>5. ASSUME NEW d \in Chans, CloseStep(d) PROVE WayAt(c)'
    <3>1. UNCHANGED <<compression_queue, io_queue, next_block, pending, block_id, cpc, cblk, new_block, ipc, idata>>
      BY <1>4, <2>5 DEF CloseStep, CloseMark, CloseDecComp, CloseDec, queueVars, fileVars, blockVars, compVars, ioVars
    <3> QED
      BY <1>0, <2>1, <2>2, <3>1, WayIdle
  <2>6. ASSUME NEW t \in CompThreads, CompStep(t) PROVE WayAt(c)'
    BY <1>0, <2>1, <2>2, <2>6, WayComp
  <2>7. ASSUME NEW g \in IOThreads, IOStep(g) PROVE WayAt(c)'
    BY <1>0, <2>1, <2>2, <2>7, WayIO
  <2>8. CASE ExitRequest \/ ExitStep \/ UNCHANGED vars
    <3>1. UNCHANGED <<compression_queue, io_queue, next_block, pending, block_id, cpc, cblk, new_block, ipc, idata>>
      BY <2>8 DEF ExitRequest, NormalExit, Signal, ExitStep, ExitClose, CloseExchange, ExitClosed, ExitCheck,
         ExitLoad, ExitJoin, vars, queueVars, fileVars, blockVars, compVars, ioVars
    <3> QED
      BY <1>0, <2>1, <2>2, <3>1, WayIdle
  <2> QED
    BY <2>3, <2>4, <2>5, <2>6, <2>7, <2>8, StepKinds
<1> QED
  BY <1>2, <1>3, <1>4

\* A well-behaved application whose channels are compressed loses no tuple when the process
\* ends through a cleanup handler, as long as the IO queue has room whenever a compression
\* thread pushes a copy: enqueueFullBlockFromCompThread drops the copy when it has not.  It
\* holds for every number of channels, compression threads, blocks and tuples, and however
\* the compression threads overtake one another.
THEOREM NothingLostCompressed ==
  ASSUME Races = {}, Tsc = {}, IsFiniteSet(Chans), Compressed = Chans
  PROVE  Spec /\ []RoomForCopies => []NoLossAtExit
<1>1. Calm
  BY DEF Calm
<1>2. CalmInv /\ CompOrder => NoLossAtExit
  <2> SUFFICES ASSUME CalmInv, CompOrder, proc = "exited",
                      NEW c \in Chans, NEW i \in 1..Len(log[c]), log[c][i] # <<>>
               PROVE  i <= Len(file[c]) /\ file[c][i] = log[c][i]
    BY DEF NoLossAtExit
  <2>1. /\ compression_queue = <<>> /\ io_queue = <<>>
        /\ \A t \in CompThreads : cpc[t] \in {"unborn", "dead"}
        /\ \A g \in IOThreads : ipc[g] \notin {"writeraw", "writecomp", "unpark"}
        /\ pc[c] # "new" => pc[c] \notin Opening /\ Enqueued(c) = block_cnt[c] /\ Len(log[c]) = block_cnt[c]
    BY <1>1, EndFacts
  <2>2. ASSUME pc[c] # "new", ch_logf[c] = "open" PROVE Done(c) >= block_cnt[c]
    <3>1. WayAt(c) /\ FileAt(c) /\ TypeOK /\ LogShape
      BY <2>2 DEF CalmInv, OrderInv, OrderParts, CompOrder, FileRight, HolderInv
    <3>2. next_block[c] = Done(c) /\ next_block[c] \in Nat /\ block_cnt[c] \in Nat
      BY <2>2, <3>1, CountFacts DEF FileAt, TypeOK, FileOK
    <3>3. PICK n \in Nat : n = next_block[c]
      BY <3>2
    <3>4. ASSUME n < Enqueued(c) PROVE FALSE
      <4>1. PICK p \in Places : At(c, n, p)
        BY <3>1, <3>2, <3>3, <3>4 DEF WayAt
      <4>2. p[1] # "compq" /\ p[1] # "ioq"
        BY <2>1, <4>1, PlaceFacts DEF At, InCompq, InIoq
      <4>3. p[1] # "comp"
        BY <2>1, <4>1, PlaceFacts DEF At, InComp
      <4>4. p[1] # "io"
        BY <2>1, <4>1, PlaceFacts DEF At, InIo
      <4>5. InPending(c, n, p[2]) /\ p[2] \in Nat \ {0}
        BY <4>1, <4>2, <4>3, <4>4, PlaceFacts DEF At
      <4>6. Unparking(c)
        BY <3>1, <3>3, <4>5 DEF WayAt
      <4> QED
        BY <2>1, <4>6 DEF Unparking
    <3> QED
      BY <2>1, <2>2, <3>2, <3>3, <3>4
  <2> QED
    BY <1>1, <2>1, <2>2, CompleteAt
<1>3. Init => CalmInv
  BY <1>1, CalmInit
<1>4. CalmInv /\ [Next]_vars => CalmInv'
  BY <1>1, CalmKept
<1>5. Init => CompOrder
  BY DEF Init, CompOrder
<1>6. CalmInv /\ RoomForCopies /\ CompOrder /\ [Next]_vars => CompOrder'
  BY <1>1, CompOrderStep
<1> QED
  BY <1>2, <1>3, <1>4, <1>5, <1>6, PTL DEF Spec
=============================================================================
