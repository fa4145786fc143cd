----------------------------- MODULE EmitProofs -----------------------------
(***************************************************************************)
(* What is proved of the tuple emitter, for every number of threads,       *)
(* channels and tuples, every throughput and every size of queues and      *)
(* buckets.                                                                *)
(***************************************************************************)
EXTENDS TupleStream, ZmqChannel, FiniteSetTheorems, SequenceTheorems, TLAPS

-----------------------------------------------------------------------------
(* ZmqChannel: the timer that channels share.  Its thread says that it has  *)
(* finished in the variables that are deleted then; a channel that is       *)
(* closed before the thread has run finds terminated false, and the thread  *)
(* sets it only as its last step.                                           *)

ZmqPlaces == {"closed", "open", "check", "recv", "closing", "deleted", "gone"}

TimerInv ==
  /\ tm_vars \in {"null", "live", "freed"}
  /\ terminated => timer = "ended"
  /\ tm_vars = "null" => timer = "none"
  /\ tm_vars = "freed" => timer = "ended"

\* There is no timer at the start.
LEMMA TimerInitInv == ZmqInit => TimerInv
BY DEF ZmqInit, TimerInv

\* Every step keeps the timer as long as its thread runs.
LEMMA TimerNextInv == TimerInv /\ [ZmqNext]_zmqVars => TimerInv'
<1> SUFFICES ASSUME TimerInv, [ZmqNext]_zmqVars PROVE TimerInv'
  OBVIOUS
<1> USE DEF TimerInv
<1>1. CASE UNCHANGED zmqVars
  BY <1>1 DEF zmqVars, timerVars
<1>2. CASE TimerThread
  BY <1>2 DEF TimerThread, TimerStart, TimerTick, TimerEnd
<1>3. ASSUME NEW c \in ZChannels, openZMQ(c) PROVE TimerInv'
  BY <1>3 DEF openZMQ
<1>4. ASSUME NEW c \in ZChannels,
             \/ closeZMQChannel(c) \/ CloseWithoutTimer(c) \/ DeleteTwice(c)
             \/ fetchZMQStr(c) \/ BeginFetch(c)
      PROVE  TimerInv'
  BY <1>4 DEF closeZMQChannel, CloseWithoutTimer, DeleteTwice, fetchZMQStr, BeginFetch,
              timerVars
<1>5. ASSUME NEW c \in ZChannels, DeleteTimer(c) PROVE TimerInv'
  BY <1>5 DEF DeleteTimer, timerFinished
<1>6. ASSUME NEW c \in ZChannels,
             CheckTimeout(c) \/ RecvNB(c) \/ RecvNothing(c) \/ CloseRest(c)
      PROVE  TimerInv'
  BY <1>6 DEF CheckTimeout, RecvNB, RecvNothing, CloseRest, timerVars
<1> QED
  BY <1>1, <1>2, <1>3, <1>4, <1>5, <1>6 DEF ZmqNext, Fetch

\* The variables of the timer outlive its thread, whichever channels are opened and closed
\* meanwhile and in whatever order (emit.cpp, timer_fn, timer_opt_fn, closeZMQChannel).
THEOREM TimerOutlivesThread == ZmqSpec => []ThreadDoneFirst
<1>1. TimerInv => ThreadDoneFirst
  BY DEF TimerInv, ThreadDoneFirst
<1> QED
  BY <1>1, TimerInitInv, TimerNextInv, PTL DEF ZmqSpec

-----------------------------------------------------------------------------
(* ZmqChannel: the buckets.  One channel is a stream that is cut: bs are the *)
(* buckets returned, b the one being filled, w what is on its way.          *)

nextOf(bs, i) == IF i = 0 THEN 1 ELSE bs[i][Len(bs[i])] + 1

Cut(bs, b, w) ==
  /\ \A i \in 1 .. Len(bs) : /\ bs[i] # <<>> /\ Len(bs[i]) <= tuningKnob
                             /\ isRun(bs[i], nextOf(bs, i - 1))
  /\ isRun(b \o w, nextOf(bs, Len(bs)))
  /\ nextOf(bs, Len(bs)) + Len(b \o w) = NrTuples + 1

\* A run by its elements.
LEMMA RunElements ==
  ASSUME NEW b \in Seq(Nat), NEW n \in Nat
  PROVE  isRun(b, n) <=> \A k \in 1 .. Len(b) : b[k] = n + k - 1
<1>1. PICK r : r = [k \in 1 .. Len(b) |-> n + k - 1]
  OBVIOUS
<1>2. r \in Seq(Int) /\ Len(r) = Len(b) /\ b \in Seq(Int)
  BY <1>1
<1>3. (\A k \in 1 .. Len(b) : b[k] = r[k]) => b = r
  BY <1>2, SeqEqual
<1> QED
  BY <1>1, <1>3 DEF isRun

\* The number after the last bucket.
LEMMA NextOfNat ==
  ASSUME NEW bs \in Seq(Seq(Nat)), \A i \in 1 .. Len(bs) : bs[i] # <<>>
  PROVE  \A i \in 0 .. Len(bs) : nextOf(bs, i) \in Nat
<1> SUFFICES ASSUME NEW i \in 0 .. Len(bs) PROVE nextOf(bs, i) \in Nat
  OBVIOUS
<1>1. CASE i = 0
  BY <1>1 DEF nextOf
<1>2. CASE i # 0
  <2>1. PICK x \in Seq(Nat) : x = bs[i]
    BY <1>2
  <2>2. x # <<>>
    BY <1>2, <2>1
  <2>3. x[Len(x)] \in Nat
    BY <2>2
  <2> QED
    BY <1>2, <2>1, <2>3 DEF nextOf
<1> QED
  BY <1>1, <1>2

\* A sequence is its first element and the rest.
LEMMA HeadThenTail ==
  ASSUME NEW S, NEW w \in Seq(S), w # <<>>
  PROVE  <<Head(w)>> \o Tail(w) = w
<1>1. PICK x \in S : x = Head(w)
  BY HeadTailProperties
<1>2. PICK v \in Seq(S) : v = Tail(w)
  BY HeadTailProperties
<1>3. PICK y \in Seq(S) : y = <<x>> \o v
  BY ConcatProperties, <<x>> \in Seq(S)
<1>4. Len(y) = Len(w)
  BY <1>1, <1>2, <1>3
<1>5. \A i \in 1 .. Len(w) : w[i] = y[i]
  BY <1>1, <1>2, <1>3
<1> QED
  BY <1>1, <1>2, <1>3, <1>4, <1>5, SeqEqual

\* Receiving a tuple moves it from the wire to the bucket and changes nothing else.
LEMMA CutMove ==
  ASSUME NEW bs, NEW b \in Seq(Nat), NEW w \in Seq(Nat), w # <<>>, Cut(bs, b, w)
  PROVE  Cut(bs, Append(b, Head(w)), Tail(w))
<1>1. PICK x \in Nat : x = Head(w)
  OBVIOUS
<1>2. PICK v \in Seq(Nat) : v = Tail(w)
  BY HeadTailProperties
<1>3. w = <<x>> \o v
  BY <1>1, <1>2, HeadThenTail
<1>4. Append(b, x) = b \o <<x>>
  BY AppendIsConcat
<1>5. (b \o <<x>>) \o v = b \o (<<x>> \o v)
  BY ConcatAssociative, <<x>> \in Seq(Nat)
<1>6. Append(b, Head(w)) \o Tail(w) = b \o w
  BY <1>1, <1>2, <1>3, <1>4, <1>5
<1> QED
  BY <1>6 DEF Cut

\* Returning a bucket that has a tuple cuts the stream behind it.
LEMMA CutReturn ==
  ASSUME NEW bs \in Seq(Seq(Nat)), NEW b \in Seq(Nat), NEW w \in Seq(Nat), b # <<>>,
         Len(b) <= tuningKnob, Cut(bs, b, w)
  PROVE  Cut(Append(bs, b), <<>>, w)
<1>1. PICK n \in Nat : n = nextOf(bs, Len(bs))
  <2>1. Len(bs) \in 0 .. Len(bs)
    OBVIOUS
  <2> QED
    BY <2>1, NextOfNat DEF Cut
<1>2. PICK cs \in Seq(Seq(Nat)) : cs = Append(bs, b)
  BY AppendProperties
<1>3. /\ Len(cs) = Len(bs) + 1 /\ cs[Len(cs)] = b
      /\ \A i \in 1 .. Len(bs) : cs[i] = bs[i]
  BY <1>2
<1>4. \A i \in 0 .. Len(bs) : nextOf(cs, i) = nextOf(bs, i)
  BY <1>3 DEF nextOf
<1>5. PICK s \in Seq(Nat) : s = b \o w
  BY ConcatProperties
<1>6. /\ Len(s) = Len(b) + Len(w)
      /\ \A k \in 1 .. Len(b) : s[k] = b[k]
      /\ \A k \in 1 .. Len(w) : s[Len(b) + k] = w[k]
  BY <1>5
<1>7. \A k \in 1 .. Len(s) : s[k] = n + k - 1
  BY <1>1, <1>5, RunElements DEF Cut
<1>8. isRun(b, n)
  <2>1. \A k \in 1 .. Len(b) : b[k] = n + k - 1
    BY <1>6, <1>7
  <2> QED
    BY <2>1, RunElements
<1>9. nextOf(cs, Len(cs)) = n + Len(b)
  <2>1. Len(b) \in Nat \ {0} /\ b[Len(b)] = n + Len(b) - 1
    BY <1>8, RunElements, EmptySeq
  <2>2. Len(cs) # 0
    BY <1>3
  <2> QED
    BY <1>3, <2>1, <2>2 DEF nextOf
<1>10. isRun(<<>> \o w, n + Len(b))
  <2>1. \A k \in 1 .. Len(w) : w[k] = (n + Len(b)) + k - 1
    BY <1>6, <1>7
  <2>2. isRun(w, n + Len(b))
    BY <2>1, RunElements, n + Len(b) \in Nat
  <2> QED
    BY <2>2, ConcatEmptySeq
<1>11. Len(<<>> \o w) = Len(w)
  BY ConcatEmptySeq
<1>12. n + Len(s) = NrTuples + 1
  BY <1>1, <1>5 DEF Cut
<1>13. \A i \in 1 .. Len(cs) : /\ cs[i] # <<>> /\ Len(cs[i]) <= tuningKnob
                               /\ isRun(cs[i], nextOf(cs, i - 1))
  <2> SUFFICES ASSUME NEW i \in 1 .. Len(cs)
               PROVE  /\ cs[i] # <<>> /\ Len(cs[i]) <= tuningKnob
                      /\ isRun(cs[i], nextOf(cs, i - 1))
    OBVIOUS
  <2>1. CASE i = Len(cs)
    <3>1. i - 1 = Len(bs) /\ nextOf(cs, i - 1) = n
      BY <2>1, <1>1, <1>3, <1>4
    <3> QED
      BY <2>1, <3>1, <1>3, <1>8
  <2>2. CASE i # Len(cs)
    <3>1. i \in 1 .. Len(bs) /\ i - 1 \in 0 .. Len(bs)
      BY <2>2, <1>3
    <3> QED
      BY <3>1, <1>3, <1>4 DEF Cut
  <2> QED
    BY <2>1, <2>2
<1> QED
  <2>1. nextOf(cs, Len(cs)) + Len(<<>> \o w) = NrTuples + 1
    BY <1>6, <1>9, <1>11, <1>12
  <2> QED
    BY <1>2, <1>9, <1>10, <1>13, <2>1 DEF Cut

\* The first message is dropped before the stream begins.
LEMMA CutOpen ==
  ASSUME NEW w, w = [i \in 1 .. NrTuples + 1 |-> i - 1]
  PROVE  Tail(w) \in Seq(Nat) /\ Cut(<<>>, <<>>, Tail(w))
<1>1. w \in Seq(Nat) /\ w # <<>> /\ Len(w) = NrTuples + 1
  BY ZmqAssumption
<1>2. PICK v \in Seq(Nat) : v = Tail(w)
  BY <1>1, HeadTailProperties
<1>3. Len(v) = NrTuples /\ \A k \in 1 .. Len(v) : v[k] = 1 + k - 1
  <2>1. Len(v) = Len(w) - 1 /\ \A k \in 1 .. Len(v) : v[k] = w[k + 1]
    BY <1>1, <1>2, HeadTailProperties
  <2>2. Len(v) = NrTuples
    BY <1>1, <2>1, ZmqAssumption
  <2>3. ASSUME NEW k \in 1 .. Len(v) PROVE v[k] = 1 + k - 1
    <3>1. k \in Int /\ k + 1 \in 1 .. NrTuples + 1
      BY <2>2, ZmqAssumption
    <3>2. w[k + 1] = (k + 1) - 1
      BY <3>1
    <3>3. v[k] = w[k + 1]
      BY <2>1
    <3>4. (k + 1) - 1 = 1 + k - 1
      BY <3>1
    <3> QED
      BY <3>2, <3>3, <3>4
  <2> QED
    BY <2>2, <2>3
<1>4. isRun(v, 1)
  BY <1>3, RunElements
<1>5. <<>> \o v = v
  BY ConcatEmptySeq
<1>6. nextOf(<<>>, Len(<<>>)) = 1
  BY DEF nextOf
<1> QED
  <2>1. Len(<<>>) = 0 /\ 1 .. 0 = {}
    OBVIOUS
  <2>2. nextOf(<<>>, Len(<<>>)) + Len(<<>> \o v) = NrTuples + 1
    BY <1>3, <1>5, <1>6, ZmqAssumption
  <2>3. isRun(<<>> \o v, nextOf(<<>>, Len(<<>>)))
    BY <1>4, <1>5, <1>6
  <2> QED
    BY <1>2, <2>1, <2>2, <2>3 DEF Cut

BucketTypes ==
  /\ zkind \in [ZChannels -> {"plain", "bucket", "opt"}]
  /\ zpc \in [ZChannels -> ZmqPlaces] /\ z_tm \in [ZChannels -> BOOLEAN]
  /\ wire \in [ZChannels -> Seq(Nat)] /\ bucket \in [ZChannels -> Seq(Nat)]
  /\ buckets \in [ZChannels -> Seq(Seq(Nat))]

\* Only a channel with a timer fills a bucket, and there is always room for one more.
Filling(c) ==
  /\ z_tm[c] \/ zpc[c] \in {"check", "recv"} => zkind[c] # "plain"
  /\ zpc[c] \notin {"check", "recv"} => bucket[c] = <<>>
  /\ Len(bucket[c]) < tuningKnob

\* An open channel has cut the stream it was sent.
CutRight(c) ==
  IF zpc[c] = "closed"
  THEN buckets[c] = <<>> /\ wire[c] = [i \in 1 .. NrTuples + 1 |-> i - 1]
  ELSE Cut(buckets[c], bucket[c], wire[c])

BucketInv == BucketTypes /\ \A c \in ZChannels : Filling(c) /\ CutRight(c)

\* Nothing is sent and nothing returned at the start.
LEMMA BucketInitInv == ZmqInit => BucketInv
<1> SUFFICES ASSUME ZmqInit PROVE BucketInv
  OBVIOUS
<1>1. [i \in 1 .. NrTuples + 1 |-> i - 1] \in Seq(Nat)
  BY ZmqAssumption
<1>2. BucketTypes
  <2>1. zkind \in [ZChannels -> {"plain", "bucket", "opt"}]
    BY DEF ZmqInit
  <2>2. zpc \in [ZChannels -> ZmqPlaces] /\ z_tm \in [ZChannels -> BOOLEAN]
    BY DEF ZmqInit, ZmqPlaces
  <2>3. wire \in [ZChannels -> Seq(Nat)]
    BY <1>1 DEF ZmqInit
  <2>4. bucket \in [ZChannels -> Seq(Nat)] /\ buckets \in [ZChannels -> Seq(Seq(Nat))]
    BY EmptySeq DEF ZmqInit
  <2> QED
    BY <2>1, <2>2, <2>3, <2>4 DEF BucketTypes
<1>3. ASSUME NEW c \in ZChannels PROVE Filling(c) /\ CutRight(c)
  BY ZmqAssumption DEF ZmqInit, Filling, CutRight
<1> QED
  BY <1>2, <1>3 DEF BucketInv

\* A step of one channel leaves what the other channels have.
OnlyOf(c) ==
  /\ zkind' = zkind
  /\ \A d \in ZChannels \ {c} :
       /\ zpc'[d] = zpc[d] /\ z_tm'[d] = z_tm[d] /\ wire'[d] = wire[d]
       /\ bucket'[d] = bucket[d] /\ buckets'[d] = buckets[d]

\* A step of one channel leaves the buckets of the others alone.
LEMMA BucketStep ==
  ASSUME BucketInv, BucketTypes', NEW c \in ZChannels, OnlyOf(c), Filling(c)', CutRight(c)'
  PROVE  BucketInv'
<1>1. ASSUME NEW d \in ZChannels PROVE Filling(d)' /\ CutRight(d)'
  <2>1. CASE d = c
    BY <2>1
  <2>2. CASE d # c
    BY <2>2 DEF BucketInv, OnlyOf, Filling, CutRight
  <2> QED
    BY <2>1, <2>2
<1> QED
  BY <1>1 DEF BucketInv

\* returnBucket with a bucket b of the tuples that have arrived.
LEMMA BucketReturned ==
  ASSUME BucketInv, NEW c \in ZChannels, zpc[c] \in {"check", "recv"}, NEW b \in Seq(Nat),
         zkind[c] = "opt" => b # <<>>, Len(b) <= tuningKnob, returnBucket(c, b),
         Cut(buckets[c], b, wire[c]'), wire' = [wire EXCEPT ![c] = wire'[c]],
         wire'[c] \in Seq(Nat), UNCHANGED <<zkind, z_tm>>
  PROVE  BucketInv'
<1>1. PICK bs \in Seq(Seq(Nat)) : bs = buckets[c]
  BY DEF BucketInv, BucketTypes
<1>2. PICK w \in Seq(Nat) : w = wire'[c]
  OBVIOUS
<1>3. Append(bs, b) \in Seq(Seq(Nat))
  BY AppendProperties
<1>4. BucketTypes'
  <2>1. buckets' \in [ZChannels -> Seq(Seq(Nat))]
    BY <1>1, <1>3 DEF BucketInv, BucketTypes, returnBucket
  <2>2. bucket' \in [ZChannels -> Seq(Nat)] /\ wire' \in [ZChannels -> Seq(Nat)]
    BY EmptySeq DEF BucketInv, BucketTypes, returnBucket
  <2>3. zpc' \in [ZChannels -> ZmqPlaces]
    BY DEF BucketInv, BucketTypes, returnBucket, goto, ZmqPlaces
  <2> QED
    BY <2>1, <2>2, <2>3 DEF BucketInv, BucketTypes
<1>5. OnlyOf(c)
  BY DEF BucketInv, BucketTypes, returnBucket, goto, OnlyOf
<1>6. Filling(c)'
  <2>1. zkind[c] # "plain"
    BY DEF BucketInv, Filling
  <2>2. bucket'[c] = <<>> /\ zpc'[c] = "open"
    BY DEF BucketInv, BucketTypes, returnBucket, goto
  <2> QED
    BY <2>1, <2>2, ZmqAssumption DEF Filling
<1>7. CutRight(c)'
  <2>1. zpc'[c] = "open" /\ bucket'[c] = <<>>
    BY DEF BucketInv, BucketTypes, returnBucket, goto
  <2>2. Cut(bs, b, w)
    BY <1>1, <1>2
  <2>3. CASE b = <<>>
    <3>1. zkind[c] = "bucket"
      BY <2>3 DEF BucketInv, BucketTypes, Filling
    <3>2. buckets'[c] = bs
      BY <1>1, <2>3, <3>1 DEF BucketInv, BucketTypes, returnBucket
    <3> QED
      BY <1>2, <2>1, <2>2, <2>3, <3>2 DEF CutRight
  <2>4. CASE b # <<>>
    <3>1. buckets'[c] = Append(bs, b)
      BY <1>1, <2>4 DEF BucketInv, BucketTypes, returnBucket
    <3>2. Cut(Append(bs, b), <<>>, w)
      BY <2>2, <2>4, CutReturn
    <3> QED
      BY <1>2, <2>1, <3>1, <3>2 DEF CutRight
  <2> QED
    BY <2>3, <2>4
<1> QED
  BY <1>4, <1>5, <1>6, <1>7, BucketStep

\* Every step keeps the buckets a cut of the stream.
LEMMA BucketNextInv == BucketInv /\ [ZmqNext]_zmqVars => BucketInv'
<1> SUFFICES ASSUME BucketInv, [ZmqNext]_zmqVars PROVE BucketInv'
  OBVIOUS
<1>1. ASSUME UNCHANGED <<zkind, zpc, z_tm, wire, bucket, buckets>> PROVE BucketInv'
  BY <1>1 DEF BucketInv, BucketTypes, Filling, CutRight
<1>2. CASE UNCHANGED zmqVars
  BY <1>1, <1>2 DEF zmqVars, timerVars, fetchVars
<1>3. CASE TimerThread
  BY <1>1, <1>3 DEF TimerThread, TimerStart, TimerTick, TimerEnd, fetchVars
<1>4. ASSUME NEW c \in ZChannels,
             \/ openZMQ(c) \/ closeZMQChannel(c) \/ CloseWithoutTimer(c) \/ DeleteTwice(c)
             \/ fetchZMQStr(c) \/ BeginFetch(c) \/ Fetch(c)
      PROVE  BucketInv'
  <2>0. PICK bs \in Seq(Seq(Nat)), b \in Seq(Nat), w \in Seq(Nat) :
          bs = buckets[c] /\ b = bucket[c] /\ w = wire[c]
    BY DEF BucketInv, BucketTypes
  <2>t. BucketTypes /\ Filling(c) /\ CutRight(c)
    BY DEF BucketInv
  <2>1. CASE openZMQ(c)
    <3>1. Tail(w) \in Seq(Nat) /\ Cut(<<>>, <<>>, Tail(w))
      BY <2>0, <2>t, <2>1, CutOpen DEF openZMQ, CutRight
    <3>2. BucketTypes'
      BY <2>t, <2>0, <2>1, <3>1 DEF BucketTypes, openZMQ, goto, ZmqPlaces, fetchVars
    <3>3. OnlyOf(c)
      BY <2>t, <2>1 DEF BucketTypes, OnlyOf, openZMQ, goto, fetchVars
    <3>4. Filling(c)'
      BY <2>t, <2>1 DEF BucketTypes, Filling, openZMQ, goto, fetchVars
    <3>5. CutRight(c)'
      BY <2>t, <2>0, <2>1, <3>1 DEF BucketTypes, Filling, CutRight, openZMQ, goto, fetchVars
    <3> QED
      BY <3>2, <3>3, <3>4, <3>5, BucketStep
  <2>2. CASE closeZMQChannel(c)
    <3>1. BucketTypes'
      BY <2>t, <2>2 DEF BucketTypes, closeZMQChannel, goto, ZmqPlaces, fetchVars
    <3>2. OnlyOf(c)
      BY <2>t, <2>2 DEF BucketTypes, OnlyOf, closeZMQChannel, goto, fetchVars
    <3>3. Filling(c)' /\ CutRight(c)'
      BY <2>t, <2>2 DEF BucketTypes, Filling, CutRight, closeZMQChannel, goto, fetchVars
    <3> QED
      BY <3>1, <3>2, <3>3, BucketStep
  <2>3. CASE fetchZMQStr(c)
    <3>1. PICK x \in Nat : x = Head(w)
      BY <2>0, <2>3 DEF fetchZMQStr
    <3>2. w # <<>> /\ b = <<>> /\ Cut(bs, b, w)
      BY <2>0, <2>3, <2>t DEF fetchZMQStr, Filling, CutRight
    <3>3. <<x>> \in Seq(Nat) /\ <<x>> # <<>> /\ Len(<<x>>) = 1 /\ Append(<<>>, x) = <<x>>
      OBVIOUS
    <3>4. Cut(bs, <<x>>, Tail(w))
      BY <3>1, <3>2, <3>3, CutMove
    <3>5. Tail(w) \in Seq(Nat)
      BY <3>2, HeadTailProperties
    <3>6. Cut(Append(bs, <<x>>), <<>>, Tail(w))
      <4>1. Len(<<x>>) <= tuningKnob
        BY <3>3, ZmqAssumption
      <4> QED
        BY <3>3, <3>4, <3>5, <4>1, CutReturn
    <3>7. Append(bs, <<x>>) \in Seq(Seq(Nat))
      BY <3>3, AppendProperties
    <3>8. BucketTypes'
      BY <2>t, <2>0, <2>3, <3>1, <3>5, <3>7 DEF BucketTypes, fetchZMQStr, timerVars
    <3>9. OnlyOf(c)
      BY <2>t, <2>3 DEF BucketTypes, OnlyOf, fetchZMQStr, timerVars
    <3>10. Filling(c)'
      BY <2>t, <2>3 DEF BucketTypes, Filling, fetchZMQStr, timerVars
    <3>11. CutRight(c)'
      BY <2>t, <2>0, <2>3, <3>1, <3>2, <3>6
      DEF BucketTypes, CutRight, fetchZMQStr, timerVars
    <3> QED
      BY <3>8, <3>9, <3>10, <3>11, BucketStep
  <2>4. CASE BeginFetch(c)
    <3>1. BucketTypes'
      BY <2>t, <2>4 DEF BucketTypes, BeginFetch, goto, ZmqPlaces, timerVars
    <3>2. OnlyOf(c)
      BY <2>t, <2>4 DEF BucketTypes, OnlyOf, BeginFetch, goto, timerVars
    <3>3. Filling(c)' /\ CutRight(c)'
      BY <2>t, <2>4, ZmqAssumption
      DEF BucketTypes, Filling, CutRight, BeginFetch, goto, timerVars
    <3> QED
      BY <3>1, <3>2, <3>3, BucketStep
  <2>5. CASE CheckTimeout(c)
    <3>1. CASE mayReturn(c) /\ returnBucket(c, bucket[c])
      <4>1. zpc[c] \in {"check", "recv"} /\ UNCHANGED <<zkind, z_tm, wire>>
        BY <2>5 DEF CheckTimeout, timerVars
      <4>2. wire'[c] \in Seq(Nat) /\ wire' = [wire EXCEPT ![c] = wire'[c]]
        BY <4>1, <2>t DEF BucketTypes
      <4>3. Cut(buckets[c], b, wire[c]')
        BY <4>1, <2>0, <2>t DEF CutRight
      <4>4. Len(b) <= tuningKnob /\ (zkind[c] = "opt" => b # <<>>)
        BY <2>0, <2>t, <3>1, ZmqAssumption DEF Filling, mayReturn
      <4> QED
        BY <4>1, <4>2, <4>3, <4>4, <3>1, <2>0, BucketReturned
    <3>2. CASE UNCHANGED <<zpc, lag, bucket, buckets>>
      BY <1>1, <2>5, <3>2 DEF CheckTimeout, timerVars
    <3>3. CASE goto(c, "recv") /\ UNCHANGED <<late, bucket, buckets>>
      <4>1. UNCHANGED <<zkind, z_tm, wire, bucket, buckets>> /\ zpc[c] = "check"
        BY <2>5, <3>3 DEF CheckTimeout, timerVars
      <4>2. BucketTypes' /\ OnlyOf(c)
        BY <2>t, <3>3, <4>1 DEF BucketTypes, OnlyOf, goto, ZmqPlaces
      <4>3. Filling(c)' /\ CutRight(c)'
        BY <2>t, <3>3, <4>1 DEF BucketTypes, Filling, CutRight, goto
      <4> QED
        BY <4>2, <4>3, BucketStep
    <3> QED
      BY <2>5, <3>1, <3>2, <3>3 DEF CheckTimeout
  <2>6. CASE RecvNB(c)
    <3>1. /\ zpc[c] = "recv" /\ w # <<>> /\ wire' = [wire EXCEPT ![c] = Tail(w)]
          /\ UNCHANGED <<zkind, z_tm>>
      BY <2>0, <2>6 DEF RecvNB, timerVars
    <3>2. Cut(bs, b, w)
      BY <2>0, <2>t, <3>1 DEF CutRight
    <3>3. PICK v \in Seq(Nat) : v = Tail(w)
      BY <3>1, HeadTailProperties
    <3>4. PICK a \in Seq(Nat) : a = Append(b, Head(w))
      BY <3>1, HeadTailProperties, AppendProperties
    <3>5. a # <<>> /\ Len(a) = Len(b) + 1 /\ Cut(bs, a, v)
      BY <3>1, <3>2, <3>3, <3>4, CutMove
    <3>6. wire'[c] = v
      BY <3>1, <3>3, <2>t DEF BucketTypes
    <3>7. CASE Len(b) + 1 < tuningKnob
      <4>1. /\ bucket' = [bucket EXCEPT ![c] = a] /\ goto(c, "check")
            /\ UNCHANGED buckets
        BY <2>0, <2>6, <3>4, <3>7 DEF RecvNB, filled
      <4>2. BucketTypes' /\ OnlyOf(c)
        BY <2>t, <3>1, <3>3, <4>1 DEF BucketTypes, OnlyOf, goto, ZmqPlaces
      <4>3. Filling(c)' /\ CutRight(c)'
        BY <2>t, <2>0, <3>1, <3>5, <3>6, <3>7, <4>1
        DEF BucketTypes, Filling, CutRight, goto
      <4> QED
        BY <4>2, <4>3, BucketStep
    <3>8. CASE ~(Len(b) + 1 < tuningKnob)
      <4>1. returnBucket(c, a)
        BY <2>0, <2>6, <3>4, <3>8 DEF RecvNB, filled
      <4>2. Len(a) <= tuningKnob
        BY <2>0, <2>t, <3>5, ZmqAssumption DEF Filling
      <4>3. wire' = [wire EXCEPT ![c] = wire'[c]]
        BY <3>1, <3>3, <3>6
      <4>4. Cut(buckets[c], a, wire[c]')
        BY <2>0, <3>5, <3>6
      <4> QED
        BY <3>1, <3>5, <3>6, <4>1, <4>2, <4>3, <4>4, BucketReturned
    <3> QED
      BY <3>7, <3>8
  <2>7. CASE RecvNothing(c)
    <3>1. BucketTypes' /\ OnlyOf(c)
      BY <2>t, <2>7 DEF BucketTypes, OnlyOf, RecvNothing, goto, ZmqPlaces, timerVars, fetchVars
    <3>2. Filling(c)' /\ CutRight(c)'
      BY <2>t, <2>7
      DEF BucketTypes, Filling, CutRight, RecvNothing, goto, timerVars, fetchVars
    <3> QED
      BY <3>1, <3>2, BucketStep
  <2>8. CASE DeleteTimer(c)
    <3>1. BucketTypes' /\ OnlyOf(c)
      BY <2>t, <2>8 DEF BucketTypes, OnlyOf, DeleteTimer, goto, ZmqPlaces, fetchVars
    <3>2. Filling(c)' /\ CutRight(c)'
      BY <2>t, <2>8 DEF BucketTypes, Filling, CutRight, DeleteTimer, goto, fetchVars
    <3> QED
      BY <3>1, <3>2, BucketStep
  <2>9. CASE CloseRest(c)
    <3>1. BucketTypes' /\ OnlyOf(c)
      BY <2>t, <2>9 DEF BucketTypes, OnlyOf, CloseRest, goto, ZmqPlaces, timerVars, fetchVars
    <3>2. Filling(c)' /\ CutRight(c)'
      BY <2>t, <2>9 DEF BucketTypes, Filling, CutRight, CloseRest, goto, timerVars, fetchVars
    <3> QED
      BY <3>1, <3>2, BucketStep
  <2>10. CASE CloseWithoutTimer(c) \/ DeleteTwice(c)
    BY <1>1, <2>10 DEF CloseWithoutTimer, DeleteTwice, timerVars, fetchVars
  <2> QED
    BY <1>4, <2>1, <2>2, <2>3, <2>4, <2>5, <2>6, <2>7, <2>8, <2>9, <2>10 DEF Fetch
<1> QED
  BY <1>2, <1>3, <1>4 DEF ZmqNext

\* Whichever of the timer, the sender and the fetches comes first, the buckets are
\* consecutive pieces of what was sent, none empty or overfull, and what has not been
\* returned is still there, a timer that was deleted under the fetch or not
\* (cloud_profiler.i, the fetch loops).
THEOREM BucketsCut == ZmqSpec => []BucketsPartition
<1>1. BucketInv => BucketsPartition
  <2> SUFFICES ASSUME BucketInv PROVE BucketSizes /\ EveryTupleBucketed
    BY DEF BucketsPartition
  <2>1. ASSUME NEW c \in ZChannels, zpc[c] = "closed" PROVE buckets[c] = <<>>
    BY <2>1 DEF BucketInv, CutRight
  <2>2. ASSUME NEW c \in ZChannels, zpc[c] # "closed"
        PROVE  Cut(buckets[c], bucket[c], wire[c])
    BY <2>2 DEF BucketInv, CutRight
  <2>3. \A c \in ZChannels : DOMAIN buckets[c] = 1 .. Len(buckets[c])
    BY DEF BucketInv, BucketTypes
  <2>4. BucketSizes
    <3> SUFFICES ASSUME NEW c \in ZChannels, NEW i \in DOMAIN buckets[c]
                 PROVE  buckets[c][i] # <<>> /\ Len(buckets[c][i]) <= tuningKnob
      BY DEF BucketSizes
    <3>1. i \in 1 .. Len(buckets[c])
      BY <2>3
    <3>2. zpc[c] # "closed"
      BY <2>1, <3>1
    <3> QED
      BY <2>2, <3>1, <3>2 DEF Cut
  <2>5. EveryTupleBucketed
    BY <2>2 DEF EveryTupleBucketed, Cut, nextTuple, nextOf
  <2> QED
    BY <2>4, <2>5
<1> QED
  BY <1>1, BucketInitInv, BucketNextInv, PTL DEF ZmqSpec

-----------------------------------------------------------------------------
(* TupleStream.  What is in the queues is what was emitted only because the *)
(* threads start together: until its client has read the first message, a   *)
(* socket has that one in front of the tuples, and no tuple goes into a     *)
(* socket that has no client.                                               *)

Emitting == {"emit", "pace", "resync"}
EmitPlaces == Emitting \cup {"load", "init", "barrier", "check", "pills", "done", "exit"}

StreamTypes ==
  /\ source \in {"bytes", "str", "self"}
  /\ remaining \in Nat /\ iter \in Nat /\ thr_id \in Nat
  /\ arrays \in [Threads -> Seq(Int)] /\ pills \in [Threads -> Seq(Int)]
  /\ epc \in [Threads -> EmitPlaces] /\ passed \in [Threads -> 0 .. 2]
  /\ sending \in [Threads -> {"tuples", "pills"}] /\ next \in [Threads -> Nat]
  /\ cpc \in [Threads -> {"none", "connect", "init", "recv", "push"}]
  /\ str \in [Threads -> Int] /\ sock \in [Threads -> Seq(Int)]
  /\ queue \in [Threads -> Seq(Int)] /\ q_idx \in Threads
  /\ emitted \in [Threads -> Seq(Int)] /\ got \in [Threads -> Seq(Int)]

\* The tuples of thread t when it has n of them.
share(t, n, offset) == [i \in 1 .. n |-> t * replay_size + offset + i - 1]

\* The loader of byte tuples fills one thread after the other.
LoadRight ==
  /\ source = "bytes" =>
       /\ remaining + (thr_id * replay_size + iter) = nr_threads * replay_size
       /\ iter < replay_size
       /\ \A t \in Threads : arrays[t] =
            share(t, IF t < thr_id THEN replay_size ELSE IF t = thr_id THEN iter ELSE 0, 0)
  /\ source = "str" /\ remaining = 0 =>
       \A t \in Threads : arrays[t] = share(t, replay_size, tup_idx_offset)
  /\ source # "self" => \A t \in Threads : epc[t] # "load" => remaining = 0

\* The first message and the barriers.
StartRight ==
  /\ source = "self" =>
       \A t \in Threads : /\ cpc[t] = "none" /\ sock[t] = <<>>
                          /\ epc[t] \notin {"load", "init", "barrier"}
  /\ source # "self" =>
       \A t \in Threads :
         /\ cpc[t] # "none"
         /\ epc[t] \in {"load", "init"} => passed[t] = 0
         /\ epc[t] \in {"barrier", "check"} => passed[t] # 0
         /\ epc[t] \in {"load", "init", "barrier", "check"} => sending[t] = "tuples"
         /\ passed[t] = 0 => cpc[t] \in {"connect", "init"} /\ sock[t] = <<>>
         /\ passed[t] # 0 => cpc[t] # "connect"
         /\ passed[t] # 0 /\ cpc[t] = "init" => sock[t] # <<>>
         /\ epc[t] \in Emitting \cup {"pills", "done"} \/ emitted[t] # <<>> =>
              \A u \in Threads : passed[u] = 2

\* The iterator of a thread that emits is inside its vector.
NextRight ==
  source # "self" =>
    \A t \in Threads : epc[t] \in Emitting => next[t] \in 1 .. Len(vec(t))

StreamInv == StreamTypes /\ LoadRight /\ StartRight /\ NextRight /\ InOrderOnce

\* There is something to replay, and a thread to replay it.
LEMMA ReplayNat == replay_size \in Nat \ {0} /\ 0 \in Threads
<1>1. per_sec_throughput * emit_dur \in Nat \ {0}
  BY StreamAssumption
<1> QED
  BY <1>1, StreamAssumption DEF replay_size, Threads

\* A share of the replayed tuples has the size asked for.
LEMMA ShareSeq ==
  ASSUME NEW t \in Threads, NEW n \in Nat, NEW offset \in Nat
  PROVE  share(t, n, offset) \in Seq(Int) /\ Len(share(t, n, offset)) = n
<1>1. t * replay_size \in Int
  BY ReplayNat, StreamAssumption DEF Threads
<1>2. \A i \in 1 .. n : t * replay_size + offset + i - 1 \in Int
  BY <1>1
<1> QED
  BY <1>2 DEF share

\* When nothing remains to be loaded, every thread has its share.
LEMMA AllLoaded ==
  ASSUME LoadRight, StreamTypes, source # "self", remaining = 0
  PROVE  \A t \in Threads :
           arrays[t] = share(t, replay_size, IF source = "str" THEN tup_idx_offset ELSE 0)
<1>1. CASE source = "str"
  BY <1>1 DEF LoadRight
<1>2. CASE source = "bytes"
  <2>1. PICK R \in Nat \ {0} : R = replay_size
    BY ReplayNat
  <2>2. PICK N \in Nat \ {0} : N = nr_threads
    BY StreamAssumption
  <2>3. thr_id * R + iter = N * R /\ iter < R /\ iter \in Nat /\ thr_id \in Nat
    BY <1>2, <2>1, <2>2 DEF LoadRight, StreamTypes
  <2>4. thr_id >= N
    <3> SUFFICES ASSUME thr_id < N PROVE FALSE
      BY <2>3
    <3>1. PICK d \in Nat : N = thr_id + 1 + d
      BY <2>3
    <3>2. N * R = thr_id * R + R + d * R
      BY <3>1, <2>3
    <3>3. d * R \in Nat /\ thr_id * R \in Nat
      BY <2>3
    <3> QED
      BY <3>2, <3>3, <2>3
  <2>5. \A t \in Threads : t < thr_id
    BY <2>2, <2>3, <2>4 DEF Threads
  <2> QED
    BY <1>2, <2>5 DEF LoadRight
<1> QED
  BY <1>1, <1>2 DEF StreamTypes

\* Nothing is loaded, emitted or received at the start.
LEMMA StreamInitInv == StreamInit => StreamInv
<1> SUFFICES ASSUME StreamInit PROVE StreamInv
  OBVIOUS
<1> USE DEF StreamInit, ClientInit
<1>0. replay_size * nr_threads = nr_threads * replay_size /\ replay_size * nr_threads \in Nat
  BY ReplayNat, StreamAssumption
<1>1. StreamTypes
  BY <1>0, ReplayNat, EmptySeq DEF StreamTypes, EmitPlaces, Emitting
<1>2. LoadRight
  <2>1. \A t \in Threads : share(t, 0, 0) = <<>>
    BY ShareSeq, EmptySeq
  <2>2. remaining # 0
    BY ReplayNat, StreamAssumption
  <2>3. remaining + (thr_id * replay_size + iter) = nr_threads * replay_size
    BY <1>0, ReplayNat
  <2>4. \A t \in Threads : ~(t < thr_id)
    BY StreamAssumption DEF Threads
  <2>5. source # "self" => \A t \in Threads : epc[t] = "load"
    OBVIOUS
  <2>6. \A t \in Threads : arrays[t] = <<>>
    OBVIOUS
  <2>7. 0 < replay_size /\ iter = 0
    BY ReplayNat
  <2> QED
    BY <2>1, <2>2, <2>3, <2>4, <2>5, <2>6, <2>7 DEF LoadRight
<1>3. StartRight
  BY DEF StartRight, Emitting
<1>4. NextRight
  BY DEF NextRight, Emitting
<1>5. InOrderOnce
  BY ConcatEmptySeq, EmptySeq DEF InOrderOnce, inHand, onTheWay
<1> QED
  BY <1>1, <1>2, <1>3, <1>4, <1>5 DEF StreamInv

-----------------------------------------------------------------------------
\* What was emitted is what was got, then the queue, then what the client has in hand,
\* then what is on its way; and each step moves one tuple across one of these limits.
Ordered(e, g, q, h, w) == e = ((g \o q) \o h) \o w

\* One element.
LEMMA SingleSeq ==
  ASSUME NEW S, NEW x \in S
  PROVE  <<x>> \in Seq(S)
OBVIOUS

\* Appending leaves the beginning alone.
LEMMA AppendNotEmpty ==
  ASSUME NEW S, NEW s \in Seq(S), NEW x \in S
  PROVE  Append(s, x) # <<>>
<1>1. PICK y : y = Append(s, x)
  OBVIOUS
<1>2. y \in Seq(S) /\ Len(y) = Len(s) + 1 /\ Len(s) \in Nat
  BY <1>1, AppendProperties
<1>3. Len(y) # 0
  BY <1>2
<1> QED
  BY <1>1, <1>3

\* Taking from the front and putting to the end do not interfere.
LEMMA TailAppend ==
  ASSUME NEW S, NEW s \in Seq(S), NEW x \in S, s # <<>>
  PROVE  Tail(Append(s, x)) = Append(Tail(s), x)
<1>1. PICK y \in Seq(S) : y = Append(s, x)
  BY AppendProperties
<1>2. PICK b \in Seq(S) : b = Tail(s)
  BY HeadTailProperties
<1>3. PICK h \in S : h = Head(s)
  BY HeadTailProperties
<1>4. PICK o \in Seq(S) : o = <<h>>
  BY SingleSeq
<1>5. PICK e \in Seq(S) : e = <<x>>
  BY SingleSeq
<1>6. s = o \o b
  BY <1>2, <1>3, <1>4, HeadThenTail
<1>7. y = (o \o b) \o e
  BY <1>1, <1>5, <1>6, AppendIsConcat
<1>8. y = o \o (b \o e)
  BY <1>7, ConcatAssociative
<1>9. y # <<>> /\ Head(y) = h
  <2>1. y # <<>> /\ Head(y) = y[1] /\ h = s[1]
    BY <1>1, <1>3, AppendNotEmpty
  <2>2. Len(s) \in Nat \ {0}
    BY EmptySeq
  <2>3. y[1] = s[1]
    BY <1>1, <2>2
  <2> QED
    BY <2>1, <2>3
<1>10. PICK v \in Seq(S) : v = Tail(y)
  BY <1>9, HeadTailProperties
<1>11. y = o \o v
  BY <1>4, <1>9, <1>10, HeadThenTail
<1>12. b \o e \in Seq(S)
  BY ConcatProperties
<1>13. v = b \o e
  BY <1>8, <1>11, <1>12, ConcatSimplifications
<1>14. Append(b, x) = b \o e
  BY <1>5, AppendIsConcat
<1> QED
  BY <1>1, <1>2, <1>10, <1>13, <1>14

\* The receiving thread puts the tuple in its hand into the queue.
LEMMA OrderedPush ==
  ASSUME NEW S, NEW e, NEW g \in Seq(S), NEW q \in Seq(S), NEW w \in Seq(S), NEW x \in S,
         Ordered(e, g, q, <<x>>, w)
  PROVE  Ordered(e, g, Append(q, x), <<>>, w)
<1>1. Append(q, x) = q \o <<x>> /\ <<x>> \in Seq(S)
  BY AppendIsConcat, SingleSeq
<1>2. g \o (q \o <<x>>) = (g \o q) \o <<x>>
  BY <1>1, ConcatAssociative
<1>3. PICK y \in Seq(S) : y = g \o Append(q, x)
  BY ConcatProperties, AppendProperties
<1>4. y \o <<>> = y
  BY ConcatEmptySeq
<1> QED
  BY <1>1, <1>2, <1>3, <1>4 DEF Ordered

\* The receiving thread takes a tuple from the socket.
LEMMA OrderedRecv ==
  ASSUME NEW S, NEW e, NEW g \in Seq(S), NEW q \in Seq(S), NEW w \in Seq(S), w # <<>>,
         Ordered(e, g, q, <<>>, w)
  PROVE  Ordered(e, g, q, <<Head(w)>>, Tail(w))
<1>1. PICK x \in S : x = Head(w)
  BY HeadTailProperties
<1>2. PICK v \in Seq(S) : v = Tail(w)
  BY HeadTailProperties
<1>3. PICK y \in Seq(S) : y = g \o q
  BY ConcatProperties
<1>4. y \o <<>> = y /\ <<x>> \o v = w
  BY <1>1, <1>2, ConcatEmptySeq, HeadThenTail
<1>5. (y \o <<x>>) \o v = y \o (<<x>> \o v)
  <2>1. <<x>> \in Seq(S)
    BY SingleSeq
  <2> QED
    BY <2>1, ConcatAssociative
<1> QED
  BY <1>1, <1>2, <1>3, <1>4, <1>5 DEF Ordered

\* A tuple is fetched from the queue.
LEMMA OrderedGot ==
  ASSUME NEW S, NEW e, NEW g \in Seq(S), NEW q \in Seq(S), NEW h, NEW w, q # <<>>,
         Ordered(e, g, q, h, w)
  PROVE  Ordered(e, Append(g, Head(q)), Tail(q), h, w)
<1>1. PICK x \in S : x = Head(q)
  BY HeadTailProperties
<1>2. PICK v \in Seq(S) : v = Tail(q)
  BY HeadTailProperties
<1>3. <<x>> \o v = q /\ Append(g, x) = g \o <<x>>
  BY <1>1, <1>2, HeadThenTail, AppendIsConcat
<1>4. (g \o <<x>>) \o v = g \o (<<x>> \o v)
  <2>1. <<x>> \in Seq(S)
    BY SingleSeq
  <2> QED
    BY <2>1, ConcatAssociative
<1> QED
  BY <1>1, <1>2, <1>3, <1>4 DEF Ordered

\* A tuple is emitted into the socket.
LEMMA OrderedSend ==
  ASSUME NEW S, NEW e, NEW g \in Seq(S), NEW q \in Seq(S), NEW h \in Seq(S),
         NEW w \in Seq(S), NEW x \in S, Ordered(e, g, q, h, w)
  PROVE  Ordered(Append(e, x), g, q, h, Append(w, x))
<1>1. PICK y \in Seq(S) : y = (g \o q) \o h
  BY ConcatProperties
<1>2. y \o w \in Seq(S)
  BY ConcatProperties
<1>3. Append(y \o w, x) = (y \o w) \o <<x>> /\ Append(w, x) = w \o <<x>>
  BY <1>2, AppendIsConcat
<1>4. (y \o w) \o <<x>> = y \o (w \o <<x>>)
  <2>1. <<x>> \in Seq(S)
    BY SingleSeq
  <2> QED
    BY <2>1, ConcatAssociative
<1> QED
  BY <1>1, <1>3, <1>4 DEF Ordered

\* A tuple is emitted into the queue itself.
LEMMA OrderedFeed ==
  ASSUME NEW S, NEW e, NEW g \in Seq(S), NEW q \in Seq(S), NEW x \in S,
         Ordered(e, g, q, <<>>, <<>>)
  PROVE  Ordered(Append(e, x), g, Append(q, x), <<>>, <<>>)
<1>1. PICK y \in Seq(S) : y = g \o q
  BY ConcatProperties
<1>2. y \o <<>> = y
  BY ConcatEmptySeq
<1>3. Append(y, x) = y \o <<x>> /\ Append(q, x) = q \o <<x>>
  BY AppendIsConcat
<1>4. (g \o q) \o <<x>> = g \o (q \o <<x>>)
  <2>1. <<x>> \in Seq(S)
    BY SingleSeq
  <2> QED
    BY <2>1, ConcatAssociative
<1>5. PICK z \in Seq(S) : z = g \o Append(q, x)
  BY ConcatProperties, AppendProperties
<1>6. z \o <<>> = z
  BY ConcatEmptySeq
<1> QED
  BY <1>1, <1>2, <1>3, <1>4, <1>5, <1>6 DEF Ordered

-----------------------------------------------------------------------------
\* InOrderOnce in the terms of these lemmas.
LEMMA InOrderIs ==
  InOrderOnce <=>
    \A t \in Threads : Ordered(emitted[t], got[t], queue[t], inHand(t), onTheWay(t))
BY DEF InOrderOnce, Ordered

\* Loading.
LEMMA LoadInv == ASSUME StreamInv, Load PROVE StreamInv'
<1> USE DEF StreamInv
<1>0. /\ UNCHANGED <<source, passed, sending, next, sock, cpc, str, queue, q_idx, emitted, got>>
      /\ source # "self"
  BY DEF Load, loadOneTuple, loadAllStrTuples, loadPoisonPills, runDGSender, settings,
         emitVars, clientVars, loadVars
<1>1. InOrderOnce'
  BY <1>0 DEF InOrderOnce, inHand, onTheWay
<1>2. CASE loadOneTuple
  <2>1. /\ source = "bytes" /\ remaining > 0 /\ UNCHANGED <<epc, pills>>
        /\ remaining' = remaining - 1
        /\ iter' = IF replay_size - iter = 1 THEN 0 ELSE iter + 1
        /\ thr_id' = IF replay_size - iter = 1 THEN thr_id + 1 ELSE thr_id
        /\ arrays' = [arrays EXCEPT ![thr_id] =
                        Append(arrays[thr_id], replay_size * nr_threads - remaining)]
    BY <1>2 DEF loadOneTuple, lastOfThread, emitVars
  <2>2. PICK R \in Nat \ {0} : R = replay_size
    BY ReplayNat
  <2>3. PICK N \in Nat \ {0} : N = nr_threads
    BY StreamAssumption
  <2>4. /\ thr_id \in Nat /\ iter \in Nat /\ remaining \in Nat
        /\ remaining + (thr_id * R + iter) = N * R /\ iter < R
    BY <2>1, <2>2, <2>3 DEF LoadRight, StreamTypes
  <2>5. thr_id \in Threads
    <3> SUFFICES ASSUME thr_id >= N PROVE FALSE
      BY <2>3, <2>4 DEF Threads
    <3>1. PICK d \in Nat : thr_id = N + d
      BY <2>4
    <3>2. thr_id * R = N * R + d * R /\ d * R \in Nat /\ N * R \in Nat
      BY <3>1
    <3> QED
      BY <3>2, <2>1, <2>4
  <2>6. PICK m \in Int : m = replay_size * nr_threads - remaining
    BY <2>2, <2>3, <2>4
  <2>7. m = thr_id * R + iter
    <3>1. R * N = N * R /\ N * R \in Int /\ thr_id * R \in Int
      BY <2>4
    <3> QED
      BY <3>1, <2>2, <2>3, <2>4, <2>6
  <2>8. PICK a \in Seq(Int) : a = arrays[thr_id]
    BY <2>5 DEF StreamTypes
  <2>9. Append(a, m) \in Seq(Int)
    BY AppendProperties
  <2>10. StreamTypes'
    <3>1. arrays' \in [Threads -> Seq(Int)]
      BY <2>1, <2>6, <2>8, <2>9 DEF StreamTypes
    <3>2. remaining' \in Nat /\ iter' \in Nat /\ thr_id' \in Nat
      BY <2>1, <2>4
    <3> QED
      BY <1>0, <2>1, <3>1, <3>2 DEF StreamTypes
  <2>11. remaining' + (thr_id' * R + iter') = N * R /\ iter' < R
    <3>1. CASE R - iter = 1
      <4>1. (thr_id + 1) * R + 0 = thr_id * R + R /\ thr_id * R \in Int
        BY <2>4
      <4> QED
        BY <3>1, <4>1, <2>1, <2>2, <2>4
    <3>2. CASE R - iter # 1
      <4>1. thr_id * R \in Int /\ N * R \in Int
        BY <2>4
      <4> QED
        BY <3>2, <4>1, <2>1, <2>2, <2>4
    <3> QED
      BY <3>1, <3>2
  <2>12. a = share(thr_id, iter, 0)
    BY <2>1, <2>4, <2>5, <2>8 DEF LoadRight
  <2>13. Append(a, m) = share(thr_id, iter + 1, 0)
    <3>1. PICK b \in Seq(Int) : b = share(thr_id, iter + 1, 0)
      BY ShareSeq, <2>4, <2>5
    <3>2. Len(b) = iter + 1 /\ Len(a) = iter
      BY <3>1, <2>4, <2>5, <2>12, ShareSeq
    <3>3. PICK q \in Int : q = thr_id * R
      BY <2>4
    <3>4. \A i \in 1 .. iter + 1 : b[i] = q + 0 + i - 1
      BY <3>1, <3>3, <2>2 DEF share
    <3>5. \A i \in 1 .. iter : a[i] = q + 0 + i - 1
      BY <3>3, <2>2, <2>12 DEF share
    <3>6. m = q + iter
      BY <2>7, <3>3
    <3>7. \A i \in 1 .. iter + 1 : Append(a, m)[i] = b[i]
      BY <3>2, <3>4, <3>5, <3>6, <2>4
    <3>8. PICK c \in Seq(Int) : c = Append(a, m)
      BY <2>9
    <3>9. Len(c) = iter + 1
      BY <3>2, <3>8
    <3> QED
      BY <3>1, <3>2, <3>7, <3>8, <3>9, SeqEqual
  <2>14. ASSUME NEW t \in Threads
         PROVE  arrays'[t] = share(t, IF t < thr_id' THEN replay_size
                                      ELSE IF t = thr_id' THEN iter' ELSE 0, 0)
    <3>0. t \in Int
      BY StreamAssumption DEF Threads
    <3>1. CASE t = thr_id
      <4>1. arrays'[t] = share(t, iter + 1, 0)
        BY <3>1, <2>1, <2>5, <2>6, <2>8, <2>13 DEF StreamTypes
      <4> QED
        BY <4>1, <3>1, <2>1, <2>2, <2>4
    <3>2. CASE t # thr_id
      <4>1. arrays'[t] = share(t, IF t < thr_id THEN replay_size ELSE 0, 0)
        BY <3>2, <2>1, <2>5 DEF LoadRight, StreamTypes
      <4>2. t < thr_id => t < thr_id'
        BY <3>0, <2>1, <2>4
      <4>3. t > thr_id => ~(t < thr_id')
        BY <3>0, <2>1, <2>4
      <4>4. t = thr_id' => iter' = 0
        BY <3>2, <2>1
      <4> QED
        BY <4>1, <4>2, <4>3, <4>4, <3>0, <3>2, <2>4
    <3> QED
      BY <3>1, <3>2
  <2>15. LoadRight'
    <3>1. \A t \in Threads : epc[t] = "load"
      BY <1>0, <2>1, <2>4 DEF LoadRight
    <3> QED
      BY <1>0, <2>1, <2>2, <2>3, <2>11, <2>14, <3>1 DEF LoadRight
  <2>16. StartRight'
    BY <1>0, <2>1 DEF StartRight
  <2>17. NextRight'
    <3>1. \A t \in Threads : epc'[t] = "load"
      BY <1>0, <2>1, <2>4 DEF LoadRight
    <3> QED
      BY <3>1 DEF NextRight, Emitting
  <2> QED
    BY <1>1, <2>10, <2>15, <2>16, <2>17
<1>3. CASE loadAllStrTuples
  <2>1. /\ source = "str" /\ remaining > 0 /\ remaining' = 0
        /\ UNCHANGED <<epc, pills, iter, thr_id>>
        /\ arrays' = [t \in Threads |-> share(t, replay_size, tup_idx_offset)]
    BY <1>3 DEF loadAllStrTuples, emitVars, share
  <2>2. \A t \in Threads : share(t, replay_size, tup_idx_offset) \in Seq(Int)
    BY ShareSeq, ReplayNat, StreamAssumption
  <2>3. StreamTypes'
    BY <1>0, <2>1, <2>2 DEF StreamTypes
  <2>4. LoadRight'
    BY <1>0, <2>1 DEF LoadRight
  <2>5. StartRight'
    BY <1>0, <2>1 DEF StartRight
  <2>6. \A t \in Threads : epc'[t] = "load"
    BY <2>1 DEF LoadRight, StreamTypes
  <2>7. NextRight'
    BY <2>6 DEF NextRight, Emitting
  <2> QED
    BY <1>1, <2>3, <2>4, <2>5, <2>7
<1>4. CASE loadPoisonPills
  <2>1. /\ UNCHANGED <<epc, remaining, iter, thr_id, arrays>>
        /\ \A t \in Threads : epc[t] = "load"
        /\ pills' = [t \in Threads |-> Append(pills[t], Pill)]
    BY <1>4 DEF loadPoisonPills, emitVars
  <2>2. \A t \in Threads : Append(pills[t], Pill) \in Seq(Int)
    <3> SUFFICES ASSUME NEW t \in Threads PROVE Append(pills[t], Pill) \in Seq(Int)
      OBVIOUS
    <3>1. pills[t] \in Seq(Int) /\ Pill \in Int
      BY DEF StreamTypes, Pill
    <3> QED
      BY <3>1, AppendProperties
  <2>3. StreamTypes'
    BY <1>0, <2>1, <2>2 DEF StreamTypes
  <2>4. LoadRight' /\ StartRight'
    BY <1>0, <2>1 DEF LoadRight, StartRight
  <2>5. NextRight'
    BY <2>1 DEF NextRight, Emitting
  <2> QED
    BY <1>1, <2>3, <2>4, <2>5
<1>5. CASE runDGSender
  <2>1. /\ UNCHANGED <<remaining, iter, thr_id, arrays, pills>> /\ remaining = 0
        /\ \A t \in Threads : epc[t] = "load"
        /\ epc' = [t \in Threads |-> "init"]
    BY <1>5 DEF runDGSender, loadVars
  <2>2. StreamTypes'
    BY <1>0, <2>1 DEF StreamTypes, EmitPlaces
  <2>3. LoadRight'
    BY <1>0, <2>1 DEF LoadRight
  <2>4. StartRight' /\ NextRight'
    BY <1>0, <2>1 DEF StartRight, NextRight, Emitting
  <2> QED
    BY <1>1, <2>2, <2>3, <2>4
<1> QED
  BY <1>2, <1>3, <1>4, <1>5 DEF Load

-----------------------------------------------------------------------------
\* Steps of an emitting thread other than the emission itself move the thread and leave
\* the tuples alone.
LEMMA PlaceStep ==
  ASSUME StreamInv, StreamTypes', StartRight', NextRight',
         UNCHANGED <<source, remaining, iter, thr_id, arrays, queue, got, emitted, cpc, str>>,
         source # "self" => \A u \in Threads : epc[u] = "load" \/ epc'[u] # "load",
         source # "self" =>
           \A u \in Threads : epc'[u] # "load" => epc[u] # "load" \/ remaining = 0,
         InOrderOnce'
  PROVE  StreamInv'
BY DEF StreamInv, LoadRight

\* A loaded vector is not empty.
LEMMA LoadedLen ==
  ASSUME StreamInv, source # "self", NEW t \in Threads, epc[t] # "load"
  PROVE  Len(arrays[t]) \in Nat \ {0}
<1>1. remaining = 0
  BY DEF StreamInv, LoadRight
<1>2. arrays[t] = share(t, replay_size, IF source = "str" THEN tup_idx_offset ELSE 0)
  BY <1>1, AllLoaded DEF StreamInv
<1>3. PICK n \in Nat : n = IF source = "str" THEN tup_idx_offset ELSE 0
  BY StreamAssumption
<1>4. Len(share(t, replay_size, n)) = replay_size
  BY ShareSeq, ReplayNat
<1> QED
  BY <1>2, <1>3, <1>4, ReplayNat

\* The first message goes into an empty socket, before any tuple.
LEMMA SendInitInv == ASSUME StreamInv, NEW t \in Threads, SendInit(t) PROVE StreamInv'
<1> USE DEF StreamInv
<1>1. /\ UNCHANGED <<source, remaining, iter, thr_id, arrays, pills, sending, next, cpc, str,
                     queue, q_idx, emitted, got>>
      /\ epc[t] = "init" /\ cpc[t] # "connect"
      /\ sock' = [sock EXCEPT ![t] = Append(sock[t], init)]
      /\ passed' = [passed EXCEPT ![t] = 1] /\ epc' = [epc EXCEPT ![t] = "barrier"]
  BY DEF SendInit, settings, loadVars, clientVars
<1>2. source # "self" /\ passed[t] = 0 /\ cpc[t] = "init" /\ sock[t] = <<>>
  BY <1>1 DEF StartRight
<1>3. sock'[t] = <<init>> /\ sock'[t] # <<>> /\ Tail(sock'[t]) = <<>>
  BY <1>1, <1>2 DEF StreamTypes
<1>4. <<init>> \in Seq(Int)
  BY SingleSeq DEF init
<1>5. StreamTypes'
  <2>1. sock' \in [Threads -> Seq(Int)]
    BY <1>1, <1>2, <1>4 DEF StreamTypes
  <2>2. passed' \in [Threads -> 0 .. 2]
    BY <1>1 DEF StreamTypes
  <2>3. epc' \in [Threads -> EmitPlaces]
    BY <1>1 DEF StreamTypes, EmitPlaces
  <2> QED
    BY <1>1, <2>1, <2>2, <2>3 DEF StreamTypes
<1>6. StartRight'
  <2>1. /\ passed'[t] = 1 /\ epc'[t] = "barrier"
        /\ \A u \in Threads \ {t} : /\ passed'[u] = passed[u] /\ epc'[u] = epc[u]
                                    /\ sock'[u] = sock[u]
    BY <1>1 DEF StreamTypes
  <2>2. \A u \in Threads : /\ epc[u] \notin Emitting \cup {"pills", "done"}
                           /\ emitted[u] = <<>>
    BY <1>2 DEF StartRight
  <2> QED
    BY <1>1, <1>2, <1>3, <2>1, <2>2 DEF StartRight, Emitting
<1>7. NextRight'
  BY <1>1 DEF NextRight, Emitting, StreamTypes, vec
<1>8. InOrderOnce'
  <2>1. \A u \in Threads : onTheWay(u)' = onTheWay(u) /\ inHand(u)' = inHand(u)
    BY <1>1, <1>2, <1>3 DEF onTheWay, inHand, StreamTypes
  <2> QED
    BY <1>1, <2>1 DEF InOrderOnce
<1> QED
  BY <1>1, <1>5, <1>6, <1>7, <1>8, PlaceStep DEF StreamTypes

\* The barriers, the checks and the polling loops.
LEMMA ThreadInv ==
  ASSUME StreamInv, NEW t \in Threads,
         PassFirst(t) \/ CheckBudget(t) \/ PassSecond(t) \/ Pace(t) \/ BudgetSent(t)
         \/ Resync(t) \/ StartPills(t)
  PROVE  StreamInv'
<1> USE DEF StreamInv
<1>1. UNCHANGED <<source, remaining, iter, thr_id, arrays, pills, sock, cpc, str, queue,
                  q_idx, emitted, got>>
  BY DEF PassFirst, CheckBudget, PassSecond, Pace, BudgetSent, Resync, StartPills, settings,
         loadVars, clientVars
<1>2. InOrderOnce'
  BY <1>1 DEF InOrderOnce, onTheWay, inHand
<1>3. CASE PassFirst(t)
  <2>1. /\ epc[t] = "barrier" /\ passed[t] = 1 /\ UNCHANGED <<passed, sending, next>>
        /\ epc' = [epc EXCEPT ![t] = "check"]
    BY <1>3 DEF PassFirst
  <2>2. StreamTypes'
    BY <1>1, <2>1 DEF StreamTypes, EmitPlaces
  <2>3. StartRight' /\ NextRight'
    BY <1>1, <2>1 DEF StartRight, NextRight, vec, StreamTypes, Emitting
  <2> QED
    BY <1>1, <1>2, <2>1, <2>2, <2>3, PlaceStep DEF StreamTypes
<1>4. CASE CheckBudget(t)
  <2>0. epc[t] = "check" /\ UNCHANGED sending
    BY <1>4 DEF CheckBudget
  <2>1. CASE epc' = [u \in Threads |-> "exit"] /\ UNCHANGED <<passed, next>>
    <3>1. StreamTypes'
      BY <1>1, <2>0, <2>1 DEF StreamTypes, EmitPlaces
    <3>2. StartRight' /\ NextRight'
      BY <1>1, <2>0, <2>1 DEF StartRight, NextRight, StreamTypes, Emitting
    <3>3. source # "self" => remaining = 0
      BY <2>0 DEF LoadRight
    <3> QED
      BY <1>1, <1>2, <2>1, <3>1, <3>2, <3>3, PlaceStep DEF StreamTypes
  <2>2. CASE /\ source = "self" /\ epc' = [epc EXCEPT ![t] = "emit"]
             /\ next' = [next EXCEPT ![t] = 1] /\ UNCHANGED passed
    <3>1. StreamTypes'
      BY <1>1, <2>0, <2>2 DEF StreamTypes, EmitPlaces, Emitting
    <3>2. StartRight' /\ NextRight'
      BY <1>1, <2>0, <2>2 DEF StartRight, NextRight, StreamTypes
    <3> QED
      BY <1>1, <1>2, <2>2, <3>1, <3>2, PlaceStep DEF StreamTypes
  <2>3. CASE /\ source # "self" /\ epc' = [epc EXCEPT ![t] = "barrier"]
             /\ passed' = [passed EXCEPT ![t] = 2] /\ UNCHANGED next
    <3>1. StreamTypes'
      <4>1. passed' \in [Threads -> 0 .. 2]
        BY <2>3 DEF StreamTypes
      <4>2. epc' \in [Threads -> EmitPlaces]
        BY <2>3 DEF StreamTypes, EmitPlaces
      <4> QED
        BY <1>1, <2>0, <2>3, <4>1, <4>2 DEF StreamTypes
    <3>2. /\ passed'[t] = 2 /\ epc'[t] = "barrier"
          /\ \A u \in Threads \ {t} : passed'[u] = passed[u] /\ epc'[u] = epc[u]
      BY <2>3 DEF StreamTypes
    <3>3. StartRight'
      BY <1>1, <2>0, <2>3, <3>2 DEF StartRight, Emitting
    <3>4. NextRight'
      BY <1>1, <2>0, <2>3, <3>2 DEF NextRight, vec, Emitting
    <3> QED
      BY <1>1, <1>2, <2>0, <2>3, <3>1, <3>2, <3>3, <3>4, PlaceStep
  <2> QED
    BY <1>4, <2>1, <2>2, <2>3 DEF CheckBudget, Start
<1>5. CASE PassSecond(t)
  <2>1. /\ epc[t] = "barrier" /\ \A u \in Threads : passed[u] >= 2
        /\ UNCHANGED <<passed, sending>>
        /\ epc' = [epc EXCEPT ![t] = "emit"] /\ next' = [next EXCEPT ![t] = 1]
    BY <1>5 DEF PassSecond, Start, barrierOpen
  <2>2. \A u \in Threads : passed[u] = 2
    <3>1. \A u \in Threads : passed[u] \in 0 .. 2
      BY DEF StreamTypes
    <3> QED
      BY <2>1, <3>1
  <2>3. StreamTypes'
    BY <1>1, <2>1 DEF StreamTypes, EmitPlaces, Emitting
  <2>4. source # "self"
    BY <2>1 DEF StartRight
  <2>5. StartRight'
    BY <1>1, <2>1, <2>2, <2>4 DEF StartRight, StreamTypes
  <2>6. NextRight'
    <3>1. Len(arrays[t]) \in Nat \ {0} /\ sending[t] = "tuples"
      BY <2>1, <2>4, LoadedLen DEF StartRight
    <3>2. 1 \in 1 .. Len(arrays[t])
      BY <3>1
    <3>3. next'[t] = 1 /\ vec(t)' = arrays[t]
      BY <1>1, <2>1, <3>1 DEF vec, StreamTypes
    <3>4. \A u \in Threads \ {t} : next'[u] = next[u] /\ epc'[u] = epc[u] /\ vec(u)' = vec(u)
      BY <1>1, <2>1 DEF vec, StreamTypes
    <3> QED
      BY <1>1, <3>2, <3>3, <3>4 DEF NextRight
  <2> QED
    BY <1>1, <1>2, <2>1, <2>3, <2>5, <2>6, PlaceStep DEF StreamTypes
<1>6. CASE Pace(t) \/ BudgetSent(t) \/ Resync(t)
  <2>1. /\ epc[t] \in Emitting /\ UNCHANGED <<passed, sending, next>>
        /\ \E l \in Emitting \cup {"pills", "done"} : epc' = [epc EXCEPT ![t] = l]
    BY <1>6 DEF Pace, BudgetSent, Resync, Emitting
  <2>2. PICK l \in Emitting \cup {"pills", "done"} : epc' = [epc EXCEPT ![t] = l]
    BY <2>1
  <2>3. StreamTypes'
    BY <1>1, <2>1, <2>2 DEF StreamTypes, EmitPlaces
  <2>4. StartRight' /\ NextRight'
    BY <1>1, <2>1, <2>2 DEF StartRight, NextRight, vec, StreamTypes, Emitting
  <2> QED
    BY <1>1, <1>2, <2>1, <2>2, <2>3, <2>4, PlaceStep DEF StreamTypes, Emitting
<1>7. CASE StartPills(t)
  <2>0. epc[t] = "pills" /\ UNCHANGED passed
    BY <1>7 DEF StartPills
  <2>1. CASE epc' = [u \in Threads |-> "exit"] /\ UNCHANGED <<sending, next>>
    <3>1. StreamTypes'
      BY <1>1, <2>0, <2>1 DEF StreamTypes, EmitPlaces
    <3>2. StartRight' /\ NextRight'
      BY <1>1, <2>0, <2>1 DEF StartRight, NextRight, StreamTypes, Emitting
    <3>3. source # "self" => remaining = 0
      BY <2>0 DEF LoadRight
    <3> QED
      BY <1>1, <1>2, <2>1, <3>1, <3>2, <3>3, PlaceStep DEF StreamTypes
  <2>2. CASE /\ epc' = [epc EXCEPT ![t] = "emit"] /\ pills[t] # <<>>
             /\ sending' = [sending EXCEPT ![t] = "pills"]
             /\ next' = [next EXCEPT ![t] = 1]
    <3>1. StreamTypes'
      BY <1>1, <2>0, <2>2 DEF StreamTypes, EmitPlaces, Emitting
    <3>2. StartRight'
      BY <1>1, <2>0, <2>2 DEF StartRight, StreamTypes, Emitting
    <3>3. NextRight'
      <4>1. Len(pills[t]) \in Nat \ {0}
        BY <2>2, EmptySeq DEF StreamTypes
      <4>2. 1 \in 1 .. Len(pills[t])
        BY <4>1
      <4>3. next'[t] = 1 /\ vec(t)' = pills[t]
        BY <1>1, <2>2 DEF vec, StreamTypes
      <4>4. \A u \in Threads \ {t} : next'[u] = next[u] /\ epc'[u] = epc[u] /\ vec(u)' = vec(u)
        BY <1>1, <2>2 DEF vec, StreamTypes
      <4> QED
        BY <1>1, <4>2, <4>3, <4>4 DEF NextRight
    <3> QED
      BY <1>1, <1>2, <2>0, <2>2, <3>1, <3>2, <3>3, PlaceStep DEF StreamTypes
  <2> QED
    BY <1>7, <2>1, <2>2 DEF StartPills, Start
<1> QED
  BY <1>3, <1>4, <1>5, <1>6, <1>7

-----------------------------------------------------------------------------
\* An emission: into the socket behind everything else, or into the queue.
LEMMA EmitInv == ASSUME StreamInv, NEW t \in Threads, Emit(t) PROVE StreamInv'
<1> USE DEF StreamInv
<1>1. /\ UNCHANGED <<source, remaining, iter, thr_id, arrays, pills, passed, sending, cpc,
                     str, q_idx, got>>
      /\ epc[t] = "emit" /\ epc' = [epc EXCEPT ![t] = "pace"]
  BY DEF Emit, settings, loadVars, clientVars
<1>2. PICK e \in Seq(Int), g \in Seq(Int), q \in Seq(Int), s \in Seq(Int) :
        e = emitted[t] /\ g = got[t] /\ q = queue[t] /\ s = sock[t]
  BY DEF StreamTypes
<1>3. epc' \in [Threads -> EmitPlaces]
  BY <1>1 DEF StreamTypes, EmitPlaces, Emitting
<1>4. /\ epc'[t] = "pace" /\ \A u \in Threads \ {t} : epc'[u] = epc[u]
  BY <1>1 DEF StreamTypes
<1>5. LoadRight'
  BY <1>1, <1>4 DEF LoadRight
<1>6. CASE source = "self"
  <2>1. PICK x \in Int : x = Len(emitted[t])
    BY <1>2
  <2>2. /\ queue' = [queue EXCEPT ![t] = Append(q, x)] /\ UNCHANGED <<sock, next>>
        /\ emitted' = [emitted EXCEPT ![t] = Append(e, x)]
    BY <1>2, <1>6, <2>1 DEF Emit
  <2>3. Append(q, x) \in Seq(Int) /\ Append(e, x) \in Seq(Int)
    BY AppendProperties
  <2>4. StreamTypes'
    BY <1>1, <1>3, <2>2, <2>3 DEF StreamTypes
  <2>5. StartRight' /\ NextRight'
    BY <1>1, <1>4, <1>6, <2>2 DEF StartRight, NextRight
  <2>6. InOrderOnce'
    <3>1. \A u \in Threads : inHand(u)' = inHand(u) /\ onTheWay(u)' = onTheWay(u)
      BY <1>1, <2>2 DEF inHand, onTheWay
    <3>2. inHand(t) = <<>> /\ onTheWay(t) = <<>>
      BY <1>6 DEF StartRight, inHand, onTheWay
    <3>3. Ordered(e, g, q, <<>>, <<>>)
      BY <1>2, <3>2, InOrderIs
    <3>4. Ordered(Append(e, x), g, Append(q, x), <<>>, <<>>)
      BY <3>3, OrderedFeed
    <3>5. ASSUME NEW u \in Threads
          PROVE  emitted'[u] = ((got'[u] \o queue'[u]) \o inHand(u)') \o onTheWay(u)'
      <4>1. CASE u = t
        BY <4>1, <1>1, <1>2, <2>2, <3>1, <3>2, <3>4 DEF Ordered, StreamTypes
      <4>2. CASE u # t
        BY <4>2, <1>1, <2>2, <3>1 DEF InOrderOnce, StreamTypes
      <4> QED
        BY <4>1, <4>2
    <3> QED
      BY <3>5 DEF InOrderOnce
  <2> QED
    BY <1>5, <2>4, <2>5, <2>6
<1>7. CASE source # "self"
  <2>1. next[t] \in 1 .. Len(vec(t)) /\ vec(t) \in Seq(Int)
    BY <1>1, <1>7 DEF NextRight, Emitting, vec, StreamTypes
  <2>2. PICK x \in Int : x = vec(t)[next[t]]
    BY <2>1, ElementOfSeq
  <2>3. /\ sock' = [sock EXCEPT ![t] = Append(s, x)] /\ UNCHANGED queue
        /\ emitted' = [emitted EXCEPT ![t] = Append(e, x)]
        /\ next' = [next EXCEPT ![t] = IF next[t] = Len(vec(t)) THEN 1 ELSE next[t] + 1]
    BY <1>2, <1>7, <2>2 DEF Emit
  <2>4. Append(s, x) \in Seq(Int) /\ Append(e, x) \in Seq(Int) /\ Append(s, x) # <<>>
    BY AppendProperties, AppendNotEmpty
  <2>5. PICK n \in 1 .. Len(vec(t)) : n = IF next[t] = Len(vec(t)) THEN 1 ELSE next[t] + 1
    <3>1. PICK k \in Nat : k = Len(vec(t))
      BY <2>1, LenProperties
    <3>2. PICK j \in 1 .. k : j = next[t]
      BY <2>1, <3>1
    <3>3. (IF j = k THEN 1 ELSE j + 1) \in 1 .. k
      BY <3>2
    <3> QED
      BY <3>1, <3>2, <3>3
  <2>6. StreamTypes'
    <3>1. next' \in [Threads -> Nat]
      <4>1. n \in Nat
        BY <2>1, <2>5, LenProperties
      <4> QED
        BY <2>3, <2>5, <4>1 DEF StreamTypes
    <3> QED
      BY <1>1, <1>3, <2>3, <2>4, <3>1 DEF StreamTypes
  <2>7. \A u \in Threads : passed[u] = 2
    BY <1>1, <1>7 DEF StartRight, Emitting
  <2>8. /\ sock'[t] # <<>>
        /\ \A u \in Threads \ {t} : sock'[u] = sock[u] /\ emitted'[u] = emitted[u]
    BY <2>3, <2>4 DEF StreamTypes
  <2>12. \A u \in Threads : passed[u] # 0
    BY <2>7
  <2>9. StartRight'
    BY <1>1, <1>4, <1>7, <2>7, <2>8, <2>12 DEF StartRight, Emitting
  <2>10. NextRight'
    <3>1. \A u \in Threads : vec(u)' = vec(u)
      BY <1>1 DEF vec
    <3>2. next'[t] = n /\ \A u \in Threads \ {t} : next'[u] = next[u]
      BY <2>3, <2>5 DEF StreamTypes
    <3> QED
      BY <1>1, <1>4, <1>7, <2>5, <3>1, <3>2 DEF NextRight
  <2>11. InOrderOnce'
    <3>1. \A u \in Threads : inHand(u)' = inHand(u)
      BY <1>1 DEF inHand
    <3>2. PICK h \in Seq(Int) : h = inHand(t)
      <4>1. <<str[t]>> \in Seq(Int)
        BY SingleSeq DEF StreamTypes
      <4> QED
        BY <4>1, EmptySeq DEF inHand
    <3>3. PICK w \in Seq(Int) : w = onTheWay(t)
      BY <1>2, HeadTailProperties DEF onTheWay
    <3>4. onTheWay(t)' = Append(w, x)
      <4>1. sock'[t] = Append(s, x) /\ cpc'[t] = cpc[t]
        BY <1>1, <2>3 DEF StreamTypes
      <4>2. CASE cpc[t] = "init"
        <5>1. s # <<>>
          BY <1>2, <1>7, <2>12, <4>2 DEF StartRight
        <5>2. Tail(Append(s, x)) = Append(Tail(s), x)
          BY <5>1, TailAppend
        <5> QED
          BY <1>2, <2>4, <3>3, <4>1, <4>2, <5>1, <5>2 DEF onTheWay
      <4>3. CASE cpc[t] # "init"
        BY <1>2, <3>3, <4>1, <4>3 DEF onTheWay
      <4> QED
        BY <4>2, <4>3
    <3>5. \A u \in Threads \ {t} : onTheWay(u)' = onTheWay(u)
      BY <1>1, <2>8 DEF onTheWay
    <3>6. Ordered(e, g, q, h, w)
      BY <1>2, <3>2, <3>3, InOrderIs
    <3>7. Ordered(Append(e, x), g, q, h, Append(w, x))
      BY <3>6, OrderedSend
    <3>8. ASSUME NEW u \in Threads
          PROVE  emitted'[u] = ((got'[u] \o queue'[u]) \o inHand(u)') \o onTheWay(u)'
      <4>1. CASE u = t
        BY <4>1, <1>1, <1>2, <2>3, <3>1, <3>2, <3>4, <3>7 DEF Ordered, StreamTypes
      <4>2. CASE u # t
        <5>1. /\ emitted'[u] = emitted[u] /\ got'[u] = got[u] /\ queue'[u] = queue[u]
              /\ inHand(u)' = inHand(u) /\ onTheWay(u)' = onTheWay(u)
          BY <4>2, <1>1, <2>3, <2>8, <3>1, <3>5
        <5>2. emitted[u] = ((got[u] \o queue[u]) \o inHand(u)) \o onTheWay(u)
          BY DEF InOrderOnce
        <5> QED
          BY <5>1, <5>2
      <4> QED
        BY <4>1, <4>2
    <3> QED
      BY <3>8 DEF InOrderOnce
  <2> QED
    BY <1>5, <2>6, <2>9, <2>10, <2>11
<1> QED
  BY <1>6, <1>7

\* The client threads.
LEMMA ClientInv == ASSUME StreamInv, NEW t \in Threads, ClientThread(t) PROVE StreamInv'
<1> USE DEF StreamInv
<1>1. /\ UNCHANGED <<source, remaining, iter, thr_id, arrays, pills, epc, passed, sending,
                     next, q_idx, emitted, got>>
  BY DEF ClientThread, Connect, RecvInit, RecvTuple, Push, settings, loadVars, emitVars
<1>2. LoadRight' /\ NextRight'
  BY <1>1 DEF LoadRight, NextRight, vec
<1>3. PICK e \in Seq(Int), g \in Seq(Int), q \in Seq(Int), s \in Seq(Int), x \in Int :
        e = emitted[t] /\ g = got[t] /\ q = queue[t] /\ s = sock[t] /\ x = str[t]
  BY DEF StreamTypes
<1>4. Ordered(e, g, q, inHand(t), onTheWay(t))
  BY <1>3, InOrderIs
<1>5. ASSUME Ordered(e, g, queue'[t], inHand(t)', onTheWay(t)'),
             \A u \in Threads \ {t} : /\ queue'[u] = queue[u] /\ sock'[u] = sock[u]
                                      /\ cpc'[u] = cpc[u] /\ str'[u] = str[u]
      PROVE  InOrderOnce'
  <2>1. ASSUME NEW u \in Threads
        PROVE  emitted'[u] = ((got'[u] \o queue'[u]) \o inHand(u)') \o onTheWay(u)'
    <3>1. CASE u = t
      BY <3>1, <1>1, <1>3, <1>5 DEF Ordered
    <3>2. CASE u # t
      BY <3>2, <1>1, <1>5 DEF InOrderOnce, inHand, onTheWay
    <3> QED
      BY <3>1, <3>2
  <2> QED
    BY <2>1 DEF InOrderOnce
<1>6. CASE Connect(t)
  <2>1. /\ cpc[t] = "connect" /\ cpc' = [cpc EXCEPT ![t] = "init"]
        /\ UNCHANGED <<sock, str, queue>>
    BY <1>6 DEF Connect
  <2>2. cpc'[t] = "init" /\ \A u \in Threads \ {t} : cpc'[u] = cpc[u]
    BY <2>1 DEF StreamTypes
  <2>3. source # "self" /\ passed[t] = 0 /\ s = <<>>
    BY <1>3, <2>1 DEF StartRight
  <2>4. StreamTypes'
    BY <1>1, <2>1 DEF StreamTypes
  <2>5. StartRight'
    BY <1>1, <2>1, <2>2, <2>3 DEF StartRight
  <2>6. InOrderOnce'
    BY <1>3, <1>4, <1>5, <2>1, <2>2, <2>3 DEF inHand, onTheWay
  <2> QED
    BY <1>2, <2>4, <2>5, <2>6
<1>7. CASE RecvInit(t)
  <2>1. /\ cpc[t] = "init" /\ s # <<>> /\ sock' = [sock EXCEPT ![t] = Tail(s)]
        /\ cpc' = [cpc EXCEPT ![t] = "recv"] /\ UNCHANGED <<str, queue>>
    BY <1>3, <1>7 DEF RecvInit, dropInit
  <2>2. Tail(s) \in Seq(Int)
    BY <2>1, HeadTailProperties
  <2>3. /\ cpc'[t] = "recv" /\ sock'[t] = Tail(s)
        /\ \A u \in Threads \ {t} : cpc'[u] = cpc[u] /\ sock'[u] = sock[u]
    BY <2>1 DEF StreamTypes
  <2>4. source # "self" /\ passed[t] # 0
    BY <1>3, <2>1 DEF StartRight
  <2>5. StreamTypes'
    BY <1>1, <2>1, <2>2 DEF StreamTypes
  <2>6. StartRight'
    BY <1>1, <2>3, <2>4 DEF StartRight
  <2>7. InOrderOnce'
    BY <1>3, <1>4, <1>5, <2>1, <2>3 DEF inHand, onTheWay
  <2> QED
    BY <1>2, <2>5, <2>6, <2>7
<1>8. CASE RecvTuple(t)
  <2>1. /\ cpc[t] = "recv" /\ s # <<>> /\ sock' = [sock EXCEPT ![t] = Tail(s)]
        /\ str' = [str EXCEPT ![t] = Head(s)] /\ cpc' = [cpc EXCEPT ![t] = "push"]
        /\ UNCHANGED queue
    BY <1>3, <1>8 DEF RecvTuple
  <2>2. Tail(s) \in Seq(Int) /\ Head(s) \in Int
    BY <2>1, HeadTailProperties
  <2>3. /\ cpc'[t] = "push" /\ sock'[t] = Tail(s) /\ str'[t] = Head(s)
        /\ \A u \in Threads \ {t} : /\ cpc'[u] = cpc[u] /\ sock'[u] = sock[u]
                                    /\ str'[u] = str[u]
    BY <2>1 DEF StreamTypes
  <2>4. source # "self" /\ passed[t] # 0
    BY <1>3, <2>1 DEF StartRight
  <2>5. StreamTypes'
    BY <1>1, <2>1, <2>2 DEF StreamTypes
  <2>6. StartRight'
    BY <1>1, <2>3, <2>4 DEF StartRight
  <2>7. Ordered(e, g, q, <<>>, s)
    BY <1>3, <1>4, <2>1 DEF inHand, onTheWay
  <2>8. Ordered(e, g, q, <<Head(s)>>, Tail(s))
    BY <2>1, <2>7, OrderedRecv
  <2>9. InOrderOnce'
    BY <1>3, <1>5, <2>1, <2>3, <2>8 DEF inHand, onTheWay
  <2> QED
    BY <1>2, <2>5, <2>6, <2>9
<1>9. CASE Push(t)
  <2>1. /\ cpc[t] = "push" /\ queue' = [queue EXCEPT ![t] = Append(q, x)]
        /\ str' = [str EXCEPT ![t] = 0] /\ cpc' = [cpc EXCEPT ![t] = "recv"]
        /\ UNCHANGED sock
    BY <1>3, <1>9 DEF Push
  <2>2. Append(q, x) \in Seq(Int)
    BY AppendProperties
  <2>3. /\ cpc'[t] = "recv" /\ queue'[t] = Append(q, x)
        /\ \A u \in Threads \ {t} : /\ cpc'[u] = cpc[u] /\ queue'[u] = queue[u]
                                    /\ str'[u] = str[u]
    BY <2>1 DEF StreamTypes
  <2>4. source # "self" /\ passed[t] # 0
    BY <1>3, <2>1 DEF StartRight
  <2>5. StreamTypes'
    <3>1. str' \in [Threads -> Int]
      BY <2>1 DEF StreamTypes
    <3>3. queue' \in [Threads -> Seq(Int)]
      BY <2>1, <2>2 DEF StreamTypes
    <3>2. cpc' \in [Threads -> {"none", "connect", "init", "recv", "push"}]
      BY <2>1 DEF StreamTypes
    <3> QED
      BY <1>1, <2>1, <3>1, <3>2, <3>3 DEF StreamTypes
  <2>6. StartRight'
    BY <1>1, <2>1, <2>3, <2>4 DEF StartRight
  <2>7. Ordered(e, g, q, <<x>>, s)
    BY <1>3, <1>4, <2>1 DEF inHand, onTheWay
  <2>8. Ordered(e, g, Append(q, x), <<>>, s)
    BY <2>7, OrderedPush
  <2>9. InOrderOnce'
    BY <1>3, <1>5, <2>1, <2>3, <2>8 DEF inHand, onTheWay
  <2> QED
    BY <1>2, <2>5, <2>6, <2>9
<1> QED
  BY <1>6, <1>7, <1>8, <1>9 DEF ClientThread

\* recvStr takes the first tuple of the queue at its index.
LEMMA RecvStrInv == ASSUME StreamInv, mt_recvStr PROVE StreamInv'
<1> USE DEF StreamInv
<1>1. /\ UNCHANGED <<source, remaining, iter, thr_id, arrays, pills, epc, passed, sending,
                     next, sock, cpc, str, emitted>>
      /\ q_idx' = next_q(q_idx)
  BY DEF mt_recvStr, settings, loadVars, emitVars, clientVars
<1>2. LoadRight' /\ NextRight' /\ StartRight'
  BY <1>1 DEF LoadRight, NextRight, StartRight, vec
<1>3. next_q(q_idx) \in Threads
  <2>1. PICK i \in 0 .. nr_threads - 1 : i = q_idx
    BY DEF StreamTypes, Threads
  <2>2. CASE nr_threads = 1
    BY <2>1, <2>2 DEF next_q, Threads
  <2>3. CASE nr_threads = 2
    <3>1. 1 - i \in 0 .. nr_threads - 1
      BY <2>1, <2>3
    <3> QED
      BY <2>1, <2>3, <3>1 DEF next_q, Threads
  <2>4. CASE nr_threads # 1 /\ nr_threads # 2
    <3>1. (IF i + 1 = nr_threads THEN 0 ELSE i + 1) \in 0 .. nr_threads - 1
      BY <2>1, StreamAssumption
    <3> QED
      BY <2>1, <2>4, <3>1 DEF next_q, Threads
  <2> QED
    BY <2>2, <2>3, <2>4
<1>4. \A u \in Threads : inHand(u)' = inHand(u) /\ onTheWay(u)' = onTheWay(u)
  BY <1>1 DEF inHand, onTheWay
<1>5. CASE queue[q_idx] = <<>>
  <2>1. UNCHANGED <<queue, got>>
    BY <1>5 DEF mt_recvStr
  <2>2. StreamTypes' /\ InOrderOnce'
    BY <1>1, <1>3, <1>4, <2>1 DEF StreamTypes, InOrderOnce
  <2> QED
    BY <1>2, <2>2
<1>6. CASE queue[q_idx] # <<>>
  <2>1. PICK t \in Threads : t = q_idx
    BY DEF StreamTypes
  <2>2. PICK g \in Seq(Int), q \in Seq(Int) : g = got[t] /\ q = queue[t]
    BY DEF StreamTypes
  <2>3. /\ got' = [got EXCEPT ![t] = Append(g, Head(q))]
        /\ queue' = [queue EXCEPT ![t] = Tail(q)] /\ q # <<>>
    BY <1>6, <2>1, <2>2 DEF mt_recvStr
  <2>4. Append(g, Head(q)) \in Seq(Int) /\ Tail(q) \in Seq(Int)
    BY <2>3, HeadTailProperties, AppendProperties
  <2>5. StreamTypes'
    BY <1>1, <1>3, <2>3, <2>4 DEF StreamTypes
  <2>6. Ordered(emitted[t], g, q, inHand(t), onTheWay(t))
    BY <2>2, InOrderIs
  <2>7. Ordered(emitted[t], Append(g, Head(q)), Tail(q), inHand(t), onTheWay(t))
    BY <2>3, <2>6, OrderedGot
  <2>8. ASSUME NEW u \in Threads
        PROVE  emitted'[u] = ((got'[u] \o queue'[u]) \o inHand(u)') \o onTheWay(u)'
    <3>1. CASE u = t
      BY <3>1, <1>1, <1>4, <2>3, <2>7 DEF Ordered, StreamTypes
    <3>2. CASE u # t
      BY <3>2, <1>1, <1>4, <2>3 DEF InOrderOnce, StreamTypes
    <3> QED
      BY <3>1, <3>2
  <2> QED
    BY <1>2, <2>5, <2>8 DEF InOrderOnce
<1> QED
  BY <1>5, <1>6

\* Every step keeps the streams in order.
LEMMA StreamNextInv == StreamInv /\ [StreamNext]_streamVars => StreamInv'
<1> SUFFICES ASSUME StreamInv, [StreamNext]_streamVars PROVE StreamInv'
  OBVIOUS
<1>1. CASE UNCHANGED streamVars \/ Tick
  <2>1. UNCHANGED <<source, loadVars, emitVars, sock, clientVars, queue, q_idx, emitted, got>>
    BY <1>1 DEF streamVars, settings, Tick
  <2> QED
    BY <2>1 DEF loadVars, emitVars, clientVars, StreamInv, StreamTypes, LoadRight,
                StartRight, NextRight, InOrderOnce, vec, inHand, onTheWay
<1>2. CASE Load
  BY <1>2, LoadInv
<1>3. CASE mt_recvStr
  BY <1>3, RecvStrInv
<1>4. ASSUME NEW t \in Threads, EmitThread(t) \/ ClientThread(t) PROVE StreamInv'
  BY <1>4, SendInitInv, ThreadInv, EmitInv, ClientInv DEF EmitThread
<1> QED
  BY <1>1, <1>2, <1>3, <1>4 DEF StreamNext

\* So the invariant holds at all times.
LEMMA StreamAlways == StreamSpec => []StreamInv
BY StreamInitInv, StreamNextInv, PTL DEF StreamSpec

\* Every thread gets its share of the tuples, and recvStr returns what a thread sent, in
\* its order, each tuple once, whatever the sockets, the queues and the index of recvStr
\* do in between (emit.cpp, loadOneTuple to mt_recvStr).
THEOREM StreamKept == StreamSpec => []StreamIntact
<1>1. StreamInv => StreamIntact
  <2> SUFFICES ASSUME StreamInv PROVE LoadedEvenly
    BY DEF StreamIntact, StreamInv
  <2>1. CASE source # "self" /\ remaining = 0
    BY <2>1, AllLoaded DEF StreamInv, LoadedEvenly, share
  <2> QED
    BY <2>1 DEF LoadedEvenly
<1> QED
  BY <1>1, StreamAlways, PTL

\* No thread sends a tuple before every client has connected and every thread has
\* passed both barriers (emit.cpp, mt_emitScheduler).
THEOREM ThreadsStartTogether == StreamSpec => []StartTogether
<1>1. StreamInv => StartTogether
  BY DEF StreamInv, StartRight, StartTogether
<1> QED
  BY <1>1, StreamAlways, PTL

-----------------------------------------------------------------------------
(* TupleStream: the rate.  How many budgets a thread has sent shows in the  *)
(* end of the current one, which is counted from the start and not from the *)
(* last emission.                                                           *)

\* Seconds and milliseconds are whole multiples, as in globals.h, and a budget is a part
\* of the tuples of a second; up to a thousand tuples a second it is all of them.
Rates ==
  /\ NANO_S_PER_S = MILLI_S_PER_S * TIME_BUDGET
  /\ per_sec_throughput > MILLI_S_PER_S

\* A thread that has sent k budgets, and a part of the next unless it waits for it.
Budgeted(t, k) ==
  /\ budgetEnd[t] = (TS_END[t] - emit_dur * NANO_S_PER_S) + k * TIME_BUDGET
  /\ IF epc[t] = "resync" THEN Cardinality(tuplesSent(t)) <= k * per_ms_throughput
     ELSE /\ Cardinality(tuplesSent(t)) <= k * per_ms_throughput + inBudget[t]
          /\ inBudget[t] <= per_ms_throughput /\ k < emit_dur * MILLI_S_PER_S

RateTypes ==
  /\ time \in Nat /\ pill_dur \in Nat /\ inBudget \in [Threads -> Nat]
  /\ budgetEnd \in [Threads -> Int] /\ TS_END \in [Threads -> Int]

\* A pill is a pill, and only threads with a vector send them.
PillsRight ==
  \A t \in Threads : /\ \A i \in 1 .. Len(pills[t]) : pills[t][i] = Pill
                     /\ epc[t] = "pills" \/ sending[t] = "pills" => source # "self"

RateRight ==
  \A t \in Threads :
    /\ Cardinality(tuplesSent(t)) <= replay_size
    /\ epc[t] \in {"load", "init", "barrier", "check"} =>
         emitted[t] = <<>> /\ sending[t] = "tuples"
    /\ epc[t] \in Emitting /\ sending[t] = "tuples" => \E k \in Nat : Budgeted(t, k)

RateInv == RateTypes /\ PillsRight /\ RateRight

\* A number of budgets, and what is sent in them.
LEMMA RateNumbers ==
  ASSUME Rates, StreamTypes
  PROVE  /\ TIME_BUDGET \in Nat \ {0} /\ per_ms_throughput \in Nat
         /\ emit_dur * NANO_S_PER_S \in Nat /\ emit_dur * MILLI_S_PER_S \in Nat \ {0}
         /\ emit_dur * NANO_S_PER_S = (emit_dur * MILLI_S_PER_S) * TIME_BUDGET
         /\ (emit_dur * MILLI_S_PER_S) * per_ms_throughput <= replay_size
<1>1. PICK D \in Nat \ {0} : D = emit_dur
  BY StreamAssumption
<1>2. PICK M \in Nat \ {0} : M = MILLI_S_PER_S
  BY StreamAssumption
<1>3. PICK N \in Nat \ {0} : N = NANO_S_PER_S
  BY StreamAssumption
<1>4. PICK S \in Nat \ {0} : S = per_sec_throughput
  BY StreamAssumption
<1>5. N \div M \in Nat /\ S \div M \in Nat /\ M * (S \div M) <= S
  <2>1. S \div M \in Nat /\ N \div M \in Nat
    BY <1>4
  <2>2. S = M * (S \div M) + (S % M) /\ S % M \in 0 .. M - 1
    OBVIOUS
  <2> QED
    BY <2>1, <2>2
<1>6. PICK T \in Nat : T = TIME_BUDGET
  BY <1>2, <1>3, <1>5 DEF TIME_BUDGET
<1>7. N = M * T
  BY <1>2, <1>3, <1>6 DEF Rates
<1>8. T # 0
  BY <1>7
<1>9. PICK P \in Nat : P = S \div M /\ M * P <= S
  BY <1>5
<1>10. per_ms_throughput = P
  BY <1>2, <1>4, <1>9 DEF Rates, per_ms_throughput
<1>11. D * M \in Nat \ {0} /\ D * N \in Nat
  OBVIOUS
<1>12. D * N = (D * M) * T
  BY <1>7
<1>13. (D * M) * P <= S * D
  <2>1. PICK r \in Nat : S = M * P + r
    <3>1. S - M * P \in Nat /\ S = M * P + (S - M * P)
      BY <1>9
    <3> QED
      BY <3>1
  <2>2. S * D = (D * M) * P + r * D
    BY <2>1
  <2>3. r * D \in Nat /\ (D * M) * P \in Nat
    OBVIOUS
  <2> QED
    BY <2>2, <2>3
<1> QED
  BY <1>1, <1>2, <1>3, <1>4, <1>6, <1>8, <1>10, <1>11, <1>12, <1>13 DEF replay_size

\* A larger number of budgets is later, and has more tuples.
LEMMA BudgetsGrow ==
  ASSUME NEW k \in Nat, NEW n \in Nat, NEW w \in Nat
  PROVE  /\ k < n => k * w + w <= n * w
         /\ k * w < n * w => k < n
         /\ (k + 1) * w = k * w + w /\ k * w \in Nat
<1>1. (k + 1) * w = k * w + w /\ k * w \in Nat /\ n * w \in Nat
  OBVIOUS
<1>2. ASSUME k < n PROVE k * w + w <= n * w
  <2>1. PICK d \in Nat : n = (k + 1) + d
    <3>1. n - (k + 1) \in Nat /\ n = (k + 1) + (n - (k + 1))
      BY <1>2
    <3> QED
      BY <3>1
  <2>2. n * w = (k * w + w) + d * w
    BY <2>1
  <2>3. d * w \in Nat
    OBVIOUS
  <2> QED
    BY <1>1, <2>2, <2>3
<1>3. ASSUME k * w < n * w PROVE k < n
  <2> SUFFICES ASSUME n <= k PROVE FALSE
    OBVIOUS
  <2>1. PICK d \in Nat : k = n + d
    <3>1. k - n \in Nat /\ k = n + (k - n)
      OBVIOUS
    <3> QED
      BY <3>1
  <2>2. k * w = n * w + d * w
    BY <2>1
  <2>3. d * w \in Nat
    OBVIOUS
  <2> QED
    BY <1>1, <1>3, <2>2, <2>3
<1> QED
  BY <1>1, <1>2, <1>3

\* What one emission adds.
LEMMA SentOne ==
  ASSUME NEW e \in Seq(Int), NEW x \in Int
  PROVE  LET S == {i \in 1 .. Len(e) : e[i] # Pill}
             T == {i \in 1 .. Len(Append(e, x)) : Append(e, x)[i] # Pill}
         IN /\ Cardinality(S) \in Nat
            /\ Cardinality(T) = Cardinality(S) + (IF x = Pill THEN 0 ELSE 1)
<1> DEFINE S == {i \in 1 .. Len(e) : e[i] # Pill}
           T == {i \in 1 .. Len(Append(e, x)) : Append(e, x)[i] # Pill}
<1>1. PICK n \in Nat : n = Len(e)
  OBVIOUS
<1>2. /\ Len(Append(e, x)) = n + 1 /\ Append(e, x)[n + 1] = x
      /\ \A i \in 1 .. n : Append(e, x)[i] = e[i]
  BY <1>1, AppendProperties
<1>3. \A i \in 1 .. n + 1 : i = n + 1 \/ i \in 1 .. n
  OBVIOUS
<1>4. IsFiniteSet(S) /\ Cardinality(S) \in Nat /\ n + 1 \notin S
  <2>1. IsFiniteSet(1 .. n)
    BY FS_Interval
  <2>2. S \subseteq 1 .. n
    BY <1>1
  <2>3. IsFiniteSet(S)
    <3> HIDE DEF S
    <3> QED
      BY <2>1, <2>2, FS_Subset
  <2>4. n + 1 \notin 1 .. n
    OBVIOUS
  <2> QED
    BY <2>2, <2>3, <2>4, FS_CardinalityType
<1>5. T = IF x = Pill THEN S ELSE S \cup {n + 1}
  <2>1. n + 1 \in 1 .. n + 1 /\ \A i \in 1 .. n : i \in 1 .. n + 1
    OBVIOUS
  <2> QED
    BY <1>1, <1>2, <1>3, <2>1
<1> HIDE DEF S, T
<1>6. Cardinality(S \cup {n + 1}) = Cardinality(S) + 1
  BY <1>4, FS_AddElement
<1>7. Cardinality(T) = Cardinality(S) + (IF x = Pill THEN 0 ELSE 1)
  <2>1. CASE x = Pill
    BY <1>4, <1>5, <2>1
  <2>2. CASE x # Pill
    BY <1>5, <1>6, <2>2
  <2> QED
    BY <2>1, <2>2
<1>8. Cardinality(S) \in Nat
  BY <1>4
<1> QED
  BY ONLY <1>7, <1>8, Zenon DEF S, T

\* The steps that leave the rate alone.
LEMMA RateKept ==
  ASSUME RateInv, time' \in Nat,
         UNCHANGED <<source, pill_dur, inBudget, budgetEnd, TS_END, emitted, sending>>,
         \A t \in Threads : \A i \in 1 .. Len(pills'[t]) : pills'[t][i] = Pill,
         \A t \in Threads : \/ epc'[t] = epc[t] \/ epc'[t] = "exit"
                            \/ epc[t] = "pace" /\ epc'[t] = "emit"
                            \/ /\ epc[t] \in {"load", "init", "barrier", "check"}
                               /\ epc'[t] \in {"load", "init", "barrier", "check"}
  PROVE  RateInv'
<1>1. RateTypes' /\ PillsRight'
  <2>1. ASSUME NEW t \in Threads PROVE epc'[t] = "pills" => epc[t] = "pills"
    OBVIOUS
  <2> QED
    BY <2>1 DEF RateInv, RateTypes, PillsRight
<1>2. \A t \in Threads : tuplesSent(t)' = tuplesSent(t)
  BY DEF tuplesSent
<1>3. per_ms_throughput' = per_ms_throughput
  BY DEF per_ms_throughput
<1>4. ASSUME NEW t \in Threads
      PROVE  /\ Cardinality(tuplesSent(t)') <= replay_size
             /\ epc'[t] \in {"load", "init", "barrier", "check"} =>
                  emitted'[t] = <<>> /\ sending'[t] = "tuples"
             /\ epc'[t] \in Emitting /\ sending'[t] = "tuples" => \E k \in Nat : Budgeted(t, k)'
  <2>1. ASSUME NEW k \in Nat, Budgeted(t, k), epc'[t] \in Emitting PROVE Budgeted(t, k)'
    BY <1>2, <1>3, <2>1 DEF Budgeted, Emitting
  <2>2. epc'[t] \in Emitting => epc[t] \in Emitting
    BY DEF Emitting
  <2>3. epc'[t] \in {"load", "init", "barrier", "check"} =>
          epc[t] \in {"load", "init", "barrier", "check"}
    OBVIOUS
  <2> QED
    BY <1>2, <2>1, <2>2, <2>3 DEF RateInv, RateRight
<1> QED
  BY <1>1, <1>4 DEF RateInv, RateRight

\* What RateRight says of one thread.
RatedOne(t) ==
  /\ Cardinality(tuplesSent(t)) <= replay_size
  /\ epc[t] \in {"load", "init", "barrier", "check"} => emitted[t] = <<>> /\ sending[t] = "tuples"
  /\ epc[t] \in Emitting /\ sending[t] = "tuples" => \E k \in Nat : Budgeted(t, k)

\* A step of one thread.
LEMMA RateOne ==
  ASSUME RateInv, NEW t \in Threads, UNCHANGED <<source, pills>>, RateTypes', RatedOne(t)',
         epc'[t] = "pills" \/ sending'[t] = "pills" => source # "self",
         \A u \in Threads \ {t} :
           /\ epc'[u] = epc[u] /\ sending'[u] = sending[u] /\ emitted'[u] = emitted[u]
           /\ inBudget'[u] = inBudget[u] /\ budgetEnd'[u] = budgetEnd[u] /\ TS_END'[u] = TS_END[u]
  PROVE  RateInv'
<1>1. per_ms_throughput' = per_ms_throughput
  BY DEF per_ms_throughput
<1>2. PillsRight'
  BY DEF RateInv, PillsRight
<1>3. ASSUME NEW u \in Threads, u # t PROVE RatedOne(u)'
  <2>1. tuplesSent(u)' = tuplesSent(u)
    BY <1>3 DEF tuplesSent
  <2>2. ASSUME NEW k \in Nat, Budgeted(u, k) PROVE Budgeted(u, k)'
    BY <1>1, <1>3, <2>1, <2>2 DEF Budgeted
  <2>3. RatedOne(u)
    BY DEF RateInv, RateRight, RatedOne
  <2> QED
    BY <1>3, <2>1, <2>2, <2>3 DEF RatedOne
<1>4. RateRight'
  BY <1>3 DEF RateRight, RatedOne
<1> QED
  BY <1>2, <1>4 DEF RateInv

\* The loop of a thread starts.
LEMMA RateStart ==
  ASSUME Rates, StreamInv, RateInv, NEW t \in Threads,
         (CheckBudget(t) /\ epc'[t] = "emit") \/ PassSecond(t)
  PROVE  RateInv'
<1>1. /\ epc' = [epc EXCEPT ![t] = "emit"] /\ Start(t, emit_dur)
      /\ UNCHANGED <<settings, time, loadVars, sending, emitted>>
      /\ epc[t] \in {"barrier", "check"}
  <2>1. CASE PassSecond(t)
    BY <2>1 DEF PassSecond
  <2>2. CASE CheckBudget(t) /\ epc'[t] = "emit"
    <3>1. epc \in [Threads -> EmitPlaces]
      BY DEF StreamInv, StreamTypes
    <3> QED
      BY <2>2, <3>1 DEF CheckBudget
  <2> QED
    BY <2>1, <2>2
<1>2. /\ UNCHANGED <<source, pill_dur, time, pills, sending, emitted>>
      /\ TS_END' = [TS_END EXCEPT ![t] = time + emit_dur * NANO_S_PER_S]
      /\ budgetEnd' = [budgetEnd EXCEPT ![t] = time] /\ inBudget' = [inBudget EXCEPT ![t] = 0]
  BY <1>1 DEF Start, settings, loadVars
<1>3. /\ time \in Nat /\ pill_dur \in Nat /\ inBudget \in [Threads -> Nat]
      /\ budgetEnd \in [Threads -> Int]
      /\ TS_END \in [Threads -> Int] /\ epc \in [Threads -> EmitPlaces]
      /\ emitted[t] = <<>> /\ sending[t] = "tuples"
  BY <1>1 DEF RateInv, RateTypes, RateRight, StreamInv, StreamTypes
<1>4. PICK P \in Nat : P = per_ms_throughput
  BY RateNumbers DEF StreamInv
<1>5. PICK n \in Nat : n = emit_dur * NANO_S_PER_S
  BY RateNumbers DEF StreamInv
<1>6. RateTypes'
  BY <1>2, <1>3, <1>5 DEF RateTypes
<1>7. tuplesSent(t)' = {} /\ Cardinality(tuplesSent(t)') = 0
  <2>1. 1 .. Len(emitted'[t]) = {}
    BY <1>2, <1>3
  <2>2. tuplesSent(t)' = {}
    BY <2>1 DEF tuplesSent
  <2> QED
    BY <2>2, FS_EmptySet
<1>8. Budgeted(t, 0)'
  <2>1. per_ms_throughput' = P
    BY <1>2, <1>4 DEF per_ms_throughput
  <2>2. TS_END'[t] = time + n /\ budgetEnd'[t] = time /\ inBudget'[t] = 0 /\ epc'[t] = "emit"
    BY <1>1, <1>2, <1>3, <1>5
  <2>3. 0 * TIME_BUDGET = 0 /\ 0 * P = 0
    BY RateNumbers DEF StreamInv
  <2>4. 0 < emit_dur * MILLI_S_PER_S
    BY RateNumbers DEF StreamInv
  <2>5. budgetEnd'[t] = (TS_END'[t] - n) + 0
    BY <1>3, <2>2
  <2> QED
    BY <1>5, <1>7, <2>1, <2>2, <2>3, <2>4, <2>5 DEF Budgeted
<1>9. RatedOne(t)'
  <2>1. epc'[t] = "emit" /\ 0 <= replay_size
    BY <1>1, <1>3, ReplayNat
  <2> QED
    BY <1>7, <1>8, <2>1 DEF RatedOne
<1>10. epc'[t] = "emit" /\ sending'[t] = "tuples"
  BY <1>1, <1>2, <1>3
<1> QED
  BY <1>1, <1>2, <1>3, <1>6, <1>9, <1>10, RateOne

\* One emission.
LEMMA RateEmit ==
  ASSUME Rates, StreamInv, RateInv, NEW t \in Threads, Emit(t)
  PROVE  RateInv'
<1> DEFINE x == IF source = "self" THEN Len(emitted[t]) ELSE vec(t)[next[t]]
<1>1. /\ UNCHANGED <<source, pill_dur, time, pills, sending, budgetEnd, TS_END>>
      /\ emitted' = [emitted EXCEPT ![t] = Append(@, x)]
      /\ inBudget' = [inBudget EXCEPT ![t] = @ + 1] /\ epc' = [epc EXCEPT ![t] = "pace"]
      /\ epc[t] = "emit" /\ inBudget[t] < per_ms_throughput
  BY DEF Emit, settings, loadVars
<1>2. /\ time \in Nat /\ pill_dur \in Nat /\ inBudget \in [Threads -> Nat]
      /\ budgetEnd \in [Threads -> Int]
      /\ TS_END \in [Threads -> Int] /\ epc \in [Threads -> EmitPlaces]
      /\ emitted \in [Threads -> Seq(Int)] /\ sending \in [Threads -> {"tuples", "pills"}]
  BY DEF RateInv, RateTypes, StreamInv, StreamTypes
<1>3. /\ x \in Int
      /\ sending[t] = "pills" => x = Pill
  <2>1. CASE source = "self"
    <3>1. sending[t] # "pills"
      BY <2>1 DEF RateInv, PillsRight
    <3>2. Len(emitted[t]) \in Int
      BY <1>2
    <3> QED
      BY <2>1, <3>1, <3>2
  <2>2. CASE source # "self"
    <3>1. next[t] \in 1 .. Len(vec(t))
      BY <1>1, <2>2 DEF StreamInv, NextRight, Emitting
    <3>2. vec(t) \in Seq(Int)
      BY DEF StreamInv, StreamTypes, vec
    <3>3. vec(t)[next[t]] \in Int
      BY <3>1, <3>2
    <3>4. sending[t] = "pills" => vec(t)[next[t]] = Pill
      BY <3>1 DEF RateInv, PillsRight, vec
    <3> QED
      BY <2>2, <3>3, <3>4
  <2> QED
    BY <2>1, <2>2
<1> HIDE DEF x
<1>4. PICK P \in Nat : P = per_ms_throughput /\ (emit_dur * MILLI_S_PER_S) * P <= replay_size
  BY RateNumbers DEF StreamInv
<1>5. RateTypes'
  <2>1. inBudget[t] + 1 \in Nat
    BY <1>2
  <2> QED
    BY <1>1, <1>2, <2>1 DEF RateTypes
<1>6. /\ Cardinality(tuplesSent(t)) \in Nat
      /\ Cardinality(tuplesSent(t)') = Cardinality(tuplesSent(t)) + (IF x = Pill THEN 0 ELSE 1)
  <2>1. emitted[t] \in Seq(Int) /\ emitted'[t] = Append(emitted[t], x)
    BY <1>1, <1>2
  <2>2. PICK e \in Seq(Int) : e = emitted[t]
    BY <2>1
  <2> DEFINE S == {i \in 1 .. Len(e) : e[i] # Pill}
             T == {i \in 1 .. Len(Append(e, x)) : Append(e, x)[i] # Pill}
  <2>3. Cardinality(S) \in Nat /\ Cardinality(T) = Cardinality(S) + (IF x = Pill THEN 0 ELSE 1)
    BY ONLY <1>3, <2>2, SentOne, Zenon
  <2>4. tuplesSent(t) = S
    BY <2>2 DEF tuplesSent
  <2>5. tuplesSent(t)' = T
    BY <2>1, <2>2 DEF tuplesSent
  <2> QED
    BY ONLY <2>3, <2>4, <2>5, Zenon
<1>7. per_ms_throughput' = P
  BY <1>1, <1>4 DEF per_ms_throughput
<1>8. /\ epc'[t] = "pace" /\ inBudget'[t] = inBudget[t] + 1
      /\ sending'[t] = sending[t] /\ inBudget[t] \in Nat
  BY <1>1, <1>2
<1>9. CASE sending[t] = "pills"
  <2>1. Cardinality(tuplesSent(t)') = Cardinality(tuplesSent(t))
    BY <1>3, <1>6, <1>9
  <2>2. RatedOne(t)'
    BY <1>8, <1>9, <2>1 DEF RatedOne, RateInv, RateRight
  <2>3. source # "self"
    BY <1>9 DEF RateInv, PillsRight
  <2> QED
    BY <1>1, <1>2, <1>5, <2>2, <2>3, RateOne
<1>10. CASE sending[t] = "tuples"
  <2>1. PICK k \in Nat : Budgeted(t, k)
    BY <1>1, <1>10 DEF RateInv, RateRight, Emitting
  <2> DEFINE s == Cardinality(tuplesSent(t))
             r == Cardinality(tuplesSent(t)')
             b == inBudget[t]
  <2>2. /\ s <= k * P + b /\ b < P /\ k < emit_dur * MILLI_S_PER_S
        /\ budgetEnd[t] = (TS_END[t] - emit_dur * NANO_S_PER_S) + k * TIME_BUDGET
    BY <1>1, <1>4, <2>1 DEF Budgeted
  <2>3. r <= s + 1 /\ r \in Nat /\ s \in Nat /\ b \in Nat
    BY <1>6, <1>8
  <2>4. PICK n \in Nat : n = emit_dur * MILLI_S_PER_S /\ n * P <= replay_size
    BY <1>4, RateNumbers DEF StreamInv
  <2>5. k * P + P <= n * P /\ k * P \in Nat /\ n * P \in Nat
    BY <2>2, <2>4, BudgetsGrow
  <2> HIDE DEF r, s, b
  <2>6. r <= k * P + (b + 1) /\ b + 1 <= P
    BY <2>2, <2>3, <2>5
  <2>7. r <= replay_size
    BY <2>3, <2>4, <2>5, <2>6, ReplayNat
  <2>8. Budgeted(t, k)'
    BY <1>1, <1>7, <1>8, <2>2, <2>6 DEF Budgeted, r, b
  <2>9. RatedOne(t)'
    BY <1>8, <2>7, <2>8 DEF RatedOne, r
  <2> QED
    BY <1>1, <1>2, <1>5, <1>8, <1>10, <2>9, RateOne
<1> QED
  BY <1>2, <1>9, <1>10

\* A budget is sent.
LEMMA RateBudget ==
  ASSUME Rates, StreamInv, RateInv, NEW t \in Threads, BudgetSent(t)
  PROVE  RateInv'
<1>1. /\ UNCHANGED <<source, pill_dur, time, pills, sending, inBudget, emitted, TS_END>>
      /\ budgetEnd' = [budgetEnd EXCEPT ![t] = budgetEnd[t] + TIME_BUDGET]
      /\ epc' = [epc EXCEPT ![t] = "resync"]
      /\ epc[t] = "emit" /\ inBudget[t] >= per_ms_throughput
  BY DEF BudgetSent, settings, loadVars, nextBudget
<1>2. /\ time \in Nat /\ pill_dur \in Nat /\ inBudget \in [Threads -> Nat]
      /\ budgetEnd \in [Threads -> Int]
      /\ TS_END \in [Threads -> Int] /\ epc \in [Threads -> EmitPlaces]
      /\ sending \in [Threads -> {"tuples", "pills"}]
  BY DEF RateInv, RateTypes, StreamInv, StreamTypes
<1>3. PICK P \in Nat : P = per_ms_throughput
  BY RateNumbers DEF StreamInv
<1>4. PICK T \in Nat : T = TIME_BUDGET
  BY RateNumbers DEF StreamInv
<1>5. /\ epc'[t] = "resync" /\ budgetEnd'[t] = budgetEnd[t] + T /\ per_ms_throughput' = P
      /\ tuplesSent(t)' = tuplesSent(t)
  BY <1>1, <1>2, <1>3, <1>4 DEF per_ms_throughput, tuplesSent
<1>6. RateTypes'
  BY <1>1, <1>2, <1>4 DEF RateTypes
<1>7. ASSUME sending[t] = "tuples" PROVE \E k \in Nat : Budgeted(t, k)'
  <2>1. PICK k \in Nat : Budgeted(t, k)
    BY <1>1, <1>7 DEF RateInv, RateRight, Emitting
  <2>2. PICK n \in Nat : n = emit_dur * NANO_S_PER_S
    BY RateNumbers DEF StreamInv
  <2> DEFINE s == Cardinality(tuplesSent(t))
  <2>3. s <= k * P + inBudget[t] /\ inBudget[t] = P /\ budgetEnd[t] = (TS_END[t] - n) + k * T
    <3>1. /\ s <= k * per_ms_throughput + inBudget[t] /\ inBudget[t] <= per_ms_throughput
          /\ budgetEnd[t] = (TS_END[t] - emit_dur * NANO_S_PER_S) + k * TIME_BUDGET
      BY <1>1, <2>1 DEF Budgeted
    <3>2. inBudget[t] \in Nat /\ P <= inBudget[t] /\ inBudget[t] <= P
      BY <1>1, <1>2, <1>3, <3>1
    <3>3. inBudget[t] = P
      BY <3>2
    <3> QED
      BY <1>3, <1>4, <2>2, <3>1, <3>3
  <2>4. (k + 1) * P = k * P + P /\ (k + 1) * T = k * T + T /\ k * T \in Nat /\ k * P \in Nat
    BY BudgetsGrow
  <2>5. budgetEnd'[t] = (TS_END[t] - n) + (k + 1) * T
    BY <1>2, <1>5, <2>3, <2>4
  <2>6. s <= (k + 1) * P
    BY <2>3, <2>4
  <2>7. Budgeted(t, k + 1)'
    BY <1>1, <1>4, <1>5, <2>2, <2>5, <2>6 DEF Budgeted
  <2> QED
    BY <2>7
<1>8. RatedOne(t)'
  BY <1>1, <1>5, <1>7 DEF RatedOne, RateInv, RateRight
<1>9. epc'[t] = "pills" \/ sending'[t] = "pills" => source # "self"
  BY <1>1, <1>5 DEF RateInv, PillsRight
<1> QED
  BY <1>1, <1>2, <1>6, <1>8, <1>9, RateOne

\* The next budget starts, or the end has come.
LEMMA RateResync ==
  ASSUME Rates, StreamInv, RateInv, NEW t \in Threads, Resync(t)
  PROVE  RateInv'
<1>1. /\ UNCHANGED <<source, pill_dur, time, pills, sending, emitted>>
      /\ budgetEnd' = [budgetEnd EXCEPT ![t] = IF time < TS_END[t] THEN budgetEnd[t] ELSE 0]
      /\ TS_END' = [TS_END EXCEPT ![t] = IF time < TS_END[t] THEN TS_END[t] ELSE 0]
      /\ inBudget' = [inBudget EXCEPT ![t] = 0]
      /\ epc[t] = "resync" /\ time >= budgetEnd[t]
  BY DEF Resync, settings, loadVars
<1>2. /\ time \in Nat /\ pill_dur \in Nat /\ inBudget \in [Threads -> Nat]
      /\ budgetEnd \in [Threads -> Int]
      /\ TS_END \in [Threads -> Int] /\ epc \in [Threads -> EmitPlaces]
      /\ sending \in [Threads -> {"tuples", "pills"}]
  BY DEF RateInv, RateTypes, StreamInv, StreamTypes
<1>3. /\ \A u \in Threads \ {t} : epc'[u] = epc[u]
      /\ IF time < TS_END[t] THEN epc'[t] = "emit"
         ELSE epc'[t] = "done" \/ (epc'[t] = "pills" /\ source # "self")
  BY <1>2 DEF Resync
<1>4. RateTypes'
  BY <1>1, <1>2 DEF RateTypes
<1>5. /\ tuplesSent(t)' = tuplesSent(t) /\ per_ms_throughput' = per_ms_throughput
      /\ sending'[t] = sending[t]
  BY <1>1 DEF tuplesSent, per_ms_throughput
<1>6. ASSUME sending[t] = "tuples", time < TS_END[t] PROVE \E k \in Nat : Budgeted(t, k)'
  <2>1. PICK k \in Nat : Budgeted(t, k)
    BY <1>1, <1>6 DEF RateInv, RateRight, Emitting
  <2>2. PICK P \in Nat : P = per_ms_throughput
    BY RateNumbers DEF StreamInv
  <2>3. PICK T \in Nat : T = TIME_BUDGET
    BY RateNumbers DEF StreamInv
  <2>4. PICK n \in Nat : n = emit_dur * MILLI_S_PER_S /\ emit_dur * NANO_S_PER_S = n * T
    BY <2>3, RateNumbers DEF StreamInv
  <2>5. /\ Cardinality(tuplesSent(t)) <= k * P
        /\ budgetEnd[t] = (TS_END[t] - n * T) + k * T
    BY <1>1, <2>1, <2>2, <2>3, <2>4 DEF Budgeted
  <2>6. k * T \in Nat /\ n * T \in Nat /\ k * P \in Nat
    BY BudgetsGrow
  <2>7. k * T < n * T
    BY <1>1, <1>2, <1>6, <2>5, <2>6
  <2>8. k < n
    BY <2>7, BudgetsGrow
  <2>9. /\ epc'[t] = "emit" /\ inBudget'[t] = 0 /\ budgetEnd'[t] = budgetEnd[t]
        /\ TS_END'[t] = TS_END[t] /\ k * P + 0 = k * P
    BY <1>1, <1>2, <1>3, <1>6, <2>6
  <2>10. Budgeted(t, k)'
    BY <1>5, <2>2, <2>3, <2>4, <2>5, <2>8, <2>9 DEF Budgeted
  <2> QED
    BY <2>10
<1>7. RatedOne(t)'
  BY <1>1, <1>3, <1>5, <1>6 DEF RatedOne, RateInv, RateRight, Emitting
<1>8. epc'[t] = "pills" \/ sending'[t] = "pills" => source # "self"
  BY <1>3, <1>5 DEF RateInv, PillsRight
<1> QED
  BY <1>1, <1>2, <1>3, <1>4, <1>7, <1>8, RateOne

\* The pills.
LEMMA RatePills ==
  ASSUME StreamInv, RateInv, NEW t \in Threads, StartPills(t)
  PROVE  RateInv'
<1>1. epc[t] = "pills" /\ UNCHANGED <<source, pill_dur, time, pills, emitted>> /\ source # "self"
  BY DEF StartPills, settings, loadVars, RateInv, PillsRight
<1>2. /\ time \in Nat /\ pill_dur \in Nat /\ inBudget \in [Threads -> Nat]
      /\ budgetEnd \in [Threads -> Int]
      /\ TS_END \in [Threads -> Int] /\ epc \in [Threads -> EmitPlaces]
      /\ sending \in [Threads -> {"tuples", "pills"}]
  BY DEF RateInv, RateTypes, StreamInv, StreamTypes
<1>3. CASE pills[t] = <<>>
  <2>1. epc' = [u \in Threads |-> "exit"] /\ UNCHANGED <<sending, inBudget, budgetEnd, TS_END>>
    BY <1>3 DEF StartPills
  <2> QED
    BY <1>1, <1>2, <2>1, RateKept DEF RateInv, PillsRight
<1>4. CASE pills[t] # <<>>
  <2>1. /\ epc' = [epc EXCEPT ![t] = "emit"] /\ sending' = [sending EXCEPT ![t] = "pills"]
        /\ TS_END' = [TS_END EXCEPT ![t] = time + pill_dur * NANO_S_PER_S]
        /\ budgetEnd' = [budgetEnd EXCEPT ![t] = time] /\ inBudget' = [inBudget EXCEPT ![t] = 0]
    BY <1>4 DEF StartPills, Start
  <2>2. pill_dur * NANO_S_PER_S \in Int
    BY <1>2, StreamAssumption
  <2>3. RateTypes'
    BY <1>1, <1>2, <2>1, <2>2 DEF RateTypes
  <2>4. tuplesSent(t)' = tuplesSent(t) /\ epc'[t] = "emit" /\ sending'[t] = "pills"
    BY <1>1, <1>2, <2>1 DEF tuplesSent
  <2>5. RatedOne(t)'
    BY <2>4 DEF RatedOne, RateInv, RateRight
  <2> QED
    BY <1>1, <1>2, <2>1, <2>3, <2>4, <2>5, RateOne
<1> QED
  BY <1>3, <1>4

\* Nothing is sent at the start.
LEMMA RateInitInv == StreamInit => RateInv
<1> SUFFICES ASSUME StreamInit PROVE RateInv
  OBVIOUS
<1>1. RateTypes
  BY StreamAssumption DEF StreamInit, RateTypes
<1>2. ASSUME NEW t \in Threads
      PROVE  /\ emitted[t] = <<>> /\ pills[t] = <<>> /\ sending[t] = "tuples"
             /\ epc[t] \in {"load", "check"}
  BY DEF StreamInit
<1>3. PillsRight
  BY <1>2 DEF PillsRight
<1>4. ASSUME NEW t \in Threads PROVE Cardinality(tuplesSent(t)) <= replay_size
  <2>1. 1 .. Len(emitted[t]) = {}
    BY <1>2
  <2>2. tuplesSent(t) = {}
    BY <2>1 DEF tuplesSent
  <2> QED
    BY <2>2, FS_EmptySet, ReplayNat
<1>5. RateRight
  BY <1>2, <1>4 DEF RateRight, Emitting
<1> QED
  BY <1>1, <1>3, <1>5 DEF RateInv

\* Loading, waiting, receiving: the rate is not concerned.
LEMMA RateQuiet ==
  ASSUME StreamInv, RateInv,
         UNCHANGED streamVars \/ Tick \/ Load \/ mt_recvStr \/ \E t \in Threads : ClientThread(t)
  PROVE  RateInv'
<1>0. /\ time \in Nat /\ epc \in [Threads -> EmitPlaces] /\ pills \in [Threads -> Seq(Int)]
      /\ \A t \in Threads : \A i \in 1 .. Len(pills[t]) : pills[t][i] = Pill
  BY DEF RateInv, RateTypes, PillsRight, StreamInv, StreamTypes
<1>1. CASE Tick
  <2>1. /\ time' = time + 1
        /\ UNCHANGED <<source, pill_dur, inBudget, budgetEnd, TS_END, emitted,
                    sending, epc, pills>>
    BY <1>1 DEF Tick, settings, emitVars, loadVars
  <2> QED
    BY <1>0, <2>1, RateKept
<1>2. CASE loadPoisonPills
  <2>1. /\ pills' = [t \in Threads |-> Append(pills[t], Pill)]
        /\ UNCHANGED <<source, pill_dur, time, inBudget, budgetEnd, TS_END, emitted, sending, epc>>
    BY <1>2 DEF loadPoisonPills, settings, emitVars
  <2>2. ASSUME NEW t \in Threads, NEW i \in 1 .. Len(pills'[t]) PROVE pills'[t][i] = Pill
    <3>1. pills'[t] = Append(pills[t], Pill) /\ pills[t] \in Seq(Int) /\ Pill \in Int
      BY <1>0, <2>1 DEF Pill
    <3>2. /\ Len(pills'[t]) = Len(pills[t]) + 1 /\ pills'[t][Len(pills[t]) + 1] = Pill
          /\ \A j \in 1 .. Len(pills[t]) : pills'[t][j] = pills[t][j]
      BY <3>1, AppendProperties
    <3>3. i = Len(pills[t]) + 1 \/ i \in 1 .. Len(pills[t])
      BY <3>1, <3>2
    <3> QED
      BY <1>0, <3>2, <3>3
  <2> QED
    BY <1>0, <2>1, <2>2, RateKept
<1>3. CASE runDGSender
  <2>1. /\ UNCHANGED <<source, pill_dur, time, inBudget, budgetEnd, TS_END, emitted,
                       sending, pills>>
        /\ \A t \in Threads : epc[t] = "load" /\ epc'[t] = "init"
    BY <1>3 DEF runDGSender, settings, loadVars
  <2> QED
    BY <1>0, <2>1, RateKept
<1>4. CASE \/ UNCHANGED streamVars \/ mt_recvStr \/ loadOneTuple \/ loadAllStrTuples
           \/ \E t \in Threads : ClientThread(t)
  <2>1. UNCHANGED <<source, pill_dur, time, inBudget, budgetEnd, TS_END, emitted,
                    sending, epc, pills>>
    BY <1>4 DEF streamVars, settings, emitVars, loadVars, mt_recvStr, loadOneTuple,
                loadAllStrTuples,
                ClientThread, Connect, RecvInit, RecvTuple, Push
  <2> QED
    BY <1>0, <2>1, RateKept
<1> QED
  BY <1>1, <1>2, <1>3, <1>4 DEF Load

\* The steps of an emitting thread.
LEMMA RateThread ==
  ASSUME Rates, StreamInv, RateInv, NEW t \in Threads, EmitThread(t)
  PROVE  RateInv'
<1>0. /\ time \in Nat /\ epc \in [Threads -> EmitPlaces]
      /\ \A u \in Threads : \A i \in 1 .. Len(pills[u]) : pills[u][i] = Pill
  BY DEF RateInv, RateTypes, PillsRight, StreamInv, StreamTypes
<1>1. CASE SendInit(t) \/ PassFirst(t) \/ Pace(t)
  <2>1. /\ UNCHANGED <<source, pill_dur, time, inBudget, budgetEnd, TS_END, emitted,
                       sending, pills>>
        /\ \/ epc[t] = "init" /\ epc' = [epc EXCEPT ![t] = "barrier"]
           \/ epc[t] = "barrier" /\ epc' = [epc EXCEPT ![t] = "check"]
           \/ epc[t] = "pace" /\ epc' = [epc EXCEPT ![t] = "emit"]
    BY <1>1 DEF SendInit, PassFirst, Pace, settings, loadVars
  <2> QED
    BY <1>0, <2>1, RateKept
<1>2. CASE CheckBudget(t) /\ epc'[t] # "emit"
  <2>1. /\ UNCHANGED <<source, pill_dur, time, emitted, sending, pills>> /\ epc[t] = "check"
        /\ UNCHANGED <<inBudget, budgetEnd, TS_END>>
        /\ epc' = [u \in Threads |-> "exit"] \/ epc' = [epc EXCEPT ![t] = "barrier"]
    BY <1>0, <1>2 DEF CheckBudget, settings, loadVars
  <2> QED
    BY <1>0, <2>1, RateKept
<1>3. CASE (CheckBudget(t) /\ epc'[t] = "emit") \/ PassSecond(t)
  BY <1>3, RateStart
<1>4. CASE Emit(t) \/ BudgetSent(t) \/ Resync(t) \/ StartPills(t)
  BY <1>4, RateEmit, RateBudget, RateResync, RatePills
<1> QED
  BY <1>1, <1>2, <1>3, <1>4 DEF EmitThread

\* At more than a thousand tuples a second, and with the units of globals.h, the threads
\* start together and none sends more tuples than per_sec_throughput for each second of
\* emit_dur, however long its polling loops are delayed (emit.cpp, mt_emitScheduler).
THEOREM SentOnSchedule ==
  ASSUME Rates
  PROVE  StreamSpec => []OnSchedule
<1>1. StreamInv /\ RateInv /\ [StreamNext]_streamVars => RateInv'
  BY RateQuiet, RateThread DEF StreamNext
<1>2. RateInv => AtRate
  BY DEF RateInv, RateRight, AtRate
<1>3. StreamSpec => []RateInv
  BY <1>1, RateInitInv, StreamAlways, PTL DEF StreamSpec
<1>4. StartTogether /\ AtRate => OnSchedule
  BY DEF OnSchedule
<1> QED
  BY <1>2, <1>3, <1>4, ThreadsStartTogether, PTL

=============================================================================
