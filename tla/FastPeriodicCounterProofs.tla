---------------------- MODULE FastPeriodicCounterProofs ----------------------
(***************************************************************************)
(* What is proved of FastPeriodicCounter for every set of channels and     *)
(* periods, every bound and every set of races: types, and that the        *)
(* sampling threads neither pop an empty queue nor end with work left.     *)
(*                                                                         *)
(* NothingLeftBehind is not inductive: a thread that passes a moved        *)
(* channel on is between two jobs of its batch, and what is left of the    *)
(* batch must still be in the queue when it comes back.  Carrying adds     *)
(* that, and that it has a job to pass on.                                 *)
(***************************************************************************)
EXTENDS FastPeriodicCounter, SequenceTheorems, TLAPS

\* A thread between the two halves of a move has the job in its hands, and
\* its queue the rest of the batch.
Carrying ==
  \A p \in Periods : tpc[p] = "pass" =>
    moving[p] \in Job /\ nr_jobs[p] \in 0..Len(j_queue[p])

\* The inductive invariant
IInv == TypeOK /\ NothingLeftBehind /\ Carrying

\* nr_open_channels, an unsigned counter, stays in its range.
LEMMA Modulus ==
  ASSUME NEW i \in Int
  PROVE  i % NR_MOD \in 0..(NR_MOD - 1)
BY BoundsAssumption

\* The channels' types outlive a step that leaves the channels alone.
LEMMA ChanFrame ==
  ASSUME ChanTypes, UNCHANGED chanVars
  PROVE  ChanTypes'
BY DEF ChanTypes, chanVars

\* So do the threads' part of the invariant,
LEMMA ThrFrame ==
  ASSUME ThrTypes, NothingLeftBehind, Carrying, UNCHANGED thrVars
  PROVE  ThrTypes' /\ NothingLeftBehind' /\ Carrying'
BY DEF ThrTypes, NothingLeftBehind, Carrying, thrVars

\* the calls' types,
LEMMA CallFrame ==
  ASSUME CallTypes, UNCHANGED callVars
  PROVE  CallTypes'
BY DEF CallTypes, callVars

\* and the history's.
LEMMA HistFrame ==
  ASSUME HistTypes, UNCHANGED histVars
  PROVE  HistTypes'
BY DEF HistTypes, histVars

\* enqueueJobWithThrDescriptor: the job reaches a thread, old or new, and the
\* batch the thread is working on is not disturbed.
LEMMA Enqueue ==
  ASSUME NEW p \in Periods, NEW j \in Job,
         ThrTypes, NothingLeftBehind, Carrying,
         enqueueJobWithThrDescriptor(p, j),
         UNCHANGED <<closures, nr_jobs, moving>>
  PROVE  ThrTypes' /\ NothingLeftBehind' /\ Carrying'
<1>1. Append(j_queue[p], j) \in Seq(Job)
      /\ Len(Append(j_queue[p], j)) = Len(j_queue[p]) + 1
      /\ Append(j_queue[p], j) # <<>>
  BY AppendProperties, LenProperties, EmptySeq DEF ThrTypes
<1>2. ThrTypes'
  BY <1>1 DEF ThrTypes, enqueueJobWithThrDescriptor
<1>3. NothingLeftBehind'
  BY <1>1, LenProperties DEF ThrTypes, NothingLeftBehind, enqueueJobWithThrDescriptor
<1>4. Carrying'
  BY <1>1, LenProperties DEF ThrTypes, Carrying, enqueueJobWithThrDescriptor
<1> QED  BY <1>2, <1>3, <1>4

\* dequeueJobFromThrDescriptor, likewise, though there may be no thread.
LEMMA Dequeue ==
  ASSUME NEW p \in Periods, NEW j \in Job,
         ThrTypes, NothingLeftBehind, Carrying,
         dequeueJobFromThrDescriptor(p, j),
         UNCHANGED <<closures, nr_jobs, moving>>
  PROVE  ThrTypes' /\ NothingLeftBehind' /\ Carrying'
<1>1. CASE tpc[p] = "none"
  BY <1>1, ThrFrame DEF dequeueJobFromThrDescriptor, thrVars
<1>2. CASE tpc[p] # "none"
  BY <1>2, Enqueue DEF dequeueJobFromThrDescriptor, enqueueJobWithThrDescriptor, ThrTypes
<1> QED  BY <1>1, <1>2

\* remove_job in the middle of a batch finds a job.
LEMMA Popped ==
  ASSUME NEW p \in Periods, ThrTypes, NothingLeftBehind, RemoveJob(p)
  PROVE  /\ j_queue[p] \in Seq(Job)
         /\ Head(j_queue[p]) \in Job
         /\ Tail(j_queue[p]) \in Seq(Job)
         /\ Len(Tail(j_queue[p])) = Len(j_queue[p]) - 1
         /\ nr_jobs[p] \in 1..Len(j_queue[p])
         /\ nr_jobs[p] - 1 \in Nat
<1>1. /\ j_queue[p] \in Seq(Job)
      /\ nr_jobs[p] \in 1..Len(j_queue[p])
  BY DEF ThrTypes, NothingLeftBehind, RemoveJob
<1>2. Len(j_queue[p]) \in Nat
  BY <1>1, LenProperties
<1>3. j_queue[p] # <<>>
  BY <1>1, <1>2, EmptySeq
<1>4. Head(j_queue[p]) \in Job /\ Tail(j_queue[p]) \in Seq(Job)
      /\ Len(Tail(j_queue[p])) = Len(j_queue[p]) - 1
  BY <1>1, <1>3, HeadTailProperties
<1> QED  BY <1>1, <1>2, <1>4

\* A job of the batch is done: the thread goes on to the next one, which is
\* there, or to its termination test.
LEMMA Ran ==
  ASSUME NEW p \in Periods, ThrTypes, NothingLeftBehind, Carrying,
         RemoveJob(p),
         tpc' = [tpc EXCEPT ![p] = NextJob(p)],
         NEW S \in SUBSET Chans,
         closures' = [closures EXCEPT ![p] = S],
         UNCHANGED moving
  PROVE  ThrTypes' /\ NothingLeftBehind' /\ Carrying'
<1>1. /\ j_queue[p] \in Seq(Job)
      /\ Tail(j_queue[p]) \in Seq(Job)
      /\ Len(j_queue[p]) \in Nat
      /\ Len(Tail(j_queue[p])) = Len(j_queue[p]) - 1
      /\ nr_jobs[p] \in 1..Len(j_queue[p])
      /\ nr_jobs[p] - 1 \in Nat
  BY Popped, LenProperties
<1>2. NextJob(p) \in {"test", "job"}
  BY DEF NextJob
<1>3. ThrTypes'
  BY <1>1, <1>2 DEF ThrTypes, RemoveJob
<1>4. NothingLeftBehind'
  <2> SUFFICES ASSUME NEW q \in Periods
               PROVE  /\ tpc'[q] = "job" => nr_jobs'[q] \in 1..Len(j_queue'[q])
                      /\ tpc'[q] = "none" => j_queue'[q] = <<>> /\ closures'[q] = {}
    BY DEF NothingLeftBehind
  <2>1. CASE q = p
    BY <1>1, <2>1 DEF ThrTypes, RemoveJob, NextJob
  <2>2. CASE q # p
    BY <2>2 DEF ThrTypes, RemoveJob, NothingLeftBehind
  <2> QED  BY <2>1, <2>2
<1>5. Carrying'
  BY <1>2 DEF ThrTypes, Carrying, RemoveJob
<1> QED  BY <1>3, <1>4, <1>5

\* What the print functions write keeps the log file's counts natural.
LEMMA Written ==
  ASSUME NEW c \in Chans, NEW n \in Nat, NEW t \in Nat, ChanTypes
  PROVE  /\ writeCount(c, n, t) \in File
         /\ lastWrite(c) \in File
         /\ firstCount(c) \in File
<1>1. /\ out[c].sum \in Nat /\ out[c].intervals \in Nat /\ out[c].total \in Int
      /\ ctr[c] \in Nat /\ total_ctr[c] \in Nat /\ skipped[c] \in Nat
  BY DEF ChanTypes, File
<1> QED  BY <1>1 DEF File, writeCount, lastWrite, firstCount

\* Flushing a channel's counter keeps the channels' types.
LEMMA Flushed ==
  ASSUME NEW c \in Chans, NEW f \in File, ChanTypes,
         flushCounter(c), writeTo(c, f),
         skipped' = skipped \/ skipped' = [skipped EXCEPT ![c] = 0],
         period' = period
           \/ \E q \in Periods : period' = [period EXCEPT ![c] = q],
         UNCHANGED <<isRefCounted, handler_f, logf>>
  PROVE  ChanTypes'
<1>1. ctr' \in [Chans -> Nat] /\ total_ctr' \in [Chans -> Nat]
  BY DEF ChanTypes, flushCounter
<1>2. out' \in [Chans -> File]
  BY DEF ChanTypes, writeTo
<1>3. skipped' \in [Chans -> Nat] /\ period' \in [Chans -> Periods]
  BY DEF ChanTypes
<1> QED  BY <1>1, <1>2, <1>3 DEF ChanTypes

\* So does signalCompletion the calls'.
LEMMA Signalled ==
  ASSUME NEW j \in Job, CallTypes, signalCompletion(j)
  PROVE  CallTypes'
BY DEF CallTypes, signalCompletion, Job

\* And handing over a job.
LEMMA Submitted ==
  ASSUME NEW k \in Callers, NEW next \in {"idle", "closefile"},
         CallTypes, Submit(k, next)
  PROVE  CallTypes'
BY DEF CallTypes, Submit

\* A new job is one.
LEMMA Made ==
  ASSUME NEW k \in Callers, NEW t \in {"INSERT", "MOVE", "DELETE"},
         NEW p \in Periods, CallTypes
  PROVE  NewJob(k, t, p) \in Job
BY DEF CallTypes, NewJob, Job

\* No thread, no channel and no job at the start.
LEMMA InvInit == Init => IInv
<1> SUFFICES ASSUME Init PROVE IInv
  OBVIOUS
<1> USE DEF Init
<1>1. ChanTypes
  BY SetsAssumption DEF ChanTypes, File
<1>2. nr_open_channels \in 0..(NR_MOD - 1)
  BY BoundsAssumption
<1>3. <<>> \in Seq(Job)
  BY EmptySeq
<1>4. ThrTypes
  BY <1>3 DEF ThrTypes
<1>5. CallTypes
  <2>1. (CHOOSE c \in Chans : TRUE) \in Chans
    BY SetsAssumption
  <2>2. \A k \in Callers : k # EXIT => k \in Chans
    BY DEF Callers
  <2>3. on \in [Callers -> Chans]
    BY <2>1, <2>2
  <2> QED  BY <2>3 DEF CallTypes
<1>6. HistTypes
  BY DEF HistTypes
<1>7. NothingLeftBehind /\ Carrying
  BY DEF NothingLeftBehind, Carrying
<1> QED  BY <1>1, <1>2, <1>4, <1>5, <1>6, <1>7 DEF IInv, TypeOK

\* The steps of the API calls keep the invariant,
LEMMA CallStepInv ==
  ASSUME IInv, NEW k \in Callers, CallStep(k)
  PROVE  IInv'
<1> USE DEF IInv, TypeOK
<1>1. CASE k \in Chans /\ InsertChannel(k)
  <2> USE <1>1 DEF InsertChannel
  <2>1. period[k] \in Periods
    BY DEF ChanTypes
  <2>2. (ThrTypes /\ NothingLeftBehind /\ Carrying)'
    BY <2>1, Made, Enqueue
  <2>3. CallTypes'
    BY Submitted
  <2> QED  BY <2>2, <2>3, ChanFrame, HistFrame
<1>2. CASE CloseCount(k)
  <2> USE <1>2 DEF CloseCount
  <2>1. nr_open_channels' \in 0..(NR_MOD - 1)
    BY Modulus
  <2>2. CallTypes'
    BY DEF CallTypes
  <2> QED  BY <2>1, <2>2, ChanFrame, ThrFrame, HistFrame
<1>3. CASE CloseDelete(k)
  <2> USE <1>3 DEF CloseDelete
  <2>1. on[k] \in Chans /\ period[on[k]] \in Periods
    BY DEF ChanTypes, CallTypes
  <2>2. (ThrTypes /\ NothingLeftBehind /\ Carrying)'
    BY <2>1, Made, Dequeue
  <2>3. CallTypes'
    BY Submitted
  <2>4. ChanTypes'
    BY <2>1 DEF ChanTypes
  <2> QED  BY <2>2, <2>3, <2>4, HistFrame
<1>4. CASE WaitCompletion(k)
  <2> USE <1>4 DEF WaitCompletion
  <2>1. then[k] \in {"idle", "closefile"}
    BY DEF CallTypes
  <2>2. CallTypes'
    BY <2>1 DEF CallTypes
  <2> QED  BY <2>2, ChanFrame, ThrFrame, HistFrame
<1>5. CASE CloseFile(k)
  <2> USE <1>5 DEF CloseFile
  <2>1. on[k] \in Chans
    BY DEF CallTypes
  <2>2. CallTypes'
    BY DEF CallTypes
  <2>3. ChanTypes'
    BY <2>1 DEF ChanTypes
  <2> QED  BY <2>2, <2>3, ThrFrame, HistFrame
<1> QED  BY <1>1, <1>2, <1>3, <1>4, <1>5 DEF CallStep

\* calls being made,
LEMMA RequestInv ==
  ASSUME IInv, NEW c \in Chans, Request(c)
  PROVE  IInv'
<1> USE DEF IInv, TypeOK
<1>0. c \in Callers
  BY DEF Callers
<1>1. CASE OpenChannel(c)
  <2> USE <1>1 DEF OpenChannel
  <2>1. nr_open_channels' \in 0..(NR_MOD - 1)
    BY Modulus
  <2>2. CallTypes'
    BY <1>0 DEF CallTypes
  <2>3. ChanTypes'
    BY DEF ChanTypes
  <2> QED  BY <2>1, <2>2, <2>3, ThrFrame, HistFrame
<1>2. CASE LogTS(c)
  <2> USE <1>2 DEF LogTS
  <2>1. ChanTypes'
    BY DEF ChanTypes
  <2>2. HistTypes'
    BY DEF HistTypes
  <2> QED  BY <2>1, <2>2, ThrFrame, CallFrame
<1>3. CASE CloseChannel(c)
  <2> USE <1>3 DEF CloseChannel
  <2>1. CallTypes'
    BY <1>0 DEF CallTypes
  <2> QED  BY <2>1, ChanFrame, ThrFrame, HistFrame
<1>4. ASSUME NEW p \in Periods, SetArg(c, p)
      PROVE  IInv'
  <2> USE <1>4 DEF SetArg
  <2>1. period[c] \in Periods
    BY DEF ChanTypes
  <2>2. (ThrTypes /\ NothingLeftBehind /\ Carrying)'
    BY <1>0, <2>1, Made, Enqueue
  <2>3. CallTypes'
    BY <1>0, Submitted
  <2>4. HistTypes'
    BY DEF HistTypes
  <2> QED  BY <2>2, <2>3, <2>4, ChanFrame
<1> QED  BY <1>1, <1>2, <1>3, <1>4 DEF Request

\* closeAllChannels,
LEMMA ExitInv ==
  ASSUME IInv, Exit \/ ExitStep
  PROVE  IInv'
<1> USE DEF IInv, TypeOK
<1>0. EXIT \in Callers
  BY DEF Callers
<1>1. CASE Exit
  <2> USE <1>1 DEF Exit
  <2>1. CallTypes'
    BY <1>0 DEF CallTypes
  <2> QED  BY <2>1, ChanFrame, ThrFrame, HistFrame
<1>2. ASSUME NEW c \in Chans, ExitClose(c)
      PROVE  IInv'
  <2> USE <1>2 DEF ExitClose
  <2>1. CallTypes'
    BY <1>0 DEF CallTypes
  <2> QED  BY <2>1, ChanFrame, ThrFrame, HistFrame
<1>3. CASE Exited
  <2> USE <1>3 DEF Exited
  <2>1. CallTypes'
    BY <1>0 DEF CallTypes
  <2> QED  BY <2>1, ChanFrame, ThrFrame, HistFrame
<1> QED  BY <1>1, <1>2, <1>3 DEF ExitStep

\* and the sampling threads, one case per step of thr_f.
LEMMA SamplerInv ==
  ASSUME IInv, NEW p \in Periods, SamplerStep(p)
  PROVE  IInv'
<1> USE DEF IInv, TypeOK
<1>1. CASE Sample(p)
  <2> USE <1>1 DEF Sample
  <2>1. out' \in [Chans -> File]
    <3>1. ASSUME NEW c \in Chans
          PROVE  ctr[c] \in Nat /\ out[c] \in File /\ writeCount(c, ctr[c], 1) \in File
      BY <3>1, Written DEF ChanTypes
    <3> QED  BY <3>1
  <2>2. ChanTypes'
    BY <2>1 DEF ChanTypes
  <2>3. (ThrTypes /\ NothingLeftBehind /\ Carrying)'
    BY DEF ThrTypes, NothingLeftBehind, Carrying
  <2>4. HistTypes'
    BY DEF HistTypes
  <2> QED  BY <2>2, <2>3, <2>4, CallFrame
<1>2. CASE CountJobs(p)
  <2> USE <1>2 DEF CountJobs
  <2>1. /\ j_queue[p] \in Seq(Job)
        /\ Len(j_queue[p]) \in Nat
        /\ j_queue[p] # <<>> => Len(j_queue[p]) > 0
    BY LenProperties, EmptySeq DEF ThrTypes
  <2>2. ThrTypes'
    BY <2>1 DEF ThrTypes
  <2>3. NothingLeftBehind'
    BY <2>1 DEF ThrTypes, NothingLeftBehind
  <2>4. Carrying'
    BY DEF ThrTypes, Carrying
  <2> QED  BY <2>2, <2>3, <2>4, ChanFrame, CallFrame, HistFrame
<1>3. CASE RunInsert(p)
  <2> DEFINE j == Head(j_queue[p])
  <2> USE <1>3 DEF RunInsert
  <2>1. j \in Job /\ j.ch \in Chans
    BY Popped DEF Job
  <2>2. firstCount(j.ch) \in File
    BY <2>1, Written
  <2>3. ChanTypes'
    BY <2>1, <2>2, Flushed
  <2>4. closures[p] \cup {j.ch} \in SUBSET Chans
    BY <2>1 DEF ThrTypes
  <2>5. (ThrTypes /\ NothingLeftBehind /\ Carrying)'
    BY <2>4, Ran
  <2>6. CallTypes'
    BY <2>1, Signalled
  <2> QED  BY <2>3, <2>5, <2>6, HistFrame
<1>4. CASE RunMove(p)
  <2> DEFINE j == Head(j_queue[p])
  <2> USE <1>4 DEF RunMove
  <2>1. j \in Job /\ j.ch \in Chans /\ j.target \in Periods
    BY Popped DEF Job
  <2>2. writeCount(j.ch, ctr[j.ch], 0) \in File
    BY <2>1, Written DEF ChanTypes
  <2>3. ChanTypes'
    BY <2>1, <2>2, Flushed DEF targetPeriod
  <2>4. [j EXCEPT !.type = "INSERT"] \in Job
    BY <2>1 DEF Job
  <2>5. ThrTypes'
    BY <2>4, Popped DEF ThrTypes, RemoveJob, dequeue_channel
  <2>6. NothingLeftBehind'
    BY DEF ThrTypes, NothingLeftBehind, RemoveJob, dequeue_channel
  <2>7. Carrying'
    <3>1. nr_jobs'[p] \in 0..Len(j_queue'[p])
      <4>1. nr_jobs'[p] = nr_jobs[p] - 1 /\ j_queue'[p] = Tail(j_queue[p])
        BY DEF ThrTypes, RemoveJob
      <4>2. Len(j_queue[p]) \in Nat
        BY Popped, LenProperties
      <4> QED  BY <4>1, <4>2, Popped
    <3> QED  BY <2>4, <3>1 DEF ThrTypes, Carrying, RemoveJob
  <2> QED  BY <2>3, <2>5, <2>6, <2>7, CallFrame, HistFrame
<1>5. CASE PassOn(p)
  <2> DEFINE q == period[moving[p].ch]
             next == IF nr_jobs[p] = 0 THEN "test" ELSE "job"
  <2> USE <1>5 DEF PassOn
  <2>1. moving[p] \in Job /\ q \in Periods
    BY DEF Carrying, ChanTypes, Job
  <2>2. /\ Append(j_queue[q], moving[p]) \in Seq(Job)
        /\ Len(j_queue[q]) \in Nat
        /\ Len(Append(j_queue[q], moving[p])) = Len(j_queue[q]) + 1
    BY <2>1, AppendProperties, LenProperties DEF ThrTypes
  <2>3. ThrTypes'
    BY <2>1, <2>2 DEF ThrTypes
  <2>4. \A r \in Periods : /\ r # q => j_queue'[r] = j_queue[r]
                           /\ r \notin {p, q} => tpc'[r] = tpc[r]
    BY <2>1 DEF ThrTypes
  <2>10. /\ nr_jobs' = nr_jobs /\ closures' = closures
         /\ \A r \in Periods \ {p} : moving'[r] = moving[r]
    BY DEF ThrTypes
  <2>5. /\ tpc'[p] = next /\ nr_jobs[p] \in 0..Len(j_queue'[p])
        /\ tpc'[q] # "none" /\ q # p /\ tpc'[q] \in {"job", "pass"} => tpc'[q] = tpc[q]
        /\ tpc'[q] # "none"
        /\ j_queue'[q] = Append(j_queue[q], moving[p])
    <3>1. j_queue'[q] = Append(j_queue[q], moving[p])
      BY <2>1 DEF ThrTypes
    <3>2. nr_jobs[p] \in 0..Len(j_queue'[p])
      <4>1. nr_jobs[p] \in 0..Len(j_queue[p]) /\ Len(j_queue[p]) \in Nat
        BY LenProperties DEF ThrTypes, Carrying
      <4>2. CASE p = q
        <5>1. Len(j_queue'[q]) = Len(j_queue[q]) + 1 /\ Len(j_queue[q]) \in Nat
          BY <2>2, <3>1
        <5>2. ASSUME NEW a \in Nat, NEW n \in 0..a PROVE n \in 0..(a + 1)
          OBVIOUS
        <5>3. nr_jobs[q] \in 0..Len(j_queue'[q])
          BY <4>1, <4>2, <5>1, <5>2
        <5> QED
          BY <4>2, <5>3
      <4>3. CASE p # q
        BY <2>4, <4>1, <4>3
      <4> QED
        BY <4>2, <4>3
    <3> QED
      BY <2>1, <3>1, <3>2 DEF ThrTypes
  <2> HIDE <1>5 DEF PassOn
  <2>6. NothingLeftBehind' /\ Carrying'
    <3> SUFFICES ASSUME NEW r \in Periods
                 PROVE  /\ tpc'[r] = "job" => nr_jobs'[r] \in 1..Len(j_queue'[r])
                        /\ tpc'[r] = "none" => j_queue'[r] = <<>> /\ closures'[r] = {}
                        /\ tpc'[r] = "pass" => moving'[r] \in Job /\ nr_jobs'[r] \in 0..Len(j_queue'[r])
      BY DEF NothingLeftBehind, Carrying
    <3>1. CASE r = p
      <4>1. tpc'[r] # "none" /\ tpc'[r] # "pass" /\ nr_jobs'[r] \in 0..Len(j_queue'[r])
        BY <2>5, <2>10, <3>1
      <4>2. tpc'[r] = "job" => nr_jobs'[r] # 0
        BY <2>5, <2>10, <3>1
      <4> QED  BY <4>1, <4>2
    <3>2. CASE r # p /\ r = q
      <4>1. nr_jobs'[r] = nr_jobs[r] /\ moving'[r] = moving[r]
        BY <2>10, <3>2
      <4>2. Len(j_queue'[r]) = Len(j_queue[r]) + 1 /\ Len(j_queue[r]) \in Nat
        BY <2>2, <2>5, <3>2
      <4>3. tpc'[r] # "none" /\ (tpc'[r] \in {"job", "pass"} => tpc'[r] = tpc[r])
        BY <2>5, <3>2
      <4>4. CASE tpc'[r] = "job"
        <5>1. nr_jobs[r] \in 1..Len(j_queue[r])
          BY <4>3, <4>4 DEF NothingLeftBehind
        <5> QED  BY <4>1, <4>2, <4>4, <5>1
      <4>5. CASE tpc'[r] = "pass"
        <5>1. moving[r] \in Job /\ nr_jobs[r] \in 0..Len(j_queue[r])
          BY <4>3, <4>5 DEF Carrying
        <5> QED  BY <4>1, <4>2, <4>5, <5>1
      <4> QED  BY <4>3, <4>4, <4>5
    <3>3. CASE r # p /\ r # q
      BY <2>4, <2>10, <3>3 DEF NothingLeftBehind, Carrying
    <3> QED  BY <3>1, <3>2, <3>3
  <2> QED  BY <1>5, <2>3, <2>6, ChanFrame, CallFrame, HistFrame DEF PassOn
<1>6. CASE RunMoveFails(p)
  <2> DEFINE j == Head(j_queue[p])
  <2> USE <1>6 DEF RunMoveFails
  <2>1. j \in Job
    BY Popped
  <2>2. (ThrTypes /\ NothingLeftBehind /\ Carrying)'
    <3>1. closures' = [closures EXCEPT ![p] = closures[p]]
          /\ closures[p] \in SUBSET Chans
      BY DEF ThrTypes
    <3> QED  BY <3>1, Ran
  <2>3. CallTypes'
    BY <2>1, Signalled
  <2> QED  BY <2>2, <2>3, ChanFrame, HistFrame
<1>7. CASE RunDelete(p)
  <2> DEFINE j == Head(j_queue[p])
  <2> USE <1>7 DEF RunDelete
  <2>1. j \in Job /\ j.ch \in Chans
    BY Popped DEF Job
  <2>2. lastWrite(j.ch) \in File
    BY <2>1, Written
  <2>3. ChanTypes'
    BY <2>1, <2>2, Flushed
  <2>4. closures[p] \ {j.ch} \in SUBSET Chans
    BY DEF ThrTypes
  <2>5. (ThrTypes /\ NothingLeftBehind /\ Carrying)'
    BY <2>4, Ran DEF dequeue_channel
  <2>6. CallTypes'
    BY <2>1, Signalled
  <2> QED  BY <2>3, <2>5, <2>6, HistFrame
<1>8. CASE TestTermination(p)
  <2> USE <1>8 DEF TestTermination
  <2>1. (ThrTypes /\ NothingLeftBehind /\ Carrying)'
    BY DEF ThrTypes, NothingLeftBehind, Carrying
  <2> QED  BY <2>1, ChanFrame, CallFrame, HistFrame
<1>9. CASE Terminate(p)
  <2> USE <1>9 DEF Terminate
  <2>1. (ThrTypes /\ NothingLeftBehind /\ Carrying)'
    BY DEF ThrTypes, NothingLeftBehind, Carrying, removeThrDescriptor
  <2> QED  BY <2>1, ChanFrame, CallFrame, HistFrame
<1>10. CASE Snooze(p)
  <2> USE <1>10 DEF Snooze
  <2>1. (ThrTypes /\ NothingLeftBehind /\ Carrying)'
    BY DEF ThrTypes, NothingLeftBehind, Carrying
  <2> QED  BY <2>1, ChanFrame, CallFrame, HistFrame
<1>11. CASE FlushDue(p)
  <2> USE <1>11 DEF FlushDue
  <2>1. (ThrTypes /\ NothingLeftBehind /\ Carrying)'
    BY DEF ThrTypes, NothingLeftBehind, Carrying
  <2>2. HistTypes'
    BY DEF HistTypes
  <2> QED  BY <2>1, <2>2, ChanFrame, CallFrame
<1> QED
  BY <1>1, <1>2, <1>3, <1>4, <1>5, <1>6, <1>7, <1>8, <1>9, <1>10, <1>11
     DEF SamplerStep

\* IInv is inductive.
LEMMA InvStep == IInv /\ [Next]_vars => IInv'
<1> SUFFICES ASSUME IInv, [Next]_vars PROVE IInv'
  OBVIOUS
<1>1. CASE UNCHANGED vars
  <2>1. UNCHANGED <<chanVars, nr_open_channels, thrVars, callVars, histVars>>
    BY <1>1 DEF vars
  <2> QED  BY <2>1, ChanFrame, ThrFrame, CallFrame, HistFrame DEF IInv, TypeOK
<1>2. CASE Next
  BY <1>1, <1>2, RequestInv, CallStepInv, ExitInv, SamplerInv DEF Next, Gone
<1> QED  BY <1>1, <1>2

\* Type correctness: whatever calls race with each other and with the exit
\* handler, a channel's period is one a thread can serve and jobs are jobs.
THEOREM TypeCorrect == Spec => []TypeOK
<1>1. IInv => TypeOK
  BY DEF IInv
<1> QED  BY <1>1, InvInit, InvStep, PTL DEF Spec

\* A sampling thread never pops from an empty job queue, and ends only when it
\* has neither jobs nor channels left: the second look in removeThrDescriptor
\* makes up for the unlocked one in shallTerminate, for any number of threads
\* and callers.
THEOREM NoWorkLost == Spec => []NothingLeftBehind
<1>1. IInv => NothingLeftBehind
  BY DEF IInv
<1> QED  BY <1>1, InvInit, InvStep, PTL DEF Spec

-----------------------------------------------------------------------------
(* What the fast periodic counters promise, for every set of channels and  *)
(* periods: no event is lost or counted twice, exactly one thread samples  *)
(* an open channel, and a closed file accounts for every event and every   *)
(* interval.  The schedules are the ones in which the program's threads    *)
(* are joined before main returns ("exit" is not in Races).                *)

\* The program's own calls and closeAllChannels never work on a channel at
\* the same time, and closeAllChannels asks for deletions only.
CallersApart ==
  /\ pc[EXIT] \in {"run", "scan", "exited", "close", "unref", "wait", "closefile"}
  /\ pc[EXIT] = "wait" => then[EXIT] = "closefile"
  /\ \A c \in Chans :
       /\ on[c] = c
       /\ pc[c] \notin {"run", "scan", "exited"}
       /\ pc[EXIT] # "run" => pc[c] \in {"new", "idle", "defect"}

\* The caller of a job waits for it, and the channel is as the job wants it.
JobRight(j) ==
  /\ pc[j.by] = "wait"
  /\ ~jobCompleted[j.by]
  /\ on[j.by] = j.ch
  /\ j.type = "INSERT" => /\ then[j.by] = "idle"
                          /\ isRefCounted[j.ch]
                          /\ \A r \in Periods : j.ch \notin closures[r]
  /\ j.type = "MOVE" => /\ then[j.by] = "idle"
                        /\ isRefCounted[j.ch] => j.ch \in closures[period[j.ch]]
  /\ j.type = "DELETE" => then[j.by] = "closefile"

\* Job x is in the queue of the thread of period p,
Has(p, x) == \E i \in 1..Len(j_queue[p]) : j_queue[p][i] = x

\* or that thread is about to pass it on.
Carried(p, x) == tpc[p] = "pass" /\ moving[p] = x

\* A job is in the queue of the thread that its channel's period names.
JobsRight ==
  \A p \in Periods, x \in Job :
    /\ Has(p, x) => JobRight(x) /\ period[x.ch] = p
    /\ Carried(p, x) => JobRight(x) /\ x.type = "INSERT"

\* A caller has one job at a time, in one queue or on its way to one.
JobsApart ==
  /\ \A p \in Periods : \A i, n \in 1..Len(j_queue[p]) :
       j_queue[p][i].by = j_queue[p][n].by => i = n
  /\ \A p, q \in Periods, x, y \in Job :
       /\ Carried(p, x) /\ Has(q, y) => x.by # y.by
       /\ Carried(p, x) /\ Carried(q, y) /\ x.by = y.by => p = q

\* k has asked for the deletion of channel c and waits for it.
Deleting(k, c) ==
  on[k] = c /\ pc[k] = "wait" /\ then[k] = "closefile" /\ ~jobCompleted[k]

\* k has had channel c deleted and is about to close its file.
Deleted(k, c) ==
  /\ on[k] = c
  /\ pc[k] = "closefile" \/ (pc[k] = "wait" /\ then[k] = "closefile" /\ jobCompleted[k])

\* Which thread samples a channel, and when it is open
SampledRight ==
  \A c \in Chans :
    /\ \A p \in Periods : c \in closures[p] =>
         /\ p = period[c]
         /\ logf[c] = "open"
         /\ pc[c] # "insert"
         /\ isRefCounted[c] \/ \E k \in Callers : Deleting(k, c)
    /\ isRefCounted[c] /\ (pc[c] \in {"idle", "close", "unref"} \/ (pc[c] = "wait" /\ jobCompleted[c]))
         => c \in closures[period[c]]

OpenRight ==
  \A c \in Chans :
    /\ isRefCounted[c] => logf[c] = "open"
    /\ pc[c] = "insert" => isRefCounted[c]
    /\ pc[c] \in {"new", "defect"} => logf[c] = "none"
    /\ logf[c] = "open" /\ ~isRefCounted[c] =>
         \E k \in Callers : Deleting(k, c) \/ Deleted(k, c)

CloseRight ==
  \A k \in Callers :
    /\ pc[k] = "unref" => isRefCounted[on[k]]
    /\ Deleting(k, on[k]) => ~isRefCounted[on[k]] /\ logf[on[k]] = "open"
    /\ Deleted(k, on[k]) => /\ ~isRefCounted[on[k]]
                            /\ \A p \in Periods : on[k] \notin closures[p]

\* What is in the files
Accounted ==
  \A c \in Chans :
    /\ events[c] = ctr[c] + total_ctr[c]
    /\ out[c].sum = total_ctr[c]
    /\ intervals[c] = out[c].intervals + skipped[c]

\* Calls, jobs and channels agree,
AgreeInv ==
  /\ CallersApart /\ JobsRight /\ JobsApart
  /\ SampledRight /\ OpenRight /\ CloseRight

\* and the files are complete.
CountInv == IInv /\ AgreeInv /\ Accounted

\* The total at the end of a file, once the channel is deleted
TotalWritten(c) == ctr[c] = 0 /\ out[c].total = total_ctr[c]

TotalRight ==
  /\ \A c \in Chans : logf[c] = "closed" => TotalWritten(c) /\ handler_f[c] = "null"
  /\ \A k \in Callers, c \in Chans : Deleted(k, c) /\ logf[c] = "open" => TotalWritten(c)

-----------------------------------------------------------------------------
(* Jobs and queues.                                                        *)

Busy == {"insert", "close", "unref", "wait", "closefile"}

\* Two callers are never busy with one channel.
LEMMA Apart ==
  ASSUME CallersApart, NEW k \in Callers, NEW m \in Callers,
         on[k] = on[m], pc[k] \in Busy, pc[m] \in Busy
  PROVE  k = m
BY DEF CallersApart, Busy, Callers

\* What a step leaves alone of the state that a job depends on
Untouched(x) ==
  /\ pc'[x.by] = pc[x.by] /\ jobCompleted'[x.by] = jobCompleted[x.by]
  /\ on'[x.by] = on[x.by] /\ then'[x.by] = then[x.by]
  /\ isRefCounted'[x.ch] = isRefCounted[x.ch] /\ period'[x.ch] = period[x.ch]
  /\ \A r \in Periods : x.ch \in closures'[r] <=> x.ch \in closures[r]

\* A job that a step does not touch stays right.
LEMMA JobKept ==
  ASSUME NEW x \in Job, JobRight(x), Untouched(x), ChanTypes
  PROVE  JobRight(x)'
<1>1. period[x.ch] \in Periods
  BY DEF ChanTypes, Job
<1> QED  BY <1>1 DEF JobRight, Untouched

\* A step that adds no job and touches none that is left keeps all of them right.
LEMMA JobsKept ==
  ASSUME JobsRight, ChanTypes,
         \A p \in Periods, x \in Job :
           /\ Has(p, x)' => Has(p, x) /\ Untouched(x)
           /\ Carried(p, x)' => Carried(p, x) /\ Untouched(x)
  PROVE  JobsRight'
<1> SUFFICES ASSUME NEW p \in Periods, NEW x \in Job
             PROVE  /\ Has(p, x)' => JobRight(x)' /\ period'[x.ch] = p
                    /\ Carried(p, x)' => JobRight(x)' /\ x.type = "INSERT"
  BY DEF JobsRight
<1>1. CASE Has(p, x)'
  <2>1. Has(p, x) /\ Untouched(x)
    BY <1>1
  <2>2. JobRight(x) /\ period[x.ch] = p
    BY <2>1 DEF JobsRight
  <2>3. JobRight(x)' /\ period'[x.ch] = p
    BY <2>1, <2>2, JobKept DEF Untouched
  <2>4. Carried(p, x)' => x.type = "INSERT"
    BY DEF JobsRight
  <2> QED  BY <2>3, <2>4
<1>2. CASE Carried(p, x)'
  <2>1. Carried(p, x) /\ Untouched(x)
    BY <1>2
  <2>2. JobRight(x) /\ x.type = "INSERT"
    BY <2>1 DEF JobsRight
  <2>3. JobRight(x)'
    BY <2>1, <2>2, JobKept
  <2>4. Has(p, x)' => period'[x.ch] = p
    BY DEF JobsRight, Untouched
  <2> QED  BY <2>2, <2>3, <2>4
<1> QED  BY <1>1, <1>2

\* While the threads and their queues stay, so do the jobs.
LEMMA SameJobs ==
  ASSUME UNCHANGED <<j_queue, moving>>,
         \A p \in Periods : tpc'[p] = "pass" <=> tpc[p] = "pass"
  PROVE  /\ \A p \in Periods, x \in Job : Has(p, x)' <=> Has(p, x)
         /\ \A p \in Periods, x \in Job : Carried(p, x)' <=> Carried(p, x)
         /\ JobsApart => JobsApart'
<1>1. \A p \in Periods, x \in Job : Has(p, x)' <=> Has(p, x)
  BY DEF Has
<1>2. \A p \in Periods, x \in Job : Carried(p, x)' <=> Carried(p, x)
  BY DEF Carried
<1>3. JobsApart => JobsApart'
  BY <1>1, <1>2 DEF JobsApart
<1> QED  BY <1>1, <1>2, <1>3

\* The job that remove_job takes was in the queue, and is the only one of its
\* caller; the others stay.
LEMMA Taken ==
  ASSUME NEW p \in Periods, IInv, JobsApart, RemoveJob(p)
  PROVE  /\ Head(j_queue[p]) \in Job /\ Has(p, Head(j_queue[p]))
         /\ \A q \in Periods, x \in Job : Has(q, x)' => Has(q, x)
         /\ \A x \in Job : Has(p, x)' => x.by # Head(j_queue[p]).by
         /\ \A q \in Periods : \A i, n \in 1..Len(j_queue'[q]) :
              j_queue'[q][i].by = j_queue'[q][n].by => i = n
<1> DEFINE s == j_queue[p]
<1>1. s \in Seq(Job) /\ Head(s) \in Job /\ Len(s) \in Nat /\ Len(s) >= 1
  BY Popped, LenProperties DEF IInv, TypeOK
<1>2. Head(s) = s[1] /\ Len(Tail(s)) = Len(s) - 1
      /\ \A i \in 1..Len(Tail(s)) : Tail(s)[i] = s[i + 1]
  BY <1>1, EmptySeq, HeadTailProperties, Popped
<1>3. j_queue'[p] = Tail(s) /\ \A q \in Periods : q # p => j_queue'[q] = j_queue[q]
  BY DEF RemoveJob, IInv, TypeOK, ThrTypes
<1>4. \A i, n \in 1..Len(s) : s[i].by = s[n].by => i = n
  BY DEF JobsApart
<1>5. Has(p, Head(s))
  BY <1>1, <1>2 DEF Has
<1>6. \A i \in 1..Len(Tail(s)) : i + 1 \in 1..Len(s) /\ i + 1 # 1 /\ Tail(s)[i] = s[i + 1]
  BY <1>1, <1>2
<1>7. ASSUME NEW q \in Periods, NEW x \in Job, Has(q, x)'
      PROVE  Has(q, x) /\ (q = p => x.by # Head(s).by)
  <2>1. CASE q # p
    BY <1>3, <1>7, <2>1 DEF Has
  <2>2. CASE q = p
    <3>1. PICK i \in 1..Len(Tail(s)) : Tail(s)[i] = x
      BY <1>3, <1>7, <2>2 DEF Has
    <3>2. i + 1 \in 1..Len(s) /\ i + 1 # 1 /\ s[i + 1] = x
      BY <1>6, <3>1
    <3>3. 1 \in 1..Len(s)
      BY <1>1
    <3> QED  BY <1>2, <1>4, <2>2, <3>2, <3>3 DEF Has
  <2> QED  BY <2>1, <2>2
<1>8. ASSUME NEW q \in Periods, NEW i \in 1..Len(j_queue'[q]), NEW n \in 1..Len(j_queue'[q]),
             j_queue'[q][i].by = j_queue'[q][n].by
      PROVE  i = n
  <2>1. CASE q # p
    BY <1>3, <1>8, <2>1 DEF JobsApart
  <2>2. CASE q = p
    <3>1. i \in 1..Len(Tail(s)) /\ n \in 1..Len(Tail(s)) /\ Tail(s)[i].by = Tail(s)[n].by
      BY <1>3, <1>8, <2>2
    <3>2. i + 1 = n + 1
      BY <1>4, <1>6, <3>1
    <3> QED  BY <3>1, <3>2
  <2> QED  BY <2>1, <2>2
<1> QED  BY <1>1, <1>5, <1>7, <1>8

\* A job put in a queue whose jobs have other callers
LEMMA Added ==
  ASSUME NEW p \in Periods, NEW j \in Job, ThrTypes, JobsApart,
         j_queue' = [j_queue EXCEPT ![p] = Append(@, j)],
         \A x \in Job : Has(p, x) => x.by # j.by
  PROVE  /\ \A q \in Periods, x \in Job : Has(q, x)' => Has(q, x) \/ (q = p /\ x = j)
         /\ \A q \in Periods : \A i, n \in 1..Len(j_queue'[q]) :
              j_queue'[q][i].by = j_queue'[q][n].by => i = n
<1> DEFINE s == j_queue[p]
           l == Len(s)
           t == Append(s, j)
<1>1. s \in Seq(Job) /\ l \in Nat /\ \A i \in 1..l : s[i] \in Job
  BY LenProperties, ElementOfSeq DEF ThrTypes
<1>2. /\ Len(t) = l + 1 /\ t[l + 1] = j
      /\ \A i \in 1..l : t[i] = s[i]
  BY <1>1, AppendProperties
<1>3. j_queue'[p] = t /\ \A q \in Periods : q # p => j_queue'[q] = j_queue[q]
  BY DEF ThrTypes
<1>4. \A i \in 1..l : s[i].by # j.by
  BY <1>1 DEF Has
<1> HIDE DEF s, l, t
<1>5. \A i \in 1..Len(t) : (i \in 1..l /\ t[i] = s[i]) \/ (i = l + 1 /\ t[i] = j)
  BY <1>1, <1>2
<1>6. ASSUME NEW q \in Periods, NEW x \in Job, Has(q, x)'
      PROVE  Has(q, x) \/ (q = p /\ x = j)
  <2>1. CASE q # p
    BY <1>3, <1>6, <2>1 DEF Has
  <2>2. CASE q = p
    <3>1. PICK i \in 1..Len(t) : t[i] = x
      BY <1>3, <1>6, <2>2 DEF Has
    <3>2. x = j \/ (i \in 1..l /\ s[i] = x)
      BY <1>5, <3>1
    <3> QED  BY <2>2, <3>2 DEF Has, s, l
  <2> QED  BY <2>1, <2>2
<1>7. ASSUME NEW q \in Periods, NEW i \in 1..Len(j_queue'[q]), NEW n \in 1..Len(j_queue'[q]),
             j_queue'[q][i].by = j_queue'[q][n].by
      PROVE  i = n
  <2>1. CASE q # p
    BY <1>3, <1>7, <2>1 DEF JobsApart
  <2>2. CASE q = p
    <3>1. i \in 1..Len(t) /\ n \in 1..Len(t) /\ t[i].by = t[n].by
      BY <1>3, <1>7, <2>2
    <3>2. \A a, b \in 1..l : s[a].by = s[b].by => a = b
      BY DEF JobsApart, s, l
    <3> QED  BY <1>4, <1>5, <3>1, <3>2
  <2> QED  BY <2>1, <2>2
<1> QED  BY <1>6, <1>7

-----------------------------------------------------------------------------
(* The steps keep calls, jobs and channels in agreement.                   *)

\* Steps of the sampling threads that run no job, and logTS
LEMMA QuietAgree ==
  ASSUME IInv, AgreeInv, UNCHANGED <<callVars, j_queue, moving, closures>>,
         UNCHANGED <<period, isRefCounted, logf>>,
         \A p \in Periods : tpc'[p] = "pass" <=> tpc[p] = "pass"
  PROVE  AgreeInv'
<1> USE DEF callVars
<1>1. CallersApart'
  BY DEF AgreeInv, CallersApart
<1>2. \A x \in Job : Untouched(x)
  BY DEF Untouched
<1>3. JobsRight'
  BY <1>2, SameJobs, JobsKept DEF AgreeInv, IInv, TypeOK
<1>4. JobsApart'
  BY SameJobs DEF AgreeInv
<1>5. SampledRight'
  BY DEF AgreeInv, SampledRight, Deleting
<1>6. OpenRight'
  BY DEF AgreeInv, OpenRight, Deleting, Deleted
<1>7. CloseRight'
  BY DEF AgreeInv, CloseRight, Deleting, Deleted
<1> QED  BY <1>1, <1>3, <1>4, <1>5, <1>6, <1>7 DEF AgreeInv

\* A caller k moves to another place and the queues stay: the jobs stay
\* right unless k waits for one.
LEMMA PlaceAgree ==
  ASSUME IInv, JobsRight, JobsApart, NEW k \in Callers,
         ~(pc[k] = "wait" /\ ~jobCompleted[k]),
         UNCHANGED <<thrVars, period, jobCompleted, then>>,
         \A m \in Callers : m # k => pc'[m] = pc[m] /\ on'[m] = on[m],
         \A x \in Job : JobRight(x) => isRefCounted'[x.ch] = isRefCounted[x.ch]
  PROVE  JobsRight' /\ JobsApart'
<1>1. \A x \in Job : JobRight(x) => Untouched(x)
  BY DEF JobRight, Untouched, thrVars, Job
<1>2. \A p \in Periods : tpc'[p] = "pass" <=> tpc[p] = "pass"
  BY DEF thrVars
<1>3. JobsRight'
  <2>1. \A p \in Periods, x \in Job :
           /\ Has(p, x)' => Has(p, x) /\ Untouched(x)
           /\ Carried(p, x)' => Carried(p, x) /\ Untouched(x)
    BY <1>1, <1>2, SameJobs DEF JobsRight, thrVars
  <2> QED  BY <2>1, JobsKept DEF IInv, TypeOK
<1>4. JobsApart'
  BY <1>2, SameJobs DEF thrVars
<1> QED  BY <1>3, <1>4

\* openChannel: the channel is not sampled and has no job yet.
LEMMA OpenAgree ==
  ASSUME IInv, AgreeInv, NEW c \in Chans, OpenChannel(c)
  PROVE  AgreeInv'
<1> USE DEF OpenChannel
<1>1. c \in Callers /\ c # EXIT
  BY SetsAssumption DEF Callers
<1>2. /\ \A m \in Callers : m # c => pc'[m] = pc[m] /\ on'[m] = on[m]
      /\ \A d \in Chans : d # c => isRefCounted'[d] = isRefCounted[d] /\ logf'[d] = logf[d]
      /\ on' = on /\ jobCompleted' = jobCompleted /\ then' = then
      /\ closures' = closures /\ period' = period
      /\ \/ pc'[c] = "defect" /\ logf' = logf /\ isRefCounted' = isRefCounted
         \/ pc'[c] = "insert" /\ logf'[c] = "open" /\ isRefCounted'[c] = TRUE
  BY <1>1 DEF IInv, TypeOK, CallTypes, ChanTypes, thrVars
<1>3. /\ \A x \in Job : JobRight(x) => x.ch # c
      /\ \A m \in Callers : m # EXIT => on[m] = m
      /\ pc[EXIT] = "run" /\ pc[c] = "new" /\ on[c] = c
  BY DEF JobRight, Job, AgreeInv, CallersApart, Callers
<1>4. JobsRight' /\ JobsApart'
  <2>1. \A x \in Job : JobRight(x) => isRefCounted'[x.ch] = isRefCounted[x.ch]
    BY <1>2, <1>3 DEF Job
  <2> QED  BY <1>1, <1>2, <1>3, <2>1, PlaceAgree DEF AgreeInv
<1> HIDE DEF OpenChannel
<1>5. CallersApart'
  BY <1>1, <1>2, <1>3 DEF AgreeInv, CallersApart, Callers
<1>6. \A d \in Chans, m \in Callers : /\ d # c /\ Deleting(m, d) => Deleting(m, d)'
                                      /\ d # c /\ Deleted(m, d) => Deleted(m, d)'
                                      /\ Deleting(m, d)' => Deleting(m, d)
                                      /\ Deleted(m, d)' => Deleted(m, d)
                                      /\ Deleting(m, d) => d # c
                                      /\ Deleted(m, d) => d # c
  BY <1>1, <1>2, <1>3 DEF Deleting, Deleted
<1>7. logf[c] = "none" /\ ~isRefCounted[c] /\ \A p \in Periods : c \notin closures[p]
  BY <1>3 DEF AgreeInv, OpenRight, SampledRight
<1>8. SampledRight'
  BY <1>1, <1>2, <1>3, <1>6, <1>7 DEF AgreeInv, SampledRight, Callers
<1>9. OpenRight'
  BY <1>1, <1>2, <1>3, <1>6, <1>7 DEF AgreeInv, OpenRight, Callers
<1>10. CloseRight'
  BY <1>1, <1>2, <1>3, <1>6, <1>7 DEF AgreeInv, CloseRight, IInv, TypeOK, CallTypes
<1> QED  BY <1>4, <1>5, <1>8, <1>9, <1>10 DEF AgreeInv

\* A caller that is not deleting a channel goes on to another place.
LEMMA PlaceOnly ==
  ASSUME IInv, AgreeInv, NEW k \in Callers,
         ~(pc[k] = "wait" /\ ~jobCompleted[k]),
         UNCHANGED <<thrVars, period, jobCompleted, then, isRefCounted, logf>>,
         \A m \in Callers : m # k => pc'[m] = pc[m] /\ on'[m] = on[m],
         CallersApart',
         on' \in [Callers -> Chans],
         \A c \in Chans : Deleted(k, c) => Deleted(k, c)',
         \A c \in Chans : Deleted(k, c)' =>
           ~isRefCounted[c] /\ \A p \in Periods : c \notin closures[p],
         pc'[k] \notin {"wait", "insert", "new", "defect"},
         pc'[k] = "unref" => isRefCounted[on'[k]],
         k \in Chans /\ isRefCounted[k] /\ pc'[k] \in {"idle", "close", "unref"}
           => k \in closures[period[k]]
  PROVE  AgreeInv'
<1>1. JobsRight' /\ JobsApart'
  <2>1. \A x \in Job : JobRight(x) => isRefCounted'[x.ch] = isRefCounted[x.ch]
    OBVIOUS
  <2> QED  BY <2>1, PlaceAgree DEF AgreeInv
<1>2. \A c \in Chans, m \in Callers :
        /\ Deleting(m, c)' <=> Deleting(m, c)
        /\ Deleted(m, c) => Deleted(m, c)'
        /\ Deleted(m, c)' => Deleted(m, c) \/ (~isRefCounted[c] /\ \A p \in Periods : c \notin closures[p])
  BY DEF Deleting, Deleted
<1>3. closures' = closures /\ Chans \subseteq Callers
  BY DEF thrVars, Callers
<1>4. SampledRight'
  BY <1>2, <1>3 DEF AgreeInv, SampledRight
<1>5. OpenRight'
  BY <1>2, <1>3 DEF AgreeInv, OpenRight
<1>6. CloseRight'
  <2> SUFFICES ASSUME NEW m \in Callers
               PROVE  /\ pc'[m] = "unref" => isRefCounted'[on'[m]]
                      /\ Deleting(m, on[m])' => ~isRefCounted'[on'[m]] /\ logf'[on'[m]] = "open"
                      /\ Deleted(m, on[m])' => /\ ~isRefCounted'[on'[m]]
                                               /\ \A p \in Periods : on'[m] \notin closures'[p]
    BY DEF CloseRight
  <2>1. on'[m] \in Chans /\ (m # k => on'[m] = on[m] /\ pc'[m] = pc[m])
    OBVIOUS
  <2>2. \A c \in Chans : /\ Deleting(m, c) => ~isRefCounted[c] /\ logf[c] = "open"
                         /\ Deleted(m, c) => ~isRefCounted[c] /\ \A p \in Periods : c \notin closures[p]
    BY DEF AgreeInv, CloseRight, Deleting, Deleted
  <2>3. pc'[m] = "unref" => isRefCounted'[on'[m]]
    BY <2>1 DEF AgreeInv, CloseRight
  <2>4. \A c \in Chans : /\ Deleting(m, c)' => ~isRefCounted'[c] /\ logf'[c] = "open"
                         /\ Deleted(m, c)' => ~isRefCounted'[c] /\ \A p \in Periods : c \notin closures'[p]
    BY <1>2, <1>3, <2>2
  <2> QED  BY <2>1, <2>3, <2>4 DEF Deleting, Deleted
<1> QED  BY <1>1, <1>4, <1>5, <1>6 DEF AgreeInv

\* closeChannel of the program's own threads begins.
LEMMA CloseChannelAgree ==
  ASSUME IInv, AgreeInv, "exit" \notin Races, NEW c \in Chans, CloseChannel(c)
  PROVE  AgreeInv'
<1>1. c \in Callers /\ c # EXIT
  BY SetsAssumption DEF Callers
<1>2. /\ pc[c] = "idle" /\ pc'[c] = "close" /\ pc[EXIT] = "run"
      /\ \A m \in Callers : m # c => pc'[m] = pc[m]
      /\ on' = on /\ on \in [Callers -> Chans]
      /\ UNCHANGED <<thrVars, period, jobCompleted, then, isRefCounted, logf>>
  BY <1>1 DEF CloseChannel, AppRunning, IInv, TypeOK, CallTypes, chanVars
<1>3. CallersApart'
  BY <1>1, <1>2 DEF AgreeInv, CallersApart, Callers
<1>4. \A d \in Chans : ~Deleted(c, d) /\ ~Deleted(c, d)'
  BY <1>2 DEF Deleted
<1>5. isRefCounted[c] => c \in closures[period[c]]
  BY <1>2 DEF AgreeInv, SampledRight
<1> QED  BY <1>1, <1>2, <1>3, <1>4, <1>5, PlaceOnly

\* closeChannel has counted the channel out, or found it closed.
LEMMA CloseCountAgree ==
  ASSUME IInv, AgreeInv, NEW k \in Callers, CloseCount(k)
  PROVE  AgreeInv'
<1>2. /\ pc[k] = "close" /\ on' = on /\ on \in [Callers -> Chans]
      /\ pc'[k] = IF isRefCounted[on[k]] THEN "unref" ELSE "closefile"
      /\ \A m \in Callers : m # k => pc'[m] = pc[m]
      /\ UNCHANGED <<thrVars, period, jobCompleted, then, isRefCounted, logf>>
  BY DEF CloseCount, IInv, TypeOK, CallTypes, chanVars
<1>3. CallersApart'
  BY <1>2 DEF AgreeInv, CallersApart, Callers
<1>4. ~isRefCounted[on[k]] => \A p \in Periods : on[k] \notin closures[p]
  <2>1. \A m \in Callers : ~Deleting(m, on[k])
    BY <1>2, Apart DEF Deleting, AgreeInv, Busy
  <2> QED  BY <1>2, <2>1 DEF AgreeInv, SampledRight
<1>5. \A d \in Chans : /\ ~Deleted(k, d)
                       /\ Deleted(k, d)' => ~isRefCounted[d] /\ d = on[k]
  BY <1>2 DEF Deleted
<1>6. k \in Chans /\ isRefCounted[k] => k \in closures[period[k]]
  BY <1>2 DEF AgreeInv, SampledRight
<1>7. pc'[k] \in {"unref", "closefile"} /\ (pc'[k] = "unref" => isRefCounted[on'[k]])
  BY <1>2
<1> QED  BY <1>2, <1>3, <1>4, <1>5, <1>6, <1>7, PlaceOnly

\* A caller's job is done and it goes on.
LEMMA WaitAgree ==
  ASSUME IInv, AgreeInv, NEW k \in Callers, WaitCompletion(k)
  PROVE  AgreeInv'
<1>2. /\ pc[k] = "wait" /\ jobCompleted[k] /\ pc'[k] = then[k]
      /\ on' = on /\ on \in [Callers -> Chans] /\ then[k] \in {"idle", "closefile"}
      /\ \A m \in Callers : m # k => pc'[m] = pc[m]
      /\ UNCHANGED <<thrVars, period, jobCompleted, then, isRefCounted, logf>>
  BY DEF WaitCompletion, IInv, TypeOK, CallTypes, chanVars
<1>3. CallersApart'
  BY <1>2 DEF AgreeInv, CallersApart, Callers
<1>4. \A d \in Chans : Deleted(k, d)' <=> Deleted(k, d)
  BY <1>2 DEF Deleted
<1>5. \A d \in Chans : Deleted(k, d) => ~isRefCounted[d] /\ \A p \in Periods : d \notin closures[p]
  BY DEF AgreeInv, CloseRight, Deleted
<1>6. k \in Chans /\ isRefCounted[k] => k \in closures[period[k]]
  BY <1>2 DEF AgreeInv, SampledRight
<1> QED  BY <1>2, <1>3, <1>4, <1>5, <1>6, PlaceOnly

\* closeAllChannels starts, takes the next channel and is done.
LEMMA ExitAgree ==
  ASSUME IInv, AgreeInv, "exit" \notin Races, Exit \/ ExitStep
  PROVE  AgreeInv'
<1>1. EXIT \in Callers /\ EXIT \notin Chans
  BY SetsAssumption DEF Callers
<1>2. /\ pc[EXIT] \in {"run", "scan"} /\ pc'[EXIT] \in {"scan", "close", "exited"}
      /\ on' \in [Callers -> Chans]
      /\ \A m \in Callers : m # EXIT => pc'[m] = pc[m] /\ on'[m] = on[m]
      /\ UNCHANGED <<thrVars, period, jobCompleted, then, isRefCounted, logf>>
      /\ pc[EXIT] = "run" => \A c \in Chans : pc[c] \in {"new", "idle", "defect"}
  <2>1. CASE Exit
    BY <1>1, <2>1 DEF Exit, IInv, TypeOK, CallTypes, chanVars
  <2>2. CASE Exited
    BY <1>1, <2>2 DEF Exited, IInv, TypeOK, CallTypes, chanVars
  <2>3. CASE \E c \in Chans : ExitClose(c)
    BY <1>1, <2>3 DEF ExitClose, IInv, TypeOK, CallTypes, chanVars
  <2> QED  BY <2>1, <2>2, <2>3 DEF ExitStep
<1>3. CallersApart'
  BY <1>1, <1>2 DEF AgreeInv, CallersApart, Callers
<1>4. \A d \in Chans : ~Deleted(EXIT, d)' /\ ~Deleted(EXIT, d)
  BY <1>1, <1>2 DEF Deleted
<1> QED  BY <1>1, <1>2, <1>3, <1>4, PlaceOnly

\* The file is closed.
LEMMA CloseFileAgree ==
  ASSUME IInv, AgreeInv, NEW k \in Callers, CloseFile(k)
  PROVE  AgreeInv'
<1> DEFINE c == on[k]
<1>1. c \in Chans /\ Chans \subseteq Callers
  BY DEF IInv, TypeOK, CallTypes, Callers
<1>2. /\ pc[k] = "closefile" /\ on' = on /\ on \in [Callers -> Chans]
      /\ pc'[k] \in {"scan", "idle"} /\ (k # EXIT => pc'[k] = "idle") /\ (k = EXIT => pc'[k] = "scan")
      /\ \A m \in Callers : m # k => pc'[m] = pc[m]
      /\ logf'[c] # "open" /\ (logf[c] # "open" => logf'[c] = logf[c])
      /\ \A d \in Chans : d # c => logf'[d] = logf[d]
      /\ closures' = closures
      /\ UNCHANGED <<thrVars, period, jobCompleted, then, isRefCounted>>
  BY <1>1 DEF CloseFile, IInv, TypeOK, CallTypes, ChanTypes, thrVars
<1>3. CallersApart'
  BY <1>2 DEF AgreeInv, CallersApart, Callers
<1>4. Deleted(k, c) /\ ~isRefCounted[c] /\ \A p \in Periods : c \notin closures[p]
  BY <1>2 DEF Deleted, AgreeInv, CloseRight
<1>5. JobsRight' /\ JobsApart'
  <2>1. \A x \in Job : JobRight(x) => isRefCounted'[x.ch] = isRefCounted[x.ch]
    BY <1>2
  <2> QED  BY <1>2, <2>1, PlaceAgree DEF AgreeInv
<1>6. \A d \in Chans, m \in Callers :
        /\ Deleting(m, d)' <=> Deleting(m, d)
        /\ Deleted(m, d)' <=> Deleted(m, d) /\ m # k
        /\ m # k => ~Deleting(m, c) /\ ~Deleted(m, c)
        /\ Deleted(k, d) => d = c
  <2>1. \A m \in Callers : m # k => ~Deleting(m, c) /\ ~Deleted(m, c)
    BY <1>2, Apart DEF AgreeInv, Busy, Deleting, Deleted
  <2> QED  BY <1>2, <2>1 DEF Deleting, Deleted
<1> HIDE DEF c
<1>7. SampledRight'
  <2> SUFFICES ASSUME NEW d \in Chans
               PROVE  /\ \A p \in Periods : d \in closures'[p] =>
                           /\ p = period'[d] /\ logf'[d] = "open" /\ pc'[d] # "insert"
                           /\ isRefCounted'[d] \/ \E m \in Callers : Deleting(m, d)'
                      /\ isRefCounted'[d] /\ (pc'[d] \in {"idle", "close", "unref"}
                                              \/ (pc'[d] = "wait" /\ jobCompleted'[d]))
                           => d \in closures'[period'[d]]
    BY DEF SampledRight
  <2>1. d # k => pc'[d] = pc[d]
    BY <1>1, <1>2
  <2>2. k \in Chans => c = k
    BY DEF AgreeInv, CallersApart, c
  <2>3. CASE d = c
    BY <1>2, <1>4, <2>3
  <2>4. CASE d # c
    BY <1>2, <1>6, <2>1, <2>2, <2>4 DEF AgreeInv, SampledRight
  <2> QED  BY <2>3, <2>4
<1>8. OpenRight'
  <2>1. pc[c] \in {"new", "defect"} => logf[c] = "none"
    BY <1>1 DEF AgreeInv, OpenRight
  <2> QED  BY <1>1, <1>2, <1>4, <1>6, <2>1 DEF AgreeInv, OpenRight
<1>9. CloseRight'
  <2> SUFFICES ASSUME NEW m \in Callers
               PROVE  /\ pc'[m] = "unref" => isRefCounted'[on'[m]]
                      /\ Deleting(m, on[m])' => ~isRefCounted'[on'[m]] /\ logf'[on'[m]] = "open"
                      /\ Deleted(m, on[m])' => /\ ~isRefCounted'[on'[m]]
                                               /\ \A p \in Periods : on'[m] \notin closures'[p]
    BY DEF CloseRight
  <2>1. /\ pc'[m] = "unref" => pc[m] = "unref"
        /\ Deleting(m, on[m])' => Deleting(m, on[m]) /\ on[m] # c
        /\ Deleted(m, on[m])' => Deleted(m, on[m])
    BY <1>2, <1>6 DEF Deleting, Deleted
  <2> QED  BY <1>2, <2>1 DEF AgreeInv, CloseRight
<1> QED  BY <1>3, <1>5, <1>7, <1>8, <1>9 DEF AgreeInv

\* A caller hands over a job that is right.
LEMMA SubmitJobs ==
  ASSUME IInv, AgreeInv, NEW k \in Callers, pc[k] # "wait",
         NEW j \in Job, j.by = k, NEW next, Submit(k, next),
         \/ j_queue' = [j_queue EXCEPT ![period[j.ch]] = Append(@, j)]
         \/ j_queue' = j_queue,
         \A p \in Periods : tpc'[p] = "pass" <=> tpc[p] = "pass",
         UNCHANGED <<moving, closures, period>>,
         \A x \in Job : JobRight(x) => isRefCounted'[x.ch] = isRefCounted[x.ch],
         JobRight(j)'
  PROVE  JobsRight' /\ JobsApart'
<1>1. /\ \A m \in Callers : m # k => /\ pc'[m] = pc[m] /\ then'[m] = then[m]
                                     /\ jobCompleted'[m] = jobCompleted[m]
      /\ on' = on
  BY DEF Submit, IInv, TypeOK, CallTypes
<1>2. \A p \in Periods, x \in Job : Has(p, x) \/ Carried(p, x) => x.by # k
  BY DEF AgreeInv, JobsRight, JobRight
<1>3. \A x \in Job : JobRight(x) => Untouched(x)
  BY <1>1 DEF JobRight, Untouched, Job
<1>4. \A p \in Periods, x \in Job : Carried(p, x)' <=> Carried(p, x)
  BY DEF Carried
<1>5. period[j.ch] \in Periods
  BY DEF IInv, TypeOK, ChanTypes, Job
<1>6. /\ \A q \in Periods, x \in Job : Has(q, x)' => Has(q, x) \/ (q = period[j.ch] /\ x = j)
      /\ \A q \in Periods : \A i, n \in 1..Len(j_queue'[q]) :
              j_queue'[q][i].by = j_queue'[q][n].by => i = n
  <2>1. CASE j_queue' = j_queue
    BY <2>1 DEF Has, AgreeInv, JobsApart
  <2>2. CASE j_queue' = [j_queue EXCEPT ![period[j.ch]] = Append(@, j)]
    BY <1>2, <1>5, <2>2, Added DEF AgreeInv, IInv, TypeOK
  <2> QED  BY <2>1, <2>2
<1>7. JobsRight'
  <2> SUFFICES ASSUME NEW p \in Periods, NEW x \in Job
               PROVE  /\ Has(p, x)' => JobRight(x)' /\ period'[x.ch] = p
                      /\ Carried(p, x)' => JobRight(x)' /\ x.type = "INSERT"
    BY DEF JobsRight
  <2>1. JobRight(x) => JobRight(x)'
    BY <1>3, JobKept DEF IInv, TypeOK
  <2>2. /\ Has(p, x) => JobRight(x) /\ period[x.ch] = p
        /\ Carried(p, x) => JobRight(x) /\ x.type = "INSERT"
    BY DEF AgreeInv, JobsRight
  <2> QED  BY <1>4, <1>6, <2>1, <2>2
<1>8. JobsApart'
  <2>1. \A p, q \in Periods, x, y \in Job :
          /\ Carried(p, x)' /\ Has(q, y)' => x.by # y.by
          /\ Carried(p, x)' /\ Carried(q, y)' /\ x.by = y.by => p = q
    BY <1>2, <1>4, <1>6 DEF AgreeInv, JobsApart
  <2> QED  BY <1>6, <2>1 DEF JobsApart
<1> QED  BY <1>7, <1>8

\* A channel of the program asks to be sampled, or to be sampled at another
\* period.
LEMMA AskAgree ==
  ASSUME IInv, AgreeInv, "exit" \notin Races, NEW c \in Chans,
         InsertChannel(c) \/ \E p \in Periods : SetArg(c, p)
  PROVE  AgreeInv'
<1>1. c \in Callers /\ c # EXIT /\ Chans \subseteq Callers
  BY SetsAssumption DEF Callers
<1>2. PICK j \in Job :
        /\ j.by = c /\ j.ch = c
        /\ \/ pc[c] = "insert" /\ j.type = "INSERT"
           \/ pc[c] = "idle" /\ j.type = "MOVE" /\ pc[EXIT] = "run"
        /\ enqueueJobWithThrDescriptor(period[c], j)
        /\ Submit(c, "idle")
        /\ UNCHANGED <<chanVars, closures, moving>>
  <2>1. CASE InsertChannel(c)
    <3>1. NewJob(c, "INSERT", period[c]) \in Job
      BY <1>1, Made DEF IInv, TypeOK, ChanTypes
    <3>2. on[c] = c
      BY DEF AgreeInv, CallersApart
    <3> WITNESS NewJob(c, "INSERT", period[c]) \in Job
    <3> QED  BY <2>1, <3>2 DEF InsertChannel, NewJob
  <2>2. ASSUME NEW p \in Periods, SetArg(c, p)
        PROVE  \E j \in Job :
                 /\ j.by = c /\ j.ch = c
                 /\ \/ pc[c] = "insert" /\ j.type = "INSERT"
                    \/ pc[c] = "idle" /\ j.type = "MOVE" /\ pc[EXIT] = "run"
                 /\ enqueueJobWithThrDescriptor(period[c], j)
                 /\ Submit(c, "idle")
                 /\ UNCHANGED <<chanVars, closures, moving>>
    <3>1. NewJob(c, "MOVE", p) \in Job
      BY <1>1, Made DEF IInv, TypeOK
    <3>2. on[c] = c
      BY DEF AgreeInv, CallersApart
    <3> WITNESS NewJob(c, "MOVE", p) \in Job
    <3> QED  BY <2>2, <3>2 DEF SetArg, NewJob, AppRunning
  <2> QED  BY <2>1, <2>2
<1>3. /\ pc'[c] = "wait" /\ then'[c] = "idle" /\ ~jobCompleted'[c] /\ on' = on /\ on[c] = c
      /\ \A m \in Callers : m # c => /\ pc'[m] = pc[m] /\ then'[m] = then[m]
                                     /\ jobCompleted'[m] = jobCompleted[m]
      /\ UNCHANGED <<closures, period, isRefCounted, logf>>
      /\ pc[EXIT] = "run"
  BY <1>1, <1>2 DEF Submit, IInv, TypeOK, CallTypes, AgreeInv, CallersApart, chanVars
<1>4. JobsRight' /\ JobsApart'
  <2>1. \A p \in Periods : tpc'[p] = "pass" <=> tpc[p] = "pass"
    BY <1>2 DEF enqueueJobWithThrDescriptor, IInv, TypeOK, ThrTypes
  <2>2. JobRight(j)'
    BY <1>2, <1>3 DEF JobRight, AgreeInv, SampledRight, OpenRight
  <2>3. j_queue' = [j_queue EXCEPT ![period[j.ch]] = Append(@, j)]
    BY <1>2 DEF enqueueJobWithThrDescriptor
  <2>4. \A x \in Job : JobRight(x) => isRefCounted'[x.ch] = isRefCounted[x.ch]
    BY <1>3
  <2> QED  BY <1>1, <1>2, <1>3, <2>1, <2>2, <2>3, <2>4, SubmitJobs
<1>5. CallersApart'
  BY <1>1, <1>3 DEF AgreeInv, CallersApart, Callers
<1>6. \A d \in Chans, m \in Callers : /\ Deleting(m, d)' <=> Deleting(m, d)
                                      /\ Deleted(m, d)' <=> Deleted(m, d)
  BY <1>2, <1>3 DEF Deleting, Deleted
<1>7. SampledRight'
  BY <1>1, <1>2, <1>3, <1>6 DEF AgreeInv, SampledRight
<1>8. OpenRight'
  BY <1>1, <1>2, <1>3, <1>6 DEF AgreeInv, OpenRight
<1>9. CloseRight'
  <2>1. \A m \in Callers : /\ pc'[m] = "unref" => pc[m] = "unref"
                           /\ Deleting(m, on[m])' => Deleting(m, on[m])
                           /\ Deleted(m, on[m])' => Deleted(m, on[m])
    BY <1>2, <1>3 DEF Deleting, Deleted
  <2> QED  BY <1>3, <2>1 DEF AgreeInv, CloseRight
<1> QED  BY <1>4, <1>5, <1>7, <1>8, <1>9 DEF AgreeInv

\* A caller asks for a channel's deletion.
LEMMA CloseDeleteAgree ==
  ASSUME IInv, AgreeInv, NEW k \in Callers, CloseDelete(k)
  PROVE  AgreeInv'
<1> DEFINE c == on[k]
           j == NewJob(k, "DELETE", period[c])
<1>1. c \in Chans /\ j \in Job /\ Chans \subseteq Callers /\ period[c] \in Periods
  BY Made DEF IInv, TypeOK, ChanTypes, CallTypes, Callers
<1>2. /\ pc[k] = "unref"
      /\ pc'[k] = "wait" /\ then'[k] = "closefile" /\ ~jobCompleted'[k] /\ on' = on
      /\ \A m \in Callers : m # k => /\ pc'[m] = pc[m] /\ then'[m] = then[m]
                                     /\ jobCompleted'[m] = jobCompleted[m]
      /\ UNCHANGED <<closures, period, logf, moving, tpc>>
      /\ ~isRefCounted'[c] /\ \A d \in Chans : d # c => isRefCounted'[d] = isRefCounted[d]
  BY <1>1 DEF CloseDelete, Submit, IInv, TypeOK, CallTypes, ChanTypes, dequeueJobFromThrDescriptor
<1>3. isRefCounted[c] /\ logf[c] = "open"
  BY <1>1, <1>2 DEF AgreeInv, CloseRight, OpenRight
<1>4. \A m \in Callers : m # k => ~(on[m] = c /\ pc[m] \in Busy)
  BY <1>2, Apart DEF AgreeInv, Busy
<1>5. JobsRight' /\ JobsApart'
  <2>1. PICK y \in Job : y = j
    BY <1>1
  <2>2. y.by = k /\ y.ch = c /\ y.type = "DELETE"
    BY <2>1 DEF NewJob
  <2>3. JobRight(y)'
    BY <1>2, <2>2 DEF JobRight
  <2>4. \A x \in Job : JobRight(x) => isRefCounted'[x.ch] = isRefCounted[x.ch]
    BY <1>2, <1>4 DEF JobRight, Busy, Job
  <2>5. \/ j_queue' = [j_queue EXCEPT ![period[y.ch]] = Append(@, y)]
        \/ j_queue' = j_queue
    BY <2>1, <2>2 DEF CloseDelete, dequeueJobFromThrDescriptor
  <2>6. Submit(k, "closefile")
    BY DEF CloseDelete
  <2> QED  BY <1>2, <2>2, <2>3, <2>4, <2>5, <2>6, SubmitJobs
<1>6. CallersApart'
  BY <1>2 DEF AgreeInv, CallersApart, Callers
<1>7. \A d \in Chans, m \in Callers :
        /\ m # k \/ d # c => (Deleting(m, d)' <=> Deleting(m, d))
        /\ Deleted(m, d)' <=> Deleted(m, d)
        /\ d = c => Deleting(k, d)'
  BY <1>2 DEF Deleting, Deleted
<1> HIDE DEF c
<1>8. SampledRight'
  <2> SUFFICES ASSUME NEW d \in Chans
               PROVE  /\ \A p \in Periods : d \in closures'[p] =>
                           /\ p = period'[d] /\ logf'[d] = "open" /\ pc'[d] # "insert"
                           /\ isRefCounted'[d] \/ \E m \in Callers : Deleting(m, d)'
                      /\ isRefCounted'[d] /\ (pc'[d] \in {"idle", "close", "unref"}
                                              \/ (pc'[d] = "wait" /\ jobCompleted'[d]))
                           => d \in closures'[period'[d]]
    BY DEF SampledRight
  <2>1. /\ pc'[d] # "insert" \/ pc'[d] = pc[d]
        /\ d # c => d # k
    BY <1>1, <1>2 DEF AgreeInv, CallersApart, c
  <2>2. CASE d = c
    BY <1>2, <1>3, <1>7, <2>1, <2>2 DEF AgreeInv, SampledRight
  <2>3. CASE d # c
    BY <1>1, <1>2, <1>7, <2>1, <2>3 DEF AgreeInv, SampledRight
  <2> QED  BY <2>2, <2>3
<1>9. OpenRight'
  <2> SUFFICES ASSUME NEW d \in Chans
               PROVE  /\ isRefCounted'[d] => logf'[d] = "open"
                      /\ pc'[d] = "insert" => isRefCounted'[d]
                      /\ pc'[d] \in {"new", "defect"} => logf'[d] = "none"
                      /\ logf'[d] = "open" /\ ~isRefCounted'[d] =>
                           \E m \in Callers : Deleting(m, d)' \/ Deleted(m, d)'
    BY DEF OpenRight
  <2>1. pc[d] # "insert" \/ d # c
    BY <1>1, <1>2, <1>4 DEF AgreeInv, CallersApart, c, Busy
  <2>2. (d # k => pc'[d] = pc[d]) /\ (d # c => d # k)
    BY <1>1, <1>2 DEF AgreeInv, CallersApart, c
  <2>3. CASE d = c
    BY <1>1, <1>2, <1>3, <1>7, <2>1, <2>2, <2>3 DEF AgreeInv, OpenRight
  <2>4. CASE d # c
    BY <1>1, <1>2, <1>7, <2>2, <2>4 DEF AgreeInv, OpenRight
  <2> QED  BY <2>3, <2>4
<1>10. CloseRight'
  <2> SUFFICES ASSUME NEW m \in Callers
               PROVE  /\ pc'[m] = "unref" => isRefCounted'[on'[m]]
                      /\ Deleting(m, on[m])' => ~isRefCounted'[on'[m]] /\ logf'[on'[m]] = "open"
                      /\ Deleted(m, on[m])' => /\ ~isRefCounted'[on'[m]]
                                               /\ \A p \in Periods : on'[m] \notin closures'[p]
    BY DEF CloseRight
  <2>1. CASE m = k
    BY <1>2, <1>3, <2>1 DEF c, Deleted
  <2>2. CASE m # k
    <3>1. on[m] \in Chans /\ (pc[m] \in Busy => on[m] # c)
      BY <1>4, <2>2 DEF IInv, TypeOK, CallTypes
    <3>2. /\ pc'[m] = pc[m]
          /\ Deleting(m, on[m])' => Deleting(m, on[m]) /\ pc[m] \in Busy
          /\ Deleted(m, on[m])' => Deleted(m, on[m]) /\ pc[m] \in Busy
      BY <1>2, <2>2 DEF Deleting, Deleted, Busy
    <3> QED  BY <1>2, <3>1, <3>2 DEF AgreeInv, CloseRight, Busy
  <2> QED  BY <2>1, <2>2
<1> QED  BY <1>5, <1>6, <1>8, <1>9, <1>10 DEF AgreeInv

\* The other jobs have other callers and other channels than the one taken.
LEMMA Others ==
  ASSUME IInv, AgreeInv, NEW p \in Periods, RemoveJob(p),
         NEW y \in Job, y = Head(j_queue[p])
  PROVE  /\ JobRight(y) /\ period[y.ch] = p
         /\ \A q \in Periods, x \in Job :
              /\ Has(q, x)' => Has(q, x) /\ x.by # y.by /\ x.ch # y.ch
              /\ Carried(q, x) => q # p /\ x.by # y.by /\ x.ch # y.ch
<1>1. Has(p, y)
  BY Taken DEF AgreeInv
<1>2. JobRight(y) /\ period[y.ch] = p
  BY <1>1 DEF AgreeInv, JobsRight
<1>3. \A x \in Job : JobRight(x) /\ x.by # y.by => x.ch # y.ch
  BY <1>2, Apart DEF AgreeInv, JobRight, Busy, Job
<1>4. \A q \in Periods, x \in Job : Has(q, x)' => Has(q, x) /\ x.by # y.by
  <2> SUFFICES ASSUME NEW q \in Periods, NEW x \in Job, Has(q, x)'
               PROVE  Has(q, x) /\ x.by # y.by
    OBVIOUS
  <2>1. Has(q, x) /\ (q = p => x.by # y.by)
    BY Taken DEF AgreeInv
  <2>2. JobRight(x) /\ period[x.ch] = q
    BY <2>1 DEF AgreeInv, JobsRight
  <2>3. x.by = y.by => x.ch = y.ch
    BY <1>2, <2>2 DEF JobRight
  <2> QED  BY <1>2, <2>1, <2>2, <2>3
<1>5. \A q \in Periods, x \in Job : Carried(q, x) => q # p /\ x.by # y.by
  BY <1>1 DEF AgreeInv, JobsApart, Carried, RemoveJob
<1> QED  BY <1>2, <1>3, <1>4, <1>5 DEF AgreeInv, JobsRight

\* A job is done and its caller told.
LEMMA DoneJobs ==
  ASSUME IInv, AgreeInv, NEW p \in Periods, RemoveJob(p),
         NEW y \in Job, y = Head(j_queue[p]), signalCompletion(y),
         tpc' = [tpc EXCEPT ![p] = NextJob(p)],
         \A r \in Periods, d \in Chans :
           d # y.ch => (d \in closures'[r] <=> d \in closures[r]),
         UNCHANGED <<moving, isRefCounted, period>>
  PROVE  /\ JobsRight' /\ JobsApart' /\ CallersApart'
         /\ jobCompleted'[y.by] = TRUE
         /\ \A m \in Callers : m # y.by => jobCompleted'[m] = jobCompleted[m]
<1>1. /\ jobCompleted'[y.by] = TRUE /\ UNCHANGED <<pc, on, then>>
      /\ \A m \in Callers : m # y.by => jobCompleted'[m] = jobCompleted[m]
  BY DEF signalCompletion, IInv, TypeOK, CallTypes, Job
<1>2. /\ tpc[p] = "job" /\ tpc'[p] # "pass"
      /\ \A q \in Periods : q # p => tpc'[q] = tpc[q]
  BY DEF RemoveJob, NextJob, IInv, TypeOK, ThrTypes
<1>3. \A q \in Periods, x \in Job : Carried(q, x)' <=> Carried(q, x)
  BY <1>2 DEF Carried
<1>4. JobsRight'
  <2>1. \A x \in Job : x.by # y.by /\ x.ch # y.ch => Untouched(x)
    BY <1>1 DEF Untouched, Job
  <2>2. \A q \in Periods, x \in Job :
           /\ Has(q, x)' => Has(q, x) /\ Untouched(x)
           /\ Carried(q, x)' => Carried(q, x) /\ Untouched(x)
    BY <1>3, <2>1, Others
  <2> QED  BY <2>2, JobsKept DEF AgreeInv, IInv, TypeOK
<1>5. JobsApart'
  <2>1. \A q \in Periods : \A i, n \in 1..Len(j_queue'[q]) :
              j_queue'[q][i].by = j_queue'[q][n].by => i = n
    BY Taken DEF AgreeInv
  <2>2. \A q, r \in Periods, x, z \in Job :
          /\ Carried(q, x)' /\ Has(r, z)' => x.by # z.by
          /\ Carried(q, x)' /\ Carried(r, z)' /\ x.by = z.by => q = r
    BY <1>3, Others DEF AgreeInv, JobsApart
  <2> QED  BY <2>1, <2>2 DEF JobsApart
<1>6. CallersApart'
  BY <1>1 DEF AgreeInv, CallersApart
<1> QED  BY <1>1, <1>4, <1>5, <1>6

\* The thread starts to sample the channel; its caller goes on.
LEMMA RunInsertAgree ==
  ASSUME IInv, AgreeInv, NEW p \in Periods, RunInsert(p)
  PROVE  AgreeInv'
<1>1. RemoveJob(p)
  BY DEF RunInsert
<1>2. PICK y \in Job : y = Head(j_queue[p])
  BY <1>1, Taken DEF AgreeInv
<1> DEFINE c == y.ch
           k == y.by
<1>3. /\ y.type = "INSERT" /\ signalCompletion(y)
      /\ tpc' = [tpc EXCEPT ![p] = NextJob(p)]
      /\ closures' = [closures EXCEPT ![p] = @ \cup {c}]
      /\ UNCHANGED <<moving, isRefCounted, period, logf, pc, on, then>>
  BY <1>2 DEF RunInsert, signalCompletion
<1>4. /\ JobRight(y) /\ period[c] = p /\ c \in Chans /\ k \in Callers
  BY <1>1, <1>2, Others DEF Job
<1>5. k = c
  BY <1>3, <1>4 DEF JobRight, AgreeInv, CallersApart, Callers
<1>6. /\ \A r \in Periods, d \in Chans : d # c => (d \in closures'[r] <=> d \in closures[r])
      /\ \A r \in Periods : c \in closures'[r] <=> r = p
  BY <1>3, <1>4 DEF JobRight, IInv, TypeOK, ThrTypes
<1>7. /\ JobsRight' /\ JobsApart' /\ CallersApart'
      /\ jobCompleted'[k] = TRUE
      /\ \A m \in Callers : m # k => jobCompleted'[m] = jobCompleted[m]
  BY <1>1, <1>2, <1>3, <1>6, DoneJobs
<1>8. /\ pc[c] = "wait" /\ ~jobCompleted[c] /\ on[c] = c /\ then[c] = "idle"
      /\ isRefCounted[c] /\ logf[c] = "open"
  BY <1>3, <1>4, <1>5 DEF JobRight, AgreeInv, OpenRight
<1>9. \A m \in Callers : m # c => ~(on[m] = c /\ pc[m] \in Busy)
  BY <1>4, <1>5, <1>8, Apart DEF AgreeInv, Busy
<1>10. \A d \in Chans, m \in Callers : /\ Deleting(m, d)' <=> Deleting(m, d)
                                       /\ Deleted(m, d)' <=> Deleted(m, d)
                                       /\ ~Deleted(m, c)
  BY <1>3, <1>5, <1>7, <1>8, <1>9 DEF Deleting, Deleted, Busy
<1>11. Chans \subseteq Callers
  BY DEF Callers
<1> HIDE DEF c, k
<1>12. SampledRight'
  BY <1>3, <1>4, <1>5, <1>6, <1>7, <1>8, <1>10, <1>11 DEF AgreeInv, SampledRight
<1>13. OpenRight'
  BY <1>3, <1>10 DEF AgreeInv, OpenRight
<1>14. CloseRight'
  <2>1. \A m \in Callers : on[m] \in Chans
    BY DEF IInv, TypeOK, CallTypes
  <2> QED  BY <1>3, <1>6, <1>10, <2>1 DEF AgreeInv, CloseRight
<1> QED  BY <1>7, <1>12, <1>13, <1>14 DEF AgreeInv

\* A channel that was closed before is not there to move.
LEMMA RunMoveFailsAgree ==
  ASSUME IInv, AgreeInv, NEW p \in Periods, RunMoveFails(p)
  PROVE  AgreeInv'
<1>1. RemoveJob(p)
  BY DEF RunMoveFails
<1>2. PICK y \in Job : y = Head(j_queue[p])
  BY <1>1, Taken DEF AgreeInv
<1> DEFINE c == y.ch
           k == y.by
<1>3. /\ y.type = "MOVE" /\ signalCompletion(y)
      /\ tpc' = [tpc EXCEPT ![p] = NextJob(p)]
      /\ c \notin closures[p]
      /\ UNCHANGED <<closures, moving, isRefCounted, period, logf, pc, on, then>>
  BY <1>2 DEF RunMoveFails, signalCompletion, chanVars
<1>4. /\ JobRight(y) /\ period[c] = p /\ c \in Chans /\ k \in Callers
  BY <1>1, <1>2, Others DEF Job
<1>5. k = c
  BY <1>3, <1>4 DEF JobRight, AgreeInv, CallersApart, Callers
<1>7. /\ JobsRight' /\ JobsApart' /\ CallersApart'
      /\ jobCompleted'[k] = TRUE
      /\ \A m \in Callers : m # k => jobCompleted'[m] = jobCompleted[m]
  BY <1>1, <1>2, <1>3, DoneJobs
<1>8. then[c] = "idle" /\ pc[c] = "wait" /\ ~isRefCounted[c]
  BY <1>3, <1>4, <1>5 DEF JobRight
<1>10. \A d \in Chans, m \in Callers : /\ Deleting(m, d)' <=> Deleting(m, d)
                                       /\ Deleted(m, d)' <=> Deleted(m, d)
  BY <1>3, <1>5, <1>7, <1>8 DEF Deleting, Deleted
<1>11. Chans \subseteq Callers
  BY DEF Callers
<1> HIDE DEF c, k
<1>12. SampledRight'
  BY <1>3, <1>4, <1>5, <1>7, <1>8, <1>10, <1>11 DEF AgreeInv, SampledRight
<1>13. OpenRight'
  BY <1>3, <1>10 DEF AgreeInv, OpenRight
<1>14. CloseRight'
  <2>1. \A m \in Callers : on[m] \in Chans
    BY DEF IInv, TypeOK, CallTypes
  <2> QED  BY <1>3, <1>10, <2>1 DEF AgreeInv, CloseRight
<1> QED  BY <1>7, <1>12, <1>13, <1>14 DEF AgreeInv

\* The channel leaves the one thread that samples it.
LEMMA RunDeleteAgree ==
  ASSUME IInv, AgreeInv, NEW p \in Periods, RunDelete(p)
  PROVE  AgreeInv'
<1>1. RemoveJob(p)
  BY DEF RunDelete
<1>2. PICK y \in Job : y = Head(j_queue[p])
  BY <1>1, Taken DEF AgreeInv
<1> DEFINE c == y.ch
           k == y.by
<1>3. /\ y.type = "DELETE" /\ signalCompletion(y)
      /\ tpc' = [tpc EXCEPT ![p] = NextJob(p)]
      /\ closures' = [closures EXCEPT ![p] = @ \ {c}]
      /\ UNCHANGED <<moving, isRefCounted, period, logf, pc, on, then>>
  BY <1>2 DEF RunDelete, signalCompletion, dequeue_channel
<1>4. /\ JobRight(y) /\ period[c] = p /\ c \in Chans /\ k \in Callers
  BY <1>1, <1>2, Others DEF Job
<1>6. /\ \A r \in Periods, d \in Chans : d # c => (d \in closures'[r] <=> d \in closures[r])
      /\ \A r \in Periods : c \notin closures'[r]
  BY <1>3, <1>4 DEF AgreeInv, SampledRight, IInv, TypeOK, ThrTypes
<1>7. /\ JobsRight' /\ JobsApart' /\ CallersApart'
      /\ jobCompleted'[k] = TRUE
      /\ \A m \in Callers : m # k => jobCompleted'[m] = jobCompleted[m]
  BY <1>1, <1>2, <1>3, <1>6, DoneJobs
<1>8. Deleting(k, c) /\ ~isRefCounted[c] /\ on[k] = c
  BY <1>3, <1>4 DEF JobRight, Deleting, AgreeInv, CloseRight
<1>10. \A d \in Chans, m \in Callers : /\ m # k => (Deleting(m, d)' <=> Deleting(m, d))
                                       /\ m # k => (Deleted(m, d)' <=> Deleted(m, d))
                                       /\ ~Deleting(k, d)'
                                       /\ Deleted(k, d)' <=> d = c
                                       /\ Deleting(k, d) => d = c
                                       /\ ~Deleted(k, d)
  BY <1>3, <1>7, <1>8 DEF Deleting, Deleted
<1>11. Chans \subseteq Callers
  BY DEF Callers
<1>9. \A d \in Chans : k = d => d = c
  BY <1>8 DEF AgreeInv, CallersApart
<1> HIDE DEF c, k
<1>12. SampledRight'
  <2> SUFFICES ASSUME NEW d \in Chans
               PROVE  /\ \A r \in Periods : d \in closures'[r] =>
                           /\ r = period'[d] /\ logf'[d] = "open" /\ pc'[d] # "insert"
                           /\ isRefCounted'[d] \/ \E m \in Callers : Deleting(m, d)'
                      /\ isRefCounted'[d] /\ (pc'[d] \in {"idle", "close", "unref"}
                                              \/ (pc'[d] = "wait" /\ jobCompleted'[d]))
                           => d \in closures'[period'[d]]
    BY DEF SampledRight
  <2>1. CASE d = c
    BY <1>3, <1>6, <1>8, <2>1
  <2>2. CASE d # c
    <3>1. /\ jobCompleted'[d] = jobCompleted[d] /\ period[d] \in Periods
          /\ \A r \in Periods : d \in closures'[r] <=> d \in closures[r]
          /\ \A m \in Callers : Deleting(m, d) => Deleting(m, d)'
      BY <1>6, <1>7, <1>9, <1>10, <1>11, <2>2 DEF IInv, TypeOK, ChanTypes
    <3> QED  BY <1>3, <3>1 DEF AgreeInv, SampledRight
  <2> QED  BY <2>1, <2>2
<1>13. OpenRight'
  BY <1>3, <1>4, <1>10 DEF AgreeInv, OpenRight
<1>14. CloseRight'
  <2>1. \A m \in Callers : on[m] \in Chans
    BY DEF IInv, TypeOK, CallTypes
  <2> QED  BY <1>3, <1>6, <1>8, <1>10, <2>1 DEF AgreeInv, CloseRight
<1> QED  BY <1>7, <1>12, <1>13, <1>14 DEF AgreeInv

\* Between two threads the channel is sampled by none, and its job is carried.
LEMMA RunMoveAgree ==
  ASSUME IInv, AgreeInv, NEW p \in Periods, RunMove(p)
  PROVE  AgreeInv'
<1>1. RemoveJob(p)
  BY DEF RunMove
<1>2. PICK y \in Job : y = Head(j_queue[p])
  BY <1>1, Taken DEF AgreeInv
<1>3. PICK z \in Job : z = [y EXCEPT !.type = "INSERT"]
  BY DEF Job
<1> DEFINE c == y.ch
           k == y.by
<1>4. /\ y.type = "MOVE" /\ c \in closures[p]
      /\ tpc' = [tpc EXCEPT ![p] = "pass"] /\ moving' = [moving EXCEPT ![p] = z]
      /\ closures' = [closures EXCEPT ![p] = @ \ {c}]
      /\ period' = [period EXCEPT ![c] = y.target]
      /\ UNCHANGED <<isRefCounted, logf, pc, on, then, jobCompleted>>
  BY <1>2, <1>3 DEF RunMove, dequeue_channel, targetPeriod, callVars
<1>5. z.type = "INSERT" /\ z.ch = c /\ z.by = k
  BY <1>3 DEF Job
<1>6. /\ JobRight(y) /\ period[c] = p /\ c \in Chans /\ k \in Callers
      /\ \A q \in Periods, x \in Job :
              /\ Has(q, x)' => Has(q, x) /\ x.by # k /\ x.ch # c
              /\ Carried(q, x) => q # p /\ x.by # k /\ x.ch # c
  BY <1>1, <1>2, Others DEF Job
<1>7. /\ \A r \in Periods, d \in Chans : d # c => (d \in closures'[r] <=> d \in closures[r])
      /\ \A r \in Periods : c \notin closures'[r]
      /\ \A d \in Chans : d # c => period'[d] = period[d]
  BY <1>4, <1>6 DEF AgreeInv, SampledRight, IInv, TypeOK, ThrTypes, ChanTypes
<1>8. \A m \in Callers : m # k => ~(on[m] = c /\ pc[m] \in Busy)
  BY <1>6, Apart DEF AgreeInv, Busy, JobRight
<1>9. isRefCounted[c] /\ then[k] = "idle" /\ pc[k] = "wait" /\ ~jobCompleted[k] /\ on[k] = c
  <2>1. then[k] = "idle" /\ pc[k] = "wait" /\ ~jobCompleted[k] /\ on[k] = c
    BY <1>4, <1>6 DEF JobRight
  <2>2. \A m \in Callers : ~Deleting(m, c)
    BY <1>8, <2>1 DEF Deleting, Busy
  <2> QED  BY <1>4, <1>6, <2>1, <2>2 DEF AgreeInv, SampledRight
<1>10. \A q \in Periods, x \in Job : Carried(q, x)' => Carried(q, x) \/ (q = p /\ x = z)
  BY <1>4 DEF Carried, IInv, TypeOK, ThrTypes
<1>11. JobsRight'
  <2> SUFFICES ASSUME NEW q \in Periods, NEW x \in Job
               PROVE  /\ Has(q, x)' => JobRight(x)' /\ period'[x.ch] = q
                      /\ Carried(q, x)' => JobRight(x)' /\ x.type = "INSERT"
    BY DEF JobsRight
  <2>1. x.by # k /\ x.ch # c => Untouched(x)
    BY <1>4, <1>7 DEF Untouched, Job
  <2>2. JobRight(x) /\ Untouched(x) => JobRight(x)' /\ period'[x.ch] = period[x.ch]
    BY JobKept DEF IInv, TypeOK, Untouched
  <2>3. /\ Has(q, x) => JobRight(x) /\ period[x.ch] = q
        /\ Carried(q, x) => JobRight(x) /\ x.type = "INSERT"
    BY DEF AgreeInv, JobsRight
  <2>4. JobRight(z)'
    BY <1>4, <1>5, <1>7, <1>9 DEF JobRight
  <2> QED  BY <1>5, <1>6, <1>10, <2>1, <2>2, <2>3, <2>4
<1>12. JobsApart'
  <2>1. \A q \in Periods : \A i, n \in 1..Len(j_queue'[q]) :
              j_queue'[q][i].by = j_queue'[q][n].by => i = n
    BY <1>1, Taken DEF AgreeInv
  <2>2. \A q, r \in Periods, x, w \in Job :
          /\ Carried(q, x)' /\ Has(r, w)' => x.by # w.by
          /\ Carried(q, x)' /\ Carried(r, w)' /\ x.by = w.by => q = r
    BY <1>5, <1>6, <1>10 DEF AgreeInv, JobsApart
  <2> QED  BY <2>1, <2>2 DEF JobsApart
<1>13. CallersApart'
  BY <1>4 DEF AgreeInv, CallersApart
<1>14. \A d \in Chans, m \in Callers : /\ Deleting(m, d)' <=> Deleting(m, d)
                                       /\ Deleted(m, d)' <=> Deleted(m, d)
  BY <1>4 DEF Deleting, Deleted
<1> HIDE DEF c, k
<1>15. SampledRight'
  <2> SUFFICES ASSUME NEW d \in Chans
               PROVE  /\ \A r \in Periods : d \in closures'[r] =>
                           /\ r = period'[d] /\ logf'[d] = "open" /\ pc'[d] # "insert"
                           /\ isRefCounted'[d] \/ \E m \in Callers : Deleting(m, d)'
                      /\ isRefCounted'[d] /\ (pc'[d] \in {"idle", "close", "unref"}
                                              \/ (pc'[d] = "wait" /\ jobCompleted'[d]))
                           => d \in closures'[period'[d]]
    BY DEF SampledRight
  <2>1. CASE d = c
    <3>1. k = EXIT \/ k = c
      BY <1>6, <1>9 DEF AgreeInv, CallersApart, Callers
    <3>2. k # EXIT
      BY <1>9 DEF AgreeInv, CallersApart
    <3> QED  BY <1>4, <1>7, <1>9, <2>1, <3>1, <3>2
  <2>2. CASE d # c
    <3>1. /\ period[d] \in Periods /\ period'[d] = period[d]
          /\ \A r \in Periods : d \in closures'[r] <=> d \in closures[r]
      BY <1>7, <2>2 DEF IInv, TypeOK, ChanTypes
    <3> QED  BY <1>4, <1>14, <3>1 DEF AgreeInv, SampledRight
  <2> QED  BY <2>1, <2>2
<1>16. OpenRight'
  BY <1>4, <1>14 DEF AgreeInv, OpenRight
<1>17. CloseRight'
  <2>1. \A m \in Callers : on[m] \in Chans
    BY DEF IInv, TypeOK, CallTypes
  <2> QED  BY <1>4, <1>7, <1>14, <2>1 DEF AgreeInv, CloseRight
<1> QED  BY <1>11, <1>12, <1>13, <1>15, <1>16, <1>17 DEF AgreeInv

\* The job reaches the queue of the channel's new period.
LEMMA PassOnAgree ==
  ASSUME IInv, AgreeInv, NEW p \in Periods, PassOn(p)
  PROVE  AgreeInv'
<1>1. PICK z \in Job : z = moving[p]
  BY DEF PassOn, IInv, Carrying
<1> DEFINE q == period[z.ch]
<1>2. Carried(p, z) /\ JobRight(z) /\ z.type = "INSERT" /\ q \in Periods
  BY <1>1 DEF PassOn, Carried, AgreeInv, JobsRight, IInv, TypeOK, ChanTypes, Job
<1>3. /\ j_queue' = [j_queue EXCEPT ![q] = Append(@, z)]
      /\ UNCHANGED <<closures, period, isRefCounted, logf, pc, on, then, jobCompleted>>
  BY <1>1 DEF PassOn, chanVars, callVars
<1>4. \A r \in Periods, x \in Job : Carried(r, x)' => Carried(r, x) /\ r # p
  <2>1. \A r \in Periods : /\ tpc'[r] = "pass" => tpc[r] = "pass" /\ r # p
                           /\ r # p => moving'[r] = moving[r]
    BY <1>1, <1>2 DEF PassOn, IInv, TypeOK, ThrTypes
  <2> QED  BY <2>1 DEF Carried
<1>5. /\ \A r \in Periods, x \in Job : Has(r, x) => x.by # z.by
      /\ \A r \in Periods, x \in Job : Carried(r, x) /\ r # p => x.by # z.by
  BY <1>2 DEF AgreeInv, JobsApart
<1>6. /\ \A r \in Periods, x \in Job : Has(r, x)' => Has(r, x) \/ (r = q /\ x = z)
      /\ \A r \in Periods : \A i, n \in 1..Len(j_queue'[r]) :
              j_queue'[r][i].by = j_queue'[r][n].by => i = n
  BY <1>2, <1>3, <1>5, Added DEF AgreeInv, IInv, TypeOK
<1>7. \A x \in Job : Untouched(x)
  BY <1>3 DEF Untouched
<1>8. JobsRight'
  <2> SUFFICES ASSUME NEW r \in Periods, NEW x \in Job
               PROVE  /\ Has(r, x)' => JobRight(x)' /\ period'[x.ch] = r
                      /\ Carried(r, x)' => JobRight(x)' /\ x.type = "INSERT"
    BY DEF JobsRight
  <2>1. JobRight(x) => JobRight(x)'
    BY <1>7, JobKept DEF IInv, TypeOK
  <2>2. /\ Has(r, x) => JobRight(x) /\ period[x.ch] = r
        /\ Carried(r, x) => JobRight(x) /\ x.type = "INSERT"
    BY DEF AgreeInv, JobsRight
  <2> QED  BY <1>2, <1>3, <1>4, <1>6, <2>1, <2>2
<1>9. JobsApart'
  <2>1. \A r, s \in Periods, x, w \in Job :
          /\ Carried(r, x)' /\ Has(s, w)' => x.by # w.by
          /\ Carried(r, x)' /\ Carried(s, w)' /\ x.by = w.by => r = s
    BY <1>4, <1>5, <1>6 DEF AgreeInv, JobsApart
  <2> QED  BY <1>6, <2>1 DEF JobsApart
<1>10. CallersApart'
  BY <1>3 DEF AgreeInv, CallersApart
<1>11. SampledRight'
  BY <1>3 DEF AgreeInv, SampledRight, Deleting
<1>12. OpenRight'
  BY <1>3 DEF AgreeInv, OpenRight, Deleting, Deleted
<1>13. CloseRight'
  BY <1>3 DEF AgreeInv, CloseRight, Deleting, Deleted
<1> QED  BY <1>8, <1>9, <1>10, <1>11, <1>12, <1>13 DEF AgreeInv

\* No caller, no job and no channel at the start.
LEMMA AgreeInit == Init => AgreeInv
<1> SUFFICES ASSUME Init PROVE AgreeInv
  OBVIOUS
<1> USE DEF Init
<1>1. EXIT \in Callers /\ Chans \subseteq Callers /\ EXIT \notin Chans
  BY SetsAssumption DEF Callers
<1>2. \A p \in Periods, x \in Job : ~Has(p, x) /\ ~Carried(p, x)
  BY DEF Has, Carried
<1>3. CallersApart
  BY <1>1 DEF CallersApart
<1>4. JobsRight /\ JobsApart
  BY <1>2 DEF JobsRight, JobsApart
<1>5. \A k \in Callers, c \in Chans : ~Deleting(k, c) /\ ~Deleted(k, c)
  BY DEF Deleting, Deleted
<1>6. SampledRight /\ OpenRight
  BY <1>1 DEF SampledRight, OpenRight
<1>7. CloseRight
  BY <1>1 DEF CloseRight, Deleting, Deleted
<1> QED  BY <1>3, <1>4, <1>6, <1>7 DEF AgreeInv

\* Every step keeps calls, jobs and channels in agreement.
LEMMA AgreeStep ==
  ASSUME IInv, AgreeInv, "exit" \notin Races, [Next]_vars
  PROVE  AgreeInv'
<1>1. ASSUME NEW c \in Chans, Request(c) PROVE AgreeInv'
  <2>1. CASE LogTS(c)
    BY <2>1, QuietAgree DEF LogTS, thrVars
  <2> QED  BY <1>1, <2>1, OpenAgree, CloseChannelAgree, AskAgree DEF Request
<1>2. ASSUME NEW k \in Callers, CallStep(k) PROVE AgreeInv'
  BY <1>2, AskAgree, CloseCountAgree, CloseDeleteAgree, WaitAgree, CloseFileAgree DEF CallStep
<1>3. CASE Exit \/ ExitStep
  BY <1>3, ExitAgree
<1>4. ASSUME NEW p \in Periods, SamplerStep(p) PROVE AgreeInv'
  <2>1. CASE Sample(p) \/ CountJobs(p) \/ TestTermination(p) \/ Terminate(p) \/ Snooze(p) \/ FlushDue(p)
    <3>1. \A q \in Periods : tpc'[q] = "pass" <=> tpc[q] = "pass"
      BY <2>1 DEF Sample, CountJobs, TestTermination, Terminate, Snooze, FlushDue, IInv, TypeOK, ThrTypes
    <3>2. /\ UNCHANGED <<callVars, j_queue, moving, closures>>
          /\ UNCHANGED <<period, isRefCounted, logf>>
      BY <2>1 DEF Sample, CountJobs, TestTermination, Terminate, Snooze, FlushDue, chanVars
    <3> QED  BY <3>1, <3>2, QuietAgree
  <2> QED  BY <1>4, <2>1, RunInsertAgree, RunMoveAgree, PassOnAgree, RunMoveFailsAgree, RunDeleteAgree
              DEF SamplerStep
<1>5. CASE UNCHANGED vars
  BY <1>5, QuietAgree DEF vars, chanVars, thrVars
<1> QED  BY <1>1, <1>2, <1>3, <1>4, <1>5 DEF Next, Gone

-----------------------------------------------------------------------------
(* The steps keep the files complete.                                      *)

\* A count that is flushed is written to an open file.
LEMMA FlushAccounts ==
  ASSUME IInv, Accounted, NEW c \in Chans, logf[c] = "open",
         flushCounter(c), NEW f \in File, writeTo(c, f),
         f.sum = out[c].sum + ctr[c],
         skipped'[c] \in Nat,
         f.intervals + skipped'[c] = out[c].intervals + skipped[c],
         \A d \in Chans : d # c => skipped'[d] = skipped[d],
         UNCHANGED <<events, intervals>>
  PROVE  Accounted'
<1> SUFFICES ASSUME NEW d \in Chans
             PROVE  /\ events'[d] = ctr'[d] + total_ctr'[d]
                    /\ out'[d].sum = total_ctr'[d]
                    /\ intervals'[d] = out'[d].intervals + skipped'[d]
  BY DEF Accounted
<1>1. CASE d # c
  BY <1>1 DEF Accounted, flushCounter, writeTo, IInv, TypeOK, ChanTypes
<1>2. CASE d = c
  <2>1. ctr'[c] = 0 /\ total_ctr'[c] = total_ctr[c] + ctr[c] /\ out'[c] = f
    BY DEF flushCounter, writeTo, IInv, TypeOK, ChanTypes
  <2>2. ctr[c] \in Nat /\ total_ctr[c] \in Nat
    BY DEF IInv, TypeOK, ChanTypes
  <2> QED  BY <1>2, <2>1, <2>2 DEF Accounted
<1> QED  BY <1>1, <1>2

\* A sampling interval
LEMMA SampleAccounts ==
  ASSUME IInv, AgreeInv, Accounted, NEW p \in Periods, Sample(p)
  PROVE  Accounted'
<1> SUFFICES ASSUME NEW c \in Chans
             PROVE  /\ events'[c] = ctr'[c] + total_ctr'[c]
                    /\ out'[c].sum = total_ctr'[c]
                    /\ intervals'[c] = out'[c].intervals + skipped'[c]
  BY DEF Accounted
<1>1. /\ ctr[c] \in Nat /\ total_ctr[c] \in Nat /\ skipped[c] \in Nat
      /\ out[c] \in File /\ out[c].sum \in Nat /\ out[c].intervals \in Nat
  BY DEF IInv, TypeOK, ChanTypes, File
<1>2. /\ events[c] = ctr[c] + total_ctr[c] /\ out[c].sum = total_ctr[c]
      /\ intervals[c] = out[c].intervals + skipped[c]
  BY DEF Accounted
<1>3. CASE c \notin closures[p]
  <2>1. /\ events'[c] = events[c] /\ ctr'[c] = ctr[c] /\ total_ctr'[c] = total_ctr[c]
        /\ out'[c] = out[c] /\ skipped'[c] = skipped[c] /\ intervals'[c] = intervals[c]
    BY <1>3 DEF Sample
  <2> QED  BY <1>2, <2>1
<1>4. CASE c \in closures[p]
  <2>1. logf[c] = "open"
    BY <1>4 DEF AgreeInv, SampledRight
  <2>2. /\ events'[c] = events[c] /\ ctr'[c] = 0 /\ total_ctr'[c] = total_ctr[c] + ctr[c]
        /\ intervals'[c] = intervals[c] + 1
        /\ skipped'[c] = IF ctr[c] = 0 THEN skipped[c] + 1 ELSE 0
        /\ out'[c] = IF ctr[c] # 0 THEN writeCount(c, ctr[c], 1) ELSE out[c]
    BY <1>4, <2>1 DEF Sample
  <2>3. CASE ctr[c] = 0
    BY <1>1, <1>2, <2>2, <2>3
  <2>4. CASE ctr[c] # 0
    <3>1. out'[c].sum = out[c].sum + ctr[c] /\ out'[c].intervals = out[c].intervals + skipped[c] + 1
      BY <2>2, <2>4 DEF writeCount
    <3> QED  BY <1>1, <1>2, <2>2, <2>4, <3>1
  <2> QED  BY <2>3, <2>4
<1> QED  BY <1>3, <1>4

\* The jobs are run on channels whose file is open.
LEMMA JobAccounts ==
  ASSUME IInv, AgreeInv, Accounted, NEW p \in Periods,
         RunInsert(p) \/ RunMove(p) \/ RunDelete(p)
  PROVE  Accounted'
<1>1. RemoveJob(p)
  BY DEF RunInsert, RunMove, RunDelete
<1>2. PICK y \in Job : y = Head(j_queue[p])
  BY <1>1, Taken DEF AgreeInv
<1> DEFINE c == y.ch
<1>3. JobRight(y) /\ period[c] = p /\ c \in Chans
  BY <1>1, <1>2, Others DEF Job
<1>4. /\ ctr[c] \in Nat /\ skipped[c] \in Nat /\ out[c].intervals \in Nat
      /\ \A f \in File : f.sum \in Nat /\ f.intervals \in Nat
  BY <1>3 DEF IInv, TypeOK, ChanTypes, File
<1>5. CASE RunInsert(p)
  <2>1. logf[c] = "open"
    BY <1>2, <1>3, <1>5 DEF RunInsert, JobRight, AgreeInv, OpenRight
  <2>2. PICK f \in File : f = firstCount(c)
    BY <1>3, Written DEF IInv, TypeOK
  <2>3. f.sum = out[c].sum + ctr[c] /\ f.intervals = out[c].intervals
    BY <2>2 DEF firstCount
  <2>4. /\ flushCounter(c) /\ writeTo(c, f) /\ UNCHANGED <<events, intervals, skipped>>
    BY <1>2, <1>5, <2>2 DEF RunInsert, histVars
  <2> QED  BY <1>3, <1>4, <2>1, <2>3, <2>4, FlushAccounts
<1>6. CASE RunMove(p)
  <2>1. logf[c] = "open"
    BY <1>2, <1>3, <1>6 DEF RunMove, AgreeInv, SampledRight
  <2>2. PICK f \in File : f = writeCount(c, ctr[c], 0)
    BY <1>3, <1>4, Written DEF IInv, TypeOK
  <2>3. f.sum = out[c].sum + ctr[c] /\ f.intervals = out[c].intervals + skipped[c] + 0
    BY <2>2 DEF writeCount
  <2>4. /\ flushCounter(c) /\ writeTo(c, f) /\ UNCHANGED <<events, intervals>>
        /\ skipped' = [skipped EXCEPT ![c] = 0]
    BY <1>2, <1>6, <2>2 DEF RunMove, histVars
  <2>5. skipped'[c] = 0 /\ \A d \in Chans : d # c => skipped'[d] = skipped[d]
    BY <1>3, <2>4 DEF IInv, TypeOK, ChanTypes
  <2> QED  BY <1>3, <1>4, <2>1, <2>3, <2>4, <2>5, FlushAccounts
<1>7. CASE RunDelete(p)
  <2>1. logf[c] = "open"
    BY <1>2, <1>3, <1>7 DEF RunDelete, JobRight, Job, Deleting, AgreeInv, CloseRight
  <2>2. PICK f \in File : f = lastWrite(c)
    BY <1>3, Written DEF IInv, TypeOK
  <2>3. f.sum = out[c].sum + ctr[c] /\ f.intervals = out[c].intervals + skipped[c]
    BY <2>2 DEF lastWrite
  <2>4. /\ flushCounter(c) /\ writeTo(c, f) /\ UNCHANGED <<events, intervals>>
        /\ skipped' = [skipped EXCEPT ![c] = 0]
    BY <1>2, <1>7, <2>2 DEF RunDelete, histVars
  <2>5. skipped'[c] = 0 /\ \A d \in Chans : d # c => skipped'[d] = skipped[d]
    BY <1>3, <2>4 DEF IInv, TypeOK, ChanTypes
  <2> QED  BY <1>3, <1>4, <2>1, <2>3, <2>4, <2>5, FlushAccounts
<1> QED  BY <1>5, <1>6, <1>7

\* Files stay complete while nothing is written and nothing counted.
LEMMA FileFrame ==
  ASSUME Accounted, UNCHANGED <<ctr, total_ctr, skipped, out, events, intervals>>
  PROVE  Accounted'
BY DEF Accounted

StillStep ==
  UNCHANGED <<ctr, total_ctr, skipped, out, events, intervals>>

\* Only logTS, sampling and the jobs write or count.
LEMMA Still ==
  ASSUME [Next]_vars,
         ~\E c \in Chans : LogTS(c),
         ~\E p \in Periods : Sample(p) \/ RunInsert(p) \/ RunMove(p) \/ RunDelete(p)
  PROVE  StillStep
<1> USE DEF StillStep
<1>1. ASSUME NEW c \in Chans, Request(c) PROVE StillStep
  BY <1>1 DEF Request, OpenChannel, CloseChannel, SetArg, chanVars, histVars
<1>2. ASSUME NEW k \in Callers, CallStep(k) PROVE StillStep
  BY <1>2 DEF CallStep, InsertChannel, CloseCount, CloseDelete, WaitCompletion, CloseFile,
              chanVars, histVars
<1>3. CASE Exit \/ ExitStep
  BY <1>3 DEF Exit, ExitStep, Exited, ExitClose, chanVars, histVars
<1>4. ASSUME NEW p \in Periods, SamplerStep(p) PROVE StillStep
  BY <1>4 DEF SamplerStep, CountJobs, PassOn, RunMoveFails, TestTermination, Terminate, Snooze,
              FlushDue, chanVars, histVars
<1>5. CASE UNCHANGED vars
  BY <1>5 DEF vars, chanVars, histVars
<1> QED  BY <1>1, <1>2, <1>3, <1>4, <1>5 DEF Next, Gone

\* Every step keeps the files complete,
LEMMA CountStep ==
  ASSUME CountInv, "exit" \notin Races, [Next]_vars
  PROVE  CountInv'
<1> USE DEF CountInv
<1>1. IInv' /\ AgreeInv'
  BY InvStep, AgreeStep
<1>2. Accounted'
  <2>1. ASSUME NEW c \in Chans, LogTS(c) PROVE Accounted'
    <3>1. /\ ctr'[c] = ctr[c] + 1 /\ events'[c] = events[c] + 1
          /\ \A d \in Chans : d # c => ctr'[d] = ctr[d] /\ events'[d] = events[d]
          /\ UNCHANGED <<total_ctr, skipped, out, intervals>>
      BY <2>1 DEF LogTS, IInv, TypeOK, ChanTypes, HistTypes
    <3>2. ctr[c] \in Nat /\ total_ctr[c] \in Nat
      BY DEF IInv, TypeOK, ChanTypes
    <3> QED  BY <3>1, <3>2 DEF Accounted
  <2>2. ASSUME NEW p \in Periods, Sample(p) \/ RunInsert(p) \/ RunMove(p) \/ RunDelete(p)
        PROVE  Accounted'
    BY <2>2, SampleAccounts, JobAccounts
  <2>3. CASE StillStep
    BY <2>3, FileFrame DEF StillStep
  <2> QED  BY <2>1, <2>2, <2>3, Still
<1> QED  BY <1>1, <1>2

\* which they are at the start.
LEMMA CountInit == Init => CountInv
<1>1. Init => Accounted
  BY DEF Init, Accounted
<1> QED  BY <1>1, InvInit, AgreeInit DEF CountInv

-----------------------------------------------------------------------------
(* The steps keep the totals of closed files right.                        *)

\* A step that works on a channel whose file is open and not deleted
LEMMA OtherTotals ==
  ASSUME TotalRight, UNCHANGED <<logf, handler_f>>,
         NEW S \in SUBSET Chans,
         \A c \in S : logf[c] # "closed" /\ \A k \in Callers : ~Deleted(k, c)',
         \A c \in Chans \ S : /\ ctr'[c] = ctr[c] /\ out'[c] = out[c]
                              /\ total_ctr'[c] = total_ctr[c],
         \A k \in Callers, c \in Chans \ S :
           Deleted(k, c)' /\ logf[c] = "open" => Deleted(k, c)
  PROVE  TotalRight'
BY DEF TotalRight, TotalWritten

\* A channel that is open and has no one to delete it is not deleted.
LEMMA InUse ==
  ASSUME AgreeInv, NEW c \in Chans, NEW k \in Callers, on[k] = c, pc[k] \in Busy,
         ~Deleted(k, c), NEW m \in Callers
  PROVE  ~Deleted(m, c)
<1>1. Deleted(m, c) => on[m] = c /\ pc[m] \in Busy
  BY DEF Deleted, Busy
<1> QED  BY <1>1, Apart DEF AgreeInv

\* An event is not counted on a channel that is deleted or closed.
LEMMA LogTotals ==
  ASSUME IInv, AgreeInv, TotalRight, Races = {}, NEW c \in Chans, LogTS(c)
  PROVE  TotalRight'
<1>1. pc[c] = "idle" /\ handler_f[c] = "FPC" /\ pc[EXIT] = "run"
  BY DEF LogTS, AppRunning
<1>2. /\ UNCHANGED <<logf, handler_f, out, total_ctr, callVars>>
      /\ \A d \in Chans : d # c => ctr'[d] = ctr[d]
  BY DEF LogTS, IInv, TypeOK, ChanTypes
<1>3. \A d \in Chans, k \in Callers : Deleted(k, d)' <=> Deleted(k, d)
  BY <1>2 DEF Deleted, callVars
<1>4. \A k \in Callers : ~Deleted(k, c)
  BY <1>1 DEF Deleted, AgreeInv, CallersApart, Callers
<1>5. logf[c] # "closed"
  BY <1>1 DEF TotalRight
<1> DEFINE S == {c}
<1>6. /\ \A d \in S : logf[d] # "closed" /\ \A k \in Callers : ~Deleted(k, d)'
      /\ \A d \in Chans \ S : ctr'[d] = ctr[d] /\ out'[d] = out[d] /\ total_ctr'[d] = total_ctr[d]
      /\ S \in SUBSET Chans
  BY <1>2, <1>3, <1>4, <1>5
<1> QED  BY <1>2, <1>3, <1>6, OtherTotals

\* Nor does sampling touch such a channel,
LEMMA SampleTotals ==
  ASSUME IInv, AgreeInv, TotalRight, NEW p \in Periods, Sample(p)
  PROVE  TotalRight'
<1>2. /\ UNCHANGED <<logf, handler_f, callVars>>
      /\ \A d \in Chans \ closures[p] : ctr'[d] = ctr[d] /\ out'[d] = out[d] /\ total_ctr'[d] = total_ctr[d]
      /\ closures[p] \in SUBSET Chans
  BY DEF Sample, IInv, TypeOK, ThrTypes
<1>3. \A d \in Chans, k \in Callers : Deleted(k, d)' <=> Deleted(k, d)
  BY <1>2 DEF Deleted, callVars
<1>4. \A d \in closures[p] : logf[d] # "closed" /\ \A k \in Callers : ~Deleted(k, d)'
  BY <1>2, <1>3 DEF AgreeInv, SampledRight, CloseRight, Deleted
<1>5. PICK S \in SUBSET Chans : S = closures[p]
  BY <1>2
<1> QED  BY <1>2, <1>3, <1>4, <1>5, OtherTotals

\* and a job other than its deletion neither.
LEMMA JobTotals ==
  ASSUME IInv, AgreeInv, TotalRight, NEW p \in Periods,
         RunInsert(p) \/ RunMove(p) \/ RunDelete(p)
  PROVE  TotalRight'
<1>1. RemoveJob(p)
  BY DEF RunInsert, RunMove, RunDelete
<1>2. PICK y \in Job : y = Head(j_queue[p])
  BY <1>1, Taken DEF AgreeInv
<1> DEFINE c == y.ch
           k == y.by
<1>3. JobRight(y) /\ period[c] = p /\ c \in Chans /\ k \in Callers
  BY <1>1, <1>2, Others DEF Job
<1>4. /\ UNCHANGED <<logf, handler_f, pc, on, then>>
      /\ \A m \in Callers : m # k => jobCompleted'[m] = jobCompleted[m]
      /\ \A d \in Chans \ {c} : ctr'[d] = ctr[d] /\ out'[d] = out[d] /\ total_ctr'[d] = total_ctr[d]
      /\ flushCounter(c)
  <2>1. /\ UNCHANGED <<logf, handler_f, pc, on, then>> /\ flushCounter(c)
        /\ \E f : writeTo(c, f)
        /\ \A m \in Callers : m # k => jobCompleted'[m] = jobCompleted[m]
    BY <1>2, <1>3 DEF RunInsert, RunMove, RunDelete, signalCompletion, callVars, IInv, TypeOK, CallTypes
  <2> QED  BY <1>3, <2>1 DEF flushCounter, writeTo, IInv, TypeOK, ChanTypes
<1>5. /\ ~Deleted(k, c) /\ on[k] = c /\ pc[k] = "wait"
      /\ \A m \in Callers : ~Deleted(m, c)
  BY <1>3, InUse DEF JobRight, Deleted, Busy
<1>6. \A d \in Chans, m \in Callers : Deleted(m, d)' => Deleted(m, d) \/ (m = k /\ d = c)
  BY <1>3, <1>4, <1>5 DEF Deleted
<1>7. logf[c] # "closed"
  BY <1>2, <1>3 DEF RunInsert, RunMove, RunDelete, JobRight, Job, Deleting,
                    AgreeInv, OpenRight, SampledRight, CloseRight
<1>8. CASE y.type # "DELETE"
  <2>1. then[k] = "idle"
    BY <1>3, <1>8 DEF JobRight, Job
  <2>2. \A m \in Callers : ~Deleted(m, c)'
    <3>1. ~Deleted(k, c)'
      BY <1>4, <1>5, <2>1 DEF Deleted
    <3> QED  BY <1>3, <1>5, <1>6, <3>1
  <2>3. \A d \in {c} : logf[d] # "closed" /\ \A m \in Callers : ~Deleted(m, d)'
    BY <1>7, <2>2
  <2>4. \A m \in Callers, d \in Chans \ {c} : Deleted(m, d)' => Deleted(m, d)
    BY <1>6
  <2>5. {c} \in SUBSET Chans
    BY <1>3
  <2> QED  BY <1>4, <2>3, <2>4, <2>5, OtherTotals
<1>9. CASE y.type = "DELETE"
  <2>1. writeTo(c, lastWrite(c)) /\ logf[c] = "open"
    BY <1>2, <1>3, <1>9 DEF RunInsert, RunMove, RunDelete, JobRight, Deleting, AgreeInv, CloseRight
  <2>2. ctr'[c] = 0 /\ out'[c].total = total_ctr'[c]
    BY <1>3, <1>4, <2>1 DEF writeTo, flushCounter, lastWrite, IInv, TypeOK, ChanTypes
  <2> QED  BY <1>3, <1>4, <1>6, <1>7, <2>2 DEF TotalRight, TotalWritten
<1> QED  BY <1>8, <1>9

\* The file is closed once the total is in it.
LEMMA CloseFileTotals ==
  ASSUME IInv, AgreeInv, TotalRight, NEW k \in Callers, CloseFile(k)
  PROVE  TotalRight'
<1>1. /\ pc[k] = "closefile" /\ on[k] \in Chans /\ Deleted(k, on[k])
      /\ UNCHANGED <<ctr, total_ctr, out, on, then, jobCompleted>>
      /\ \A m \in Callers : m # k => pc'[m] = pc[m]
      /\ pc'[k] \in {"idle", "scan"}
      /\ handler_f'[on[k]] = "null"
      /\ logf'[on[k]] = IF logf[on[k]] = "open" THEN "closed" ELSE logf[on[k]]
      /\ \A d \in Chans : d # on[k] => logf'[d] = logf[d] /\ handler_f'[d] = handler_f[d]
  BY DEF CloseFile, Deleted, IInv, TypeOK, CallTypes, ChanTypes
<1>2. \A m \in Callers, d \in Chans : Deleted(m, d)' => Deleted(m, d)
  BY <1>1 DEF Deleted
<1>3. \A d \in Chans : TotalWritten(d)' <=> TotalWritten(d)
  BY <1>1 DEF TotalWritten
<1> QED  BY <1>1, <1>2, <1>3 DEF TotalRight

\* Calls that neither write nor close
LEMMA CallTotals ==
  ASSUME IInv, AgreeInv, TotalRight, StillStep, UNCHANGED <<logf, handler_f>>,
         NEW k \in Callers,
         \A m \in Callers : m # k => /\ pc'[m] = pc[m] /\ on'[m] = on[m] /\ then'[m] = then[m]
                                     /\ jobCompleted'[m] = jobCompleted[m],
         \A c \in Chans : Deleted(k, c)' /\ logf[c] = "open" => Deleted(k, c)
  PROVE  TotalRight'
<1>1. \A m \in Callers, d \in Chans : Deleted(m, d)' /\ logf[d] = "open" => Deleted(m, d)
  BY DEF Deleted
<1>2. \A d \in Chans : TotalWritten(d)' <=> TotalWritten(d)
  BY DEF TotalWritten, StillStep
<1> QED  BY <1>1, <1>2 DEF TotalRight

\* openChannel opens a file that was not open before.
LEMMA OpenTotals ==
  ASSUME IInv, AgreeInv, TotalRight, NEW c \in Chans, OpenChannel(c)
  PROVE  TotalRight'
<1>1. c \in Callers /\ c # EXIT
  BY SetsAssumption DEF Callers
<1>2. /\ pc[EXIT] = "run" /\ pc[c] = "new" /\ logf[c] = "none"
      /\ UNCHANGED <<ctr, total_ctr, out, on, then, jobCompleted>>
      /\ pc'[c] \in {"defect", "insert"} /\ logf'[c] \in {"none", "open"}
      /\ \A m \in Callers : m # c => pc'[m] = pc[m]
      /\ \A d \in Chans : d # c => logf'[d] = logf[d] /\ handler_f'[d] = handler_f[d]
  BY <1>1 DEF OpenChannel, AgreeInv, OpenRight, IInv, TypeOK, CallTypes, ChanTypes
<1>3. \A m \in Callers, d \in Chans : Deleted(m, d)' => Deleted(m, d) /\ d # c
  BY <1>1, <1>2 DEF Deleted, AgreeInv, CallersApart, Callers
<1>4. \A d \in Chans : TotalWritten(d)' <=> TotalWritten(d)
  BY <1>2 DEF TotalWritten
<1> QED  BY <1>2, <1>3, <1>4 DEF TotalRight

\* closeChannel finds the channel closed only when its file is.
LEMMA CloseCountTotals ==
  ASSUME IInv, AgreeInv, TotalRight, NEW k \in Callers, CloseCount(k)
  PROVE  TotalRight'
<1>1. /\ pc[k] = "close" /\ on[k] \in Chans
      /\ pc'[k] = IF isRefCounted[on[k]] THEN "unref" ELSE "closefile"
      /\ \A m \in Callers : m # k => pc'[m] = pc[m]
      /\ UNCHANGED <<on, then, jobCompleted, logf, handler_f>> /\ StillStep
  BY DEF CloseCount, StillStep, IInv, TypeOK, CallTypes, chanVars, histVars
<1>2. \A m \in Callers : ~Deleting(m, on[k]) /\ ~Deleted(m, on[k])
  BY <1>1, Apart DEF AgreeInv, Busy, Deleting, Deleted
<1>3. ~isRefCounted[on[k]] => logf[on[k]] # "open"
  BY <1>1, <1>2 DEF AgreeInv, OpenRight
<1>4. \A c \in Chans : Deleted(k, c)' /\ logf[c] = "open" => Deleted(k, c)
  BY <1>1, <1>3 DEF Deleted
<1> QED  BY <1>1, <1>4, CallTotals

\* Every step keeps the totals right.
LEMMA TotalStep ==
  ASSUME IInv, AgreeInv, TotalRight, Races = {}, [Next]_vars
  PROVE  TotalRight'
<1> USE DEF IInv, TypeOK, CallTypes
<1>1. ASSUME NEW c \in Chans, NEW k \in Callers, k = c,
             CloseChannel(c) \/ InsertChannel(c) \/ \E p \in Periods : SetArg(c, p)
      PROVE  TotalRight'
  <2>1. /\ pc'[k] \in {"close", "wait"} /\ (pc'[k] = "wait" => then'[k] = "idle")
        /\ \A m \in Callers : m # k => /\ pc'[m] = pc[m] /\ on'[m] = on[m] /\ then'[m] = then[m]
                                       /\ jobCompleted'[m] = jobCompleted[m]
        /\ UNCHANGED <<logf, handler_f>> /\ StillStep
    BY <1>1 DEF CloseChannel, InsertChannel, SetArg, Submit, StillStep, chanVars, histVars
  <2>2. \A d \in Chans : ~Deleted(k, d)'
    BY <2>1 DEF Deleted
  <2> QED  BY <2>1, <2>2, CallTotals
<1>2. ASSUME NEW k \in Callers, CloseDelete(k) PROVE TotalRight'
  <2>1. /\ pc'[k] = "wait" /\ ~jobCompleted'[k]
        /\ \A m \in Callers : m # k => /\ pc'[m] = pc[m] /\ on'[m] = on[m] /\ then'[m] = then[m]
                                       /\ jobCompleted'[m] = jobCompleted[m]
        /\ UNCHANGED <<logf, handler_f>> /\ StillStep
    BY <1>2 DEF CloseDelete, Submit, StillStep, histVars
  <2>2. \A d \in Chans : ~Deleted(k, d)'
    BY <2>1 DEF Deleted
  <2> QED  BY <2>1, <2>2, CallTotals
<1>3. ASSUME NEW k \in Callers, WaitCompletion(k) PROVE TotalRight'
  <2>1. /\ pc[k] = "wait" /\ jobCompleted[k] /\ pc'[k] = then[k]
        /\ \A m \in Callers : m # k => pc'[m] = pc[m]
        /\ UNCHANGED <<on, then, jobCompleted, logf, handler_f>> /\ StillStep
    BY <1>3 DEF WaitCompletion, StillStep, chanVars, histVars
  <2>2. \A d \in Chans : Deleted(k, d)' => Deleted(k, d)
    BY <2>1 DEF Deleted
  <2> QED  BY <2>1, <2>2, CallTotals
<1>4. CASE Exit \/ ExitStep
  <2>1. EXIT \in Callers
    BY DEF Callers
  <2>2. /\ pc'[EXIT] \in {"scan", "close", "exited"}
        /\ \A m \in Callers : m # EXIT => /\ pc'[m] = pc[m] /\ on'[m] = on[m] /\ then'[m] = then[m]
                                          /\ jobCompleted'[m] = jobCompleted[m]
        /\ UNCHANGED <<logf, handler_f>> /\ StillStep
    BY <1>4, <2>1 DEF Exit, ExitStep, Exited, ExitClose, StillStep, chanVars, histVars
  <2>3. \A d \in Chans : ~Deleted(EXIT, d)'
    BY <2>2 DEF Deleted
  <2> QED  BY <2>1, <2>2, <2>3, CallTotals
<1>5. ASSUME NEW p \in Periods,
             CountJobs(p) \/ PassOn(p) \/ TestTermination(p) \/ Terminate(p) \/ Snooze(p) \/ FlushDue(p)
      PROVE  TotalRight'
  <2>1. UNCHANGED <<callVars, logf, handler_f>> /\ StillStep
    BY <1>5 DEF CountJobs, PassOn, TestTermination, Terminate, Snooze, FlushDue, StillStep,
                chanVars, histVars
  <2>2. EXIT \in Callers
    BY DEF Callers
  <2>3. \A d \in Chans : Deleted(EXIT, d)' => Deleted(EXIT, d)
    BY <2>1 DEF Deleted, callVars
  <2> QED  BY <2>1, <2>2, <2>3, CallTotals DEF callVars
<1>6. ASSUME NEW p \in Periods, RunMoveFails(p) PROVE TotalRight'
  <2>1. RemoveJob(p)
    BY <1>6 DEF RunMoveFails
  <2>2. PICK y \in Job : y = Head(j_queue[p])
    BY <2>1, Taken DEF AgreeInv
  <2>3. JobRight(y) /\ y.by \in Callers
    BY <2>1, <2>2, Others DEF Job
  <2>4. /\ then[y.by] = "idle" /\ pc[y.by] = "wait"
        /\ UNCHANGED <<pc, on, then, logf, handler_f>> /\ StillStep
        /\ \A m \in Callers : m # y.by => jobCompleted'[m] = jobCompleted[m]
    BY <1>6, <2>2, <2>3 DEF RunMoveFails, signalCompletion, JobRight, StillStep, chanVars, histVars
  <2>5. \A d \in Chans : ~Deleted(y.by, d)'
    BY <2>4 DEF Deleted
  <2> QED  BY <2>3, <2>4, <2>5, CallTotals
<1>7. CASE UNCHANGED vars
  <2>1. UNCHANGED <<callVars, logf, handler_f>> /\ StillStep /\ EXIT \in Callers
    BY <1>7 DEF vars, StillStep, chanVars, histVars, Callers
  <2>2. \A d \in Chans : Deleted(EXIT, d)' => Deleted(EXIT, d)
    BY <2>1 DEF Deleted, callVars
  <2> QED  BY <2>1, <2>2, CallTotals DEF callVars
<1> HIDE DEF IInv, TypeOK, CallTypes
<1>8. ASSUME NEW c \in Chans, Request(c) PROVE TotalRight'
  <2>1. c \in Callers
    BY DEF Callers
  <2> QED  BY <1>1, <1>8, <2>1, OpenTotals, LogTotals DEF Request
<1>9. ASSUME NEW k \in Callers, CallStep(k) PROVE TotalRight'
  BY <1>1, <1>2, <1>3, <1>9, CloseCountTotals, CloseFileTotals DEF CallStep
<1>10. ASSUME NEW p \in Periods, SamplerStep(p) PROVE TotalRight'
  BY <1>5, <1>6, <1>10, SampleTotals, JobTotals DEF SamplerStep
<1> QED  BY <1>4, <1>7, <1>8, <1>9, <1>10 DEF Next, Gone

-----------------------------------------------------------------------------
(* The theorems.                                                           *)

\* However many channels are opened, moved between periods and closed, and
\* with other threads logging on them meanwhile, every event is in ctr or in
\* total_ctr once, and the counts in the log file add up to total_ctr
\* (handlers/fast_periodic_counter_handler.cpp, thr_f).
THEOREM CountsConserved ==
  ASSUME "exit" \notin Races
  PROVE  Spec => []CountConserved
<1>1. CountInv => CountConserved
  BY DEF CountInv, Accounted, CountConserved
<1>2. Init => CountInv
  BY CountInit
<1>3. CountInv /\ [Next]_vars => CountInv'
  BY CountStep
<1> QED  BY <1>1, <1>2, <1>3, PTL DEF Spec

\* An open channel that no call works on is sampled by the thread of its
\* period and by no other one, though moves hand it from thread to thread
\* and threads end when they have nothing left (thr_f, removeThrDescriptor).
THEOREM OneSampler ==
  ASSUME "exit" \notin Races
  PROVE  Spec => []SampledByOne
<1>1. CountInv => SampledByOne
  <2> SUFFICES ASSUME CountInv, NEW c \in Chans,
                      pc[c] = "idle", logf[c] = "open", pc[EXIT] = "run"
               PROVE  {p \in Periods : c \in closures[p]} = {period[c]}
    BY DEF SampledByOne
  <2>1. \A k \in Callers : ~Deleting(k, c) /\ ~Deleted(k, c)
    BY DEF CountInv, AgreeInv, CallersApart, Callers, Deleting, Deleted
  <2>2. isRefCounted[c]
    BY <2>1 DEF CountInv, AgreeInv, OpenRight
  <2>3. c \in closures[period[c]] /\ period[c] \in Periods
    BY <2>2 DEF CountInv, AgreeInv, SampledRight, IInv, TypeOK, ChanTypes
  <2>4. \A p \in Periods : c \in closures[p] => p = period[c]
    BY DEF CountInv, AgreeInv, SampledRight
  <2> QED  BY <2>3, <2>4
<1>2. Init => CountInv
  BY CountInit
<1>3. CountInv /\ [Next]_vars => CountInv'
  BY CountStep
<1> QED  BY <1>1, <1>2, <1>3, PTL DEF Spec

\* A log file accounts for every interval its channel was sampled in and,
\* once it is closed, for every event: the counts add up to the events, and
\* so does the total at its end (printSkippedIntervals, printTotalCount).
\* A thread that logs on a channel while its own thread closes it is left
\* out: what it logs after the deletion is in no file.
THEOREM FilesAccount ==
  ASSUME Races = {}
  PROVE  Spec => []FileAccounts
<1> DEFINE FInv == CountInv /\ TotalRight
<1>1. FInv => FileAccounts
  <2> SUFFICES ASSUME CountInv, TotalRight PROVE FileAccounts
    OBVIOUS
  <2>1. IntervalsAccounted
    BY DEF CountInv, Accounted, IntervalsAccounted
  <2>2. ClosedFileTotals
    <3> SUFFICES ASSUME NEW c \in Chans, logf[c] = "closed"
                 PROVE  out[c].sum = events[c] /\ out[c].total = events[c]
      BY DEF ClosedFileTotals
    <3>1. ctr[c] = 0 /\ out[c].total = total_ctr[c]
      BY DEF TotalRight, TotalWritten
    <3>2. events[c] = ctr[c] + total_ctr[c] /\ out[c].sum = total_ctr[c] /\ total_ctr[c] \in Nat
      BY DEF CountInv, Accounted, IInv, TypeOK, ChanTypes
    <3> QED  BY <3>1, <3>2
  <2> QED  BY <2>1, <2>2 DEF FileAccounts
<1>2. Init => FInv
  <2>1. Init => TotalRight
    BY DEF Init, TotalRight, Deleted
  <2> QED  BY <2>1, CountInit
<1>3. FInv /\ [Next]_vars => FInv'
  BY CountStep, TotalStep DEF CountInv
<1> QED  BY <1>1, <1>2, <1>3, PTL DEF Spec
=============================================================================
