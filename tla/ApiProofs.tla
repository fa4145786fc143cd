----------------------------- MODULE ApiProofs -----------------------------
(***************************************************************************)
(* What is proved of the channels of a process, of its status log, and of   *)
(* the configuration server and the fox channels, for every set of threads, *)
(* of nodes and of tables, and every number of calls.                       *)
(***************************************************************************)
EXTENDS ChannelRegistry, StatusLog, ConfigService, SequenceTheorems,
        FiniteSetTheorems, WellFoundedInduction, TLAPS

-----------------------------------------------------------------------------
(* ChannelRegistry: no invariant of ch_info says why two threads that open  *)
(* channels at once cannot list one twice or give two the same number, nor  *)
(* why a sweep, which runs beside them, misses no channel that was          *)
(* returned.  What each thread inside openChannel has in hand does, and     *)
(* that sweeps follow one another is what mtx_bk is held for.               *)

InOpen == {"init", "push", "name", "file", "parameterize"}
Sweeping == {"sweep", "sweepClose"}
Holding == Sweeping \cup {"push", "search"}
Places == InOpen \cup Sweeping \cup {"idle", "isOpen", "search", "close", "sweepLock", "leave"}

RegTypes ==
  /\ next_channel \in 0..NrChannels
  /\ ch_info \in Seq(Calls)
  /\ registered \in Nat
  /\ ch_nr \in [Calls -> Int]
  /\ ch_logf \in [Calls -> {"new", "open", "closed"}]
  /\ rpc \in [Threads -> Places]
  /\ cl \in [Threads -> 0..NrChannels]
  /\ handles \subseteq 0..NrChannels
  /\ sweep \in Nat

Listed(c) == \E i \in 1..Len(ch_info) : ch_info[i] = c

\* Closures are made in order, numbered in order and listed once.
ListRight ==
  /\ \A c \in Calls : ch_nr[c] \in {-1, c - 1}
  /\ \A i, j \in 1..Len(ch_info) : ch_info[i] = ch_info[j] => i = j
  /\ \A c \in Calls : Listed(c) => c <= next_channel

\* A thread inside openChannel has a closure of its own, listed from the push
\* on, that the application does not know yet.
OpeningRight ==
  \A t \in Threads : rpc[t] \in InOpen =>
    /\ cl[t] \in Calls /\ cl[t] <= next_channel /\ cl[t] \notin handles
    /\ Listed(cl[t]) <=> rpc[t] \notin {"init", "push"}
    /\ rpc[t] = "parameterize" => ch_logf[cl[t]] # "new"
    /\ \A u \in Threads : u # t /\ rpc[u] \in InOpen => cl[u] # cl[t]

\* A channel the application has is listed and has had its file open.
HandlesRight ==
  /\ \A h \in handles \ {0} : Listed(h) /\ ch_logf[h] # "new"
  /\ \A t \in Threads : rpc[t] = "close" => cl[t] \in handles \ {0}

\* A thread at ch_info, but for the tests of openChannel, holds mtx_bk.
MutexRight == \A t \in Threads : rpc[t] \in Holding => mtx_bk = t

\* The sweep at work has closed what it has come past; those that have ended, all.
SweepRight ==
  /\ \A t \in Threads : rpc[t] \in Sweeping => sweep >= 1
  /\ \A t \in Threads : rpc[t] = "sweepClose" => sweep <= Len(ch_info)
  /\ sweep <= Len(ch_info) + 1
  /\ returned \subseteq handles \ {0} /\ vouched \subseteq handles \ {0}
  /\ \A i \in 1..Len(ch_info) :
       i < sweep /\ ch_info[i] \in returned => ch_logf[ch_info[i]] = "closed"
  /\ SweptClosed

\* The inductive invariant
RegInv ==
  /\ RegTypes /\ ListRight /\ RegisteredOnce /\ OpeningRight /\ HandlesRight
  /\ MutexRight /\ SweepRight

\* Nothing is listed, opened or swept at the start.
LEMMA RegInitInv == RegInit => RegInv
<1> SUFFICES ASSUME RegInit PROVE RegInv
  OBVIOUS
<1>1. RegTypes
  BY RegistryAssumption DEF RegInit, RegTypes, Calls, Places, InOpen, Sweeping
<1>2. ListRight /\ RegisteredOnce
  BY DEF RegInit, ListRight, RegisteredOnce, Listed
<1>3. OpeningRight /\ HandlesRight /\ MutexRight /\ SweepRight
  BY RegistryAssumption DEF RegInit, OpeningRight, HandlesRight, MutexRight, Holding, SweepRight,
     SweptClosed, InOpen, Sweeping
<1> QED
  BY <1>1, <1>2, <1>3 DEF RegInv

-----------------------------------------------------------------------------
\* What most steps of a thread t leave alone: what the other threads have in hand, the
\* list and the numbers; and no file becomes new again.
Calm(t) ==
  /\ \A u \in Threads : u # t => rpc'[u] = rpc[u] /\ cl'[u] = cl[u]
  /\ UNCHANGED <<next_channel, ch_info, ch_nr, registered>>
  /\ \A c \in Calls : ch_logf[c] # "new" => ch_logf'[c] # "new"

\* A thread that stays inside openChannel keeps its closure; a channel that becomes
\* known to the application is its own, and it leaves openChannel with it.
KeepsOpening(t) ==
  /\ \A h \in handles' : h \in handles \/ h = 0
                          \/ (rpc[t] \in InOpen /\ rpc'[t] \notin InOpen /\ h = cl[t])
  /\ rpc'[t] \in InOpen =>
       /\ rpc[t] \in InOpen /\ cl'[t] = cl[t]
       /\ rpc'[t] \in {"init", "push"} <=> rpc[t] \in {"init", "push"}
       /\ rpc'[t] = "parameterize" => ch_logf'[cl[t]] # "new"

\* A channel the application comes to know has been parameterized by t.
KeepsHandles(t) ==
  /\ handles \subseteq handles'
  /\ \A h \in handles' : h \in handles \/ h = 0 \/ (rpc[t] = "parameterize" /\ h = cl[t])
  /\ rpc'[t] = "close" => cl'[t] \in handles \ {0}

\* t gets or gives up mtx_bk, or leaves it alone.
KeepsMutex(t) ==
  /\ \/ mtx_bk' = mtx_bk
     \/ mtx_bk = NoThread /\ mtx_bk' = t
     \/ mtx_bk = t /\ mtx_bk' = NoThread
  /\ rpc'[t] \in Holding => mtx_bk' = t

\* What was closed of the channels that had been returned stays closed.
KeepsSweep(t) ==
  /\ UNCHANGED <<sweep, returned, vouched>>
  /\ handles \subseteq handles'
  /\ rpc'[t] \notin Sweeping
  /\ \A c \in returned \cup vouched : ch_logf[c] = "closed" => ch_logf'[c] = "closed"

\* A calm step leaves the list as right as before.
LEMMA CalmList ==
  ASSUME RegInv, NEW t \in Threads, Calm(t)
  PROVE  ListRight' /\ RegisteredOnce'
BY DEF RegInv, Calm, ListRight, RegisteredOnce, Listed

\* ... the threads inside openChannel as right as before,
LEMMA CalmOpening ==
  ASSUME RegInv, NEW t \in Threads, Calm(t), KeepsOpening(t)
  PROVE  OpeningRight'
<1> SUFFICES ASSUME NEW u \in Threads, rpc'[u] \in InOpen
             PROVE  /\ cl'[u] \in Calls /\ cl'[u] <= next_channel' /\ cl'[u] \notin handles'
                    /\ Listed(cl[u])' <=> rpc'[u] \notin {"init", "push"}
                    /\ rpc'[u] = "parameterize" => ch_logf'[cl'[u]] # "new"
                    /\ \A v \in Threads : v # u /\ rpc'[v] \in InOpen => cl'[v] # cl'[u]
  BY DEF OpeningRight
<1>1. /\ rpc[u] \in InOpen /\ cl'[u] = cl[u]
      /\ rpc'[u] \in {"init", "push"} <=> rpc[u] \in {"init", "push"}
  BY DEF Calm, KeepsOpening
<1>2. /\ cl[u] \in Calls /\ cl[u] <= next_channel /\ cl[u] \notin handles
      /\ Listed(cl[u]) <=> rpc[u] \notin {"init", "push"}
      /\ rpc[u] = "parameterize" => ch_logf[cl[u]] # "new"
      /\ \A v \in Threads : v # u /\ rpc[v] \in InOpen => cl[v] # cl[u]
  BY <1>1 DEF RegInv, OpeningRight
<1>3. cl'[u] \notin handles'
  BY <1>1, <1>2 DEF KeepsOpening, Calls
<1>4. Listed(cl[u])' <=> rpc'[u] \notin {"init", "push"}
  BY <1>1, <1>2 DEF Calm, Listed
<1>5. rpc'[u] = "parameterize" => ch_logf'[cl'[u]] # "new"
  BY <1>1, <1>2 DEF Calm, KeepsOpening
<1>6. ASSUME NEW v \in Threads, v # u, rpc'[v] \in InOpen PROVE cl'[v] # cl'[u]
  <2>1. rpc[v] \in InOpen /\ cl'[v] = cl[v]
    BY <1>6 DEF Calm, KeepsOpening
  <2> QED
    BY <2>1, <1>1, <1>2, <1>6
<1> QED
  BY <1>1, <1>2, <1>3, <1>4, <1>5, <1>6 DEF Calm

\* ... the handles as right as before,
LEMMA CalmHandles ==
  ASSUME RegInv, NEW t \in Threads, Calm(t), KeepsHandles(t)
  PROVE  HandlesRight'
<1> USE DEF RegInv, KeepsHandles
<1>1. ASSUME NEW h \in handles', h # 0 PROVE h \in Calls /\ Listed(h) /\ ch_logf[h] # "new"
  <2>1. CASE h \in handles
    BY <1>1, <2>1 DEF HandlesRight, RegTypes, Calls
  <2>2. CASE rpc[t] = "parameterize" /\ h = cl[t]
    BY <2>2 DEF OpeningRight, InOpen
  <2> QED
    BY <1>1, <2>1, <2>2
<1>2. ASSUME NEW h \in handles', h # 0 PROVE Listed(h)' /\ ch_logf'[h] # "new"
  BY <1>1, <1>2 DEF Calm, Listed
<1>3. ASSUME NEW u \in Threads, rpc'[u] = "close" PROVE cl'[u] \in handles' \ {0}
  BY <1>3 DEF Calm, HandlesRight
<1> QED
  BY <1>2, <1>3 DEF HandlesRight

\* ... mtx_bk with the thread that holds it,
LEMMA CalmMutex ==
  ASSUME RegInv, NEW t \in Threads, \A u \in Threads : u # t => rpc'[u] = rpc[u],
         KeepsMutex(t)
  PROVE  MutexRight'
BY RegistryAssumption DEF RegInv, KeepsMutex, MutexRight

\* ... and the sweep too.
LEMMA CalmSweep ==
  ASSUME RegInv, NEW t \in Threads, Calm(t), KeepsSweep(t)
  PROVE  SweepRight'
<1> USE DEF RegInv, KeepsSweep
<1>1. \A u \in Threads : rpc'[u] \in Sweeping => rpc'[u] = rpc[u]
  BY DEF Calm
<1>2. \A u \in Threads : rpc'[u] = "sweepClose" => rpc[u] = "sweepClose"
  BY <1>1 DEF Sweeping
<1>3. \A i \in 1..Len(ch_info) :
        i < sweep /\ ch_info[i] \in returned => ch_logf'[ch_info[i]] = "closed"
  BY DEF SweepRight
<1>4. SweptClosed'
  BY DEF SweepRight, SweptClosed
<1> QED
  BY <1>1, <1>2, <1>3, <1>4 DEF SweepRight, Calm

-----------------------------------------------------------------------------
\* mtx_bk.lock() moves the thread and changes no channel.
LEMMA LockKeeps ==
  ASSUME RegInv, NEW t \in Threads, NEW from \in Places, NEW next \in Places,
         from \in InOpen => from = "init" /\ next = "push",
         next \in InOpen \cup Sweeping \cup {"close"} => from = "init" /\ next = "push",
         Lock(t, from, next)
  PROVE  RegInv'
<1>1. RegTypes'
  BY RegistryAssumption DEF RegInv, RegTypes, Places, InOpen, Sweeping, Calls, closureVars, sweepVars,
     Lock, at, to
<1>2. Calm(t)
  BY DEF RegInv, RegTypes, Calm, Calls, closureVars, Lock, at, to
<1>3. KeepsOpening(t)
  BY DEF RegInv, RegTypes, KeepsOpening, InOpen, Lock, at, to
<1>4. KeepsHandles(t)
  BY DEF RegInv, RegTypes, KeepsHandles, Lock, at, to
<1>5. KeepsSweep(t)
  BY DEF RegInv, RegTypes, KeepsSweep, Sweeping, SweepRight, closureVars, sweepVars,
     Lock, at, to
<1>6. KeepsMutex(t)
  BY DEF RegInv, RegTypes, KeepsMutex, Holding, Sweeping, MutexRight,
     closureVars, Lock, at, to
<1> QED
  BY <1>1, <1>2, <1>3, <1>4, <1>5, <1>6, CalmList, CalmOpening, CalmHandles, CalmMutex,
     CalmSweep DEF RegInv, Calm

\* The name of the log file: without one, openChannel returns a defect channel.
LEMMA NameKeeps ==
  ASSUME RegInv, NEW t \in Threads, closureName(t)
  PROVE  RegInv'
<1>1. RegTypes'
  <2>1. rpc' \in [Threads -> Places]
    BY DEF RegInv, RegTypes, Places, InOpen, closureName, return, at, to
  <2>2. cl' \in [Threads -> 0..NrChannels] /\ handles' \subseteq 0..NrChannels
    <3>1. 0 \in 0..NrChannels /\ cl[t] \in 0..NrChannels
      BY RegistryAssumption DEF RegInv, RegTypes
    <3>2. cl' \in [Threads -> 0..NrChannels]
      BY <3>1 DEF RegInv, RegTypes, closureName, return, at, to
    <3>3. handles' \subseteq handles \cup {0, cl[t]}
      BY DEF closureName, return, at, to
    <3> QED
      BY <3>1, <3>2, <3>3 DEF RegInv, RegTypes
  <2> QED
    BY <2>1, <2>2 DEF RegInv, RegTypes, closureVars, sweepVars, closureName, return, at, to
<1>2. Calm(t)
  BY DEF RegInv, RegTypes, Calm, Calls, closureVars, closureName, return, at, to
<1>3. KeepsOpening(t)
  BY DEF RegInv, RegTypes, KeepsOpening, InOpen, closureName, return, at, to
<1>4. KeepsHandles(t)
  BY DEF RegInv, RegTypes, KeepsHandles, closureName, return, at, to
<1>5. KeepsSweep(t)
  BY DEF RegInv, RegTypes, KeepsSweep, Sweeping, SweepRight, closureVars, sweepVars,
     closureName, return, at, to
<1>6. KeepsMutex(t)
  BY DEF RegInv, RegTypes, KeepsMutex, Holding, Sweeping, MutexRight,
     closureVars, closureName, return, at, to
<1> QED
  BY <1>1, <1>2, <1>3, <1>4, <1>5, <1>6, CalmList, CalmOpening, CalmHandles, CalmMutex,
     CalmSweep DEF RegInv, Calm

\* The file of a channel that was not returned: whether the sweep came past it or not,
\* it is none of those the sweep answers for.
LEMMA FileKeeps ==
  ASSUME RegInv, NEW t \in Threads, closureFile(t)
  PROVE  RegInv'
<1>1. RegTypes'
  <2>1. rpc' \in [Threads -> Places]
    BY DEF RegInv, RegTypes, Places, InOpen, closureFile, return, at, to
  <2>2. cl' \in [Threads -> 0..NrChannels] /\ handles' \subseteq 0..NrChannels
    <3>1. 0 \in 0..NrChannels /\ cl[t] \in 0..NrChannels
      BY RegistryAssumption DEF RegInv, RegTypes
    <3>2. cl' \in [Threads -> 0..NrChannels]
      BY <3>1 DEF RegInv, RegTypes, closureFile, return, at, to
    <3>3. handles' \subseteq handles \cup {0, cl[t]}
      BY DEF closureFile, return, at, to
    <3> QED
      BY <3>1, <3>2, <3>3 DEF RegInv, RegTypes
  <2>3. ch_logf' \in [Calls -> {"new", "open", "closed"}]
    BY DEF RegInv, RegTypes, closureFile, return, at, to
  <2> QED
    BY <2>1, <2>2, <2>3 DEF RegInv, RegTypes, sweepVars, closureFile, return, at, to
<1>2. Calm(t)
  BY DEF RegInv, RegTypes, Calm, Calls, closureVars, closureFile, return, at, to
<1>3. KeepsOpening(t)
  BY DEF RegInv, RegTypes, KeepsOpening, InOpen, OpeningRight, closureFile, return, at, to
<1>4. KeepsHandles(t)
  BY DEF RegInv, RegTypes, KeepsHandles, closureFile, return, at, to
<1>5. KeepsSweep(t)
  <2>1. cl[t] \notin returned \cup vouched
    BY DEF RegInv, SweepRight, OpeningRight, InOpen, closureFile, at
  <2>2. \A c \in returned \cup vouched : ch_logf'[c] = ch_logf[c]
    <3>1. returned \cup vouched \subseteq Calls
      BY DEF RegInv, RegTypes, SweepRight, Calls
    <3> QED
      BY <2>1, <3>1 DEF RegInv, RegTypes, closureFile
  <2> QED
    BY <2>2 DEF RegInv, RegTypes, KeepsSweep, Sweeping, sweepVars, closureFile, return, at, to
<1>6. KeepsMutex(t)
  BY DEF RegInv, RegTypes, KeepsMutex, Holding, Sweeping, MutexRight, closureFile, return, at, to
<1> QED
  BY <1>1, <1>2, <1>3, <1>4, <1>5, <1>6, CalmList, CalmOpening, CalmHandles, CalmMutex,
     CalmSweep DEF RegInv, Calm

\* openChannel returns its channel, which is listed and has had its file open.
LEMMA EndKeeps ==
  ASSUME RegInv, NEW t \in Threads, openChannelEnd(t)
  PROVE  RegInv'
<1>1. RegTypes'
  <2>1. rpc' \in [Threads -> Places]
    BY DEF RegInv, RegTypes, Places, InOpen, openChannelEnd, return, at, to
  <2>2. cl' \in [Threads -> 0..NrChannels] /\ handles' \subseteq 0..NrChannels
    <3>1. 0 \in 0..NrChannels /\ cl[t] \in 0..NrChannels
      BY RegistryAssumption DEF RegInv, RegTypes
    <3>2. cl' \in [Threads -> 0..NrChannels]
      BY <3>1 DEF RegInv, RegTypes, openChannelEnd, return, at, to
    <3>3. handles' \subseteq handles \cup {0, cl[t]}
      BY DEF openChannelEnd, return, at, to
    <3> QED
      BY <3>1, <3>2, <3>3 DEF RegInv, RegTypes
  <2> QED
    BY <2>1, <2>2 DEF RegInv, RegTypes, closureVars, sweepVars, openChannelEnd, return, at, to
<1>2. Calm(t)
  BY DEF RegInv, RegTypes, Calm, Calls, closureVars, openChannelEnd, return, at, to
<1>3. KeepsOpening(t)
  BY DEF RegInv, RegTypes, KeepsOpening, InOpen, openChannelEnd, return, at, to
<1>4. KeepsHandles(t)
  BY DEF RegInv, RegTypes, KeepsHandles, openChannelEnd, return, at, to
<1>5. KeepsSweep(t)
  BY DEF RegInv, RegTypes, KeepsSweep, Sweeping, SweepRight, closureVars, sweepVars,
     openChannelEnd, return, at, to
<1>6. KeepsMutex(t)
  BY DEF RegInv, RegTypes, KeepsMutex, Holding, Sweeping, MutexRight,
     closureVars, openChannelEnd, return, at, to
<1> QED
  BY <1>1, <1>2, <1>3, <1>4, <1>5, <1>6, CalmList, CalmOpening, CalmHandles, CalmMutex,
     CalmSweep DEF RegInv, Calm

\* isOpen is called.
LEMMA IsOpenCallKeeps ==
  ASSUME RegInv, NEW t \in Threads, NEW h \in 0 .. NrChannels, isOpenCall(t, h)
  PROVE  RegInv'
<1>1. RegTypes'
  BY RegistryAssumption DEF RegInv, RegTypes, Places, InOpen, Sweeping, Calls, closureVars, sweepVars,
     isOpenCall, at, to
<1>2. Calm(t)
  BY DEF RegInv, RegTypes, Calm, Calls, closureVars, isOpenCall, at, to
<1>3. KeepsOpening(t)
  BY DEF RegInv, RegTypes, KeepsOpening, InOpen, isOpenCall, at, to
<1>4. KeepsHandles(t)
  BY DEF RegInv, RegTypes, KeepsHandles, isOpenCall, at, to
<1>5. KeepsSweep(t)
  BY DEF RegInv, RegTypes, KeepsSweep, Sweeping, SweepRight, closureVars, sweepVars,
     isOpenCall, at, to
<1>6. KeepsMutex(t)
  BY DEF RegInv, RegTypes, KeepsMutex, Holding, Sweeping, MutexRight,
     closureVars, isOpenCall, at, to
<1> QED
  BY <1>1, <1>2, <1>3, <1>4, <1>5, <1>6, CalmList, CalmOpening, CalmHandles, CalmMutex,
     CalmSweep DEF RegInv, Calm

\* isOpen returns, whatever it answers.
LEMMA IsOpenReturnKeeps ==
  ASSUME RegInv, NEW t \in Threads, isOpenReturn(t)
  PROVE  RegInv'
<1>1. RegTypes'
  BY RegistryAssumption DEF RegInv, RegTypes, Places, InOpen, Sweeping, Calls, closureVars, sweepVars,
     isOpenReturn, at, to
<1>2. Calm(t)
  BY DEF RegInv, RegTypes, Calm, Calls, closureVars, isOpenReturn, at, to
<1>3. KeepsOpening(t)
  BY DEF RegInv, RegTypes, KeepsOpening, InOpen, isOpenReturn, at, to
<1>4. KeepsHandles(t)
  BY DEF RegInv, RegTypes, KeepsHandles, isOpenReturn, at, to
<1>5. KeepsSweep(t)
  BY DEF RegInv, RegTypes, KeepsSweep, Sweeping, SweepRight, closureVars, sweepVars,
     isOpenReturn, at, to
<1>6. KeepsMutex(t)
  BY DEF RegInv, RegTypes, KeepsMutex, Holding, Sweeping, MutexRight,
     closureVars, isOpenReturn, released, at, to
<1> QED
  BY <1>1, <1>2, <1>3, <1>4, <1>5, <1>6, CalmList, CalmOpening, CalmHandles, CalmMutex,
     CalmSweep DEF RegInv, Calm

\* closeChannel tests whether the file is open.
LEMMA CloseBeginKeeps ==
  ASSUME RegInv, NEW t \in Threads, NEW h \in 0 .. NrChannels, closeChannelBegin(t, h)
  PROVE  RegInv'
<1>1. RegTypes'
  <2>1. rpc' \in [Threads -> Places]
    BY DEF RegInv, RegTypes, Places, InOpen, closeChannelBegin, closeTest, at, to
  <2>2. cl' \in [Threads -> 0..NrChannels] /\ handles' \subseteq 0..NrChannels
    BY RegistryAssumption DEF RegInv, RegTypes, closeChannelBegin, closeTest, at, to
  <2> QED
    BY <2>1, <2>2 DEF RegInv, RegTypes, closureVars, sweepVars, closeChannelBegin, closeTest, at, to
<1>2. Calm(t)
  BY DEF RegInv, RegTypes, Calm, Calls, closureVars, closeChannelBegin, closeTest, at, to
<1>3. KeepsOpening(t)
  BY DEF RegInv, RegTypes, KeepsOpening, InOpen, closeChannelBegin, closeTest, at, to
<1>4. KeepsHandles(t)
  BY DEF RegInv, RegTypes, KeepsHandles, closeChannelBegin, closeTest, at, to
<1>5. KeepsSweep(t)
  BY DEF RegInv, RegTypes, KeepsSweep, Sweeping, SweepRight, closureVars, sweepVars,
     closeChannelBegin, closeTest, at, to
<1>6. KeepsMutex(t)
  BY DEF RegInv, RegTypes, KeepsMutex, Holding, Sweeping, MutexRight,
     closureVars, closeChannelBegin, closeTest, at, to
<1> QED
  BY <1>1, <1>2, <1>3, <1>4, <1>5, <1>6, CalmList, CalmOpening, CalmHandles, CalmMutex,
     CalmSweep DEF RegInv, Calm

\* closeChannel closes the file, if nobody has meanwhile.
LEMMA CloseEndKeeps ==
  ASSUME RegInv, NEW t \in Threads, closeChannelEnd(t)
  PROVE  RegInv'
<1>1. RegTypes'
  BY RegistryAssumption DEF RegInv, RegTypes, Places, InOpen, Sweeping, Calls, closureVars, sweepVars,
     closeChannelEnd, closeFile, HandlesRight, at, to
<1>2. Calm(t)
  BY DEF RegInv, RegTypes, Calm, Calls, closureVars, closeChannelEnd, closeFile, HandlesRight, at, to
<1>3. KeepsOpening(t)
  BY DEF RegInv, RegTypes, KeepsOpening, InOpen, closeChannelEnd, closeFile, HandlesRight, at, to
<1>4. KeepsHandles(t)
  BY DEF RegInv, RegTypes, KeepsHandles, closeChannelEnd, closeFile, HandlesRight, at, to
<1>5. KeepsSweep(t)
  BY DEF RegInv, RegTypes, KeepsSweep, Sweeping, SweepRight, closureVars, sweepVars,
     closeChannelEnd, closeFile, HandlesRight, at, to
<1>6. KeepsMutex(t)
  BY DEF RegInv, RegTypes, KeepsMutex, Holding, Sweeping, MutexRight,
     closureVars, closeChannelEnd, closeFile, HandlesRight, at, to
<1> QED
  BY <1>1, <1>2, <1>3, <1>4, <1>5, <1>6, CalmList, CalmOpening, CalmHandles, CalmMutex,
     CalmSweep DEF RegInv, Calm

\* The process ends.
LEMMA LeaveKeeps ==
  ASSUME RegInv, NEW t \in Threads, leave(t)
  PROVE  RegInv'
BY DEF leave, closureVars, sweepVars, RegInv, RegTypes, ListRight, Listed, RegisteredOnce,
   OpeningRight, HandlesRight, MutexRight, SweepRight, SweptClosed

\* A thread begins to sweep, out of no call or, on a signal, of any: what it had in
\* hand stays as it was.
LEMMA BeginKeeps ==
  ASSUME RegInv, NEW t \in Threads, Begin(t)
  PROVE  RegInv'
<1>1. RegTypes'
  BY RegistryAssumption DEF RegInv, RegTypes, Places, closureVars, Begin, to
<1>2. Calm(t) /\ rpc'[t] = "sweepLock"
  BY DEF RegInv, RegTypes, Calm, closureVars, Begin, to
<1>3. KeepsOpening(t) /\ KeepsHandles(t)
  BY <1>2 DEF KeepsOpening, KeepsHandles, InOpen, Begin
<1>4. KeepsMutex(t) /\ KeepsSweep(t)
  BY <1>2 DEF KeepsMutex, KeepsSweep, Holding, Sweeping, Begin, closureVars
<1> QED
  BY <1>1, <1>2, <1>3, <1>4, CalmList, CalmOpening, CalmHandles, CalmMutex, CalmSweep
     DEF RegInv, Calm

\* A sweep gets mtx_bk, so no other is at work, and answers for what is returned by now.
LEMMA SweepLockKeeps ==
  ASSUME RegInv, NEW t \in Threads, sweepLock(t)
  PROVE  RegInv'
<1>1. RegTypes'
  BY DEF RegInv, RegTypes, Places, Sweeping, closureVars, sweepLock, at, to
<1>2. Calm(t) /\ rpc'[t] = "sweep"
  BY DEF RegInv, RegTypes, Calm, closureVars, sweepLock, at, to
<1>3. KeepsOpening(t) /\ KeepsHandles(t)
  BY <1>2 DEF KeepsOpening, KeepsHandles, InOpen, sweepLock
<1>4. KeepsMutex(t)
  BY <1>2 DEF KeepsMutex, sweepLock
<1>5. SweepRight'
  <2>1. /\ sweep' = 1 /\ returned' = handles' \ {0} /\ mtx_bk = NoThread
        /\ UNCHANGED <<handles, vouched, ch_info, ch_logf>>
    BY DEF sweepLock, closureVars
  <2>2. \A u \in Threads : rpc'[u] # "sweepClose"
    BY <1>2, <2>1, RegistryAssumption DEF RegInv, MutexRight, Holding, Sweeping, Calm
  <2> QED
    BY <2>1, <2>2 DEF RegInv, RegTypes, SweepRight, SweptClosed
<1> QED
  BY <1>1, <1>2, <1>3, <1>4, <1>5, CalmList, CalmOpening, CalmHandles, CalmMutex
     DEF RegInv, Calm

\* A sweep has come past every channel.
LEMMA SweepEndKeeps ==
  ASSUME RegInv, NEW t \in Threads, sweepEnd(t)
  PROVE  RegInv'
<1>1. RegTypes'
  BY DEF RegInv, RegTypes, Places, closureVars, sweepEnd, at, to
<1>2. Calm(t) /\ rpc'[t] = "leave"
  BY DEF RegInv, RegTypes, Calm, closureVars, sweepEnd, at, to
<1>3. KeepsOpening(t) /\ KeepsHandles(t)
  BY <1>2 DEF KeepsOpening, KeepsHandles, InOpen, sweepEnd
<1>4. KeepsMutex(t)
  BY <1>2 DEF RegInv, KeepsMutex, MutexRight, Holding, Sweeping, sweepEnd, at
<1>5. SweepRight'
  <2>1. /\ vouched' = vouched \cup returned /\ sweep > Len(ch_info)
        /\ UNCHANGED <<sweep, returned, handles, ch_info, ch_logf>>
    BY DEF sweepEnd, swept, closureVars
  <2>2. ASSUME NEW c \in returned PROVE ch_logf[c] = "closed"
    <3>1. PICK i \in 1..Len(ch_info) : ch_info[i] = c
      BY DEF RegInv, SweepRight, HandlesRight, Listed
    <3>2. i < sweep
      BY <3>1, <2>1 DEF RegInv, RegTypes
    <3> QED
      BY <3>1, <3>2 DEF RegInv, SweepRight
  <2>3. SweptClosed'
    BY <2>1, <2>2 DEF RegInv, SweepRight, SweptClosed
  <2>4. \A u \in Threads : rpc'[u] \in Sweeping => rpc'[u] = rpc[u]
    BY <1>2 DEF Calm, Sweeping
  <2>5. \A u \in Threads : rpc'[u] = "sweepClose" => rpc[u] = "sweepClose"
    BY <2>4 DEF Sweeping
  <2> QED
    BY <2>1, <2>3, <2>4, <2>5 DEF RegInv, SweepRight
<1> QED
  BY <1>1, <1>2, <1>3, <1>4, <1>5, CalmList, CalmOpening, CalmHandles, CalmMutex
     DEF RegInv, Calm

\* The sweep looks at a channel.  It passes one that is not open: if the channel had
\* been returned, its file has been open, so it is closed.
LEMMA SweepTestKeeps ==
  ASSUME RegInv, NEW t \in Threads, sweepTest(t)
  PROVE  RegInv'
<1> DEFINE c == ch_info[sweep]
<1>1. /\ rpc[t] = "sweep" /\ sweep \in 1..Len(ch_info) /\ mtx_bk = t
      /\ ch_info[sweep] \in Calls
  BY DEF RegInv, RegTypes, SweepRight, MutexRight, Holding, Sweeping, sweepTest, swept, at
<1>2. /\ UNCHANGED <<next_channel, ch_info, mtx_bk, registered, ch_nr, ch_logf, cl, handles,
                     returned, vouched>>
      /\ \/ ch_logf[c] = "open" /\ to(t, "sweepClose") /\ sweep' = sweep
         \/ ch_logf[c] # "open" /\ rpc' = rpc /\ sweep' = sweep + 1
  BY <1>1 DEF sweepTest, closeTest
<1> HIDE DEF c
<1>3. RegTypes'
  <2>1. rpc' \in [Threads -> Places]
    BY <1>2 DEF RegInv, RegTypes, to, Places, Sweeping
  <2>2. sweep' \in Nat
    BY <1>2 DEF RegInv, RegTypes
  <2> QED
    BY <1>2, <2>1, <2>2 DEF RegInv, RegTypes
<1>4. Calm(t) /\ rpc'[t] \in {"sweep", "sweepClose"}
  BY <1>1, <1>2 DEF RegInv, RegTypes, Calm, to
<1>5. KeepsOpening(t) /\ KeepsHandles(t) /\ KeepsMutex(t)
  BY <1>1, <1>2, <1>4 DEF KeepsOpening, KeepsHandles, KeepsMutex, InOpen
<1>6. SweepRight'
  <2>1. \A u \in Threads : u # t => rpc'[u] \notin Sweeping
    BY <1>1, <1>4 DEF RegInv, MutexRight, Holding, Calm
  <2>2. \A u \in Threads : rpc'[u] = "sweepClose" => sweep' <= Len(ch_info')
    <3>1. CASE ch_logf[c] = "open"
      BY <3>1, <1>1, <1>2
    <3>2. CASE rpc' = rpc
      BY <3>2, <1>1, <2>1, <1>2 DEF Sweeping
    <3> QED
      BY <3>1, <3>2, <1>2
  <2>3. ASSUME NEW i \in 1..Len(ch_info), i < sweep', ch_info[i] \in returned
        PROVE  ch_logf[ch_info[i]] = "closed"
    <3>1. CASE i < sweep
      BY <3>1, <2>3 DEF RegInv, SweepRight
    <3>2. CASE i = sweep
      BY <3>2, <2>3, <1>1, <1>2 DEF RegInv, RegTypes, SweepRight, HandlesRight, c
    <3> QED
      BY <3>1, <3>2, <2>3, <1>1, <1>2
  <2>4. sweep' >= 1 /\ sweep' <= Len(ch_info') + 1
    BY <1>1, <1>2 DEF RegInv, RegTypes
  <2>5. SweptClosed'
    BY <1>2 DEF RegInv, SweepRight, SweptClosed
  <2> QED
    BY <2>2, <2>3, <2>4, <2>5, <1>2 DEF RegInv, SweepRight
<1> QED
  BY <1>3, <1>4, <1>5, <1>6, CalmList, CalmOpening, CalmHandles, CalmMutex DEF RegInv, Calm

\* The sweep closes a channel and goes on.
LEMMA SweepCloseKeeps ==
  ASSUME RegInv, NEW t \in Threads, sweepClose(t)
  PROVE  RegInv'
<1>1. /\ rpc[t] = "sweepClose" /\ sweep \in 1..Len(ch_info) /\ mtx_bk = t
      /\ ch_info[sweep] \in Calls
  BY DEF RegInv, RegTypes, SweepRight, MutexRight, Holding, Sweeping, sweepClose, at
<1>2. /\ UNCHANGED <<next_channel, ch_info, mtx_bk, registered, ch_nr, cl, handles, returned,
                     vouched>>
      /\ to(t, "sweep") /\ sweep' = sweep + 1
      /\ ch_logf' = [ch_logf EXCEPT ![ch_info[sweep]] = "closed"]
  BY <1>1 DEF sweepClose, closeFile
<1>3. RegTypes'
  BY <1>1, <1>2 DEF RegInv, RegTypes, to, Places, Sweeping
<1>4. Calm(t) /\ rpc'[t] = "sweep"
  BY <1>1, <1>2 DEF RegInv, RegTypes, Calm, to
<1>5. KeepsOpening(t) /\ KeepsHandles(t) /\ KeepsMutex(t)
  BY <1>1, <1>2, <1>4 DEF KeepsOpening, KeepsHandles, KeepsMutex, InOpen
<1>6. SweepRight'
  <2>1. \A u \in Threads : u # t => rpc'[u] \notin Sweeping
    BY <1>1, <1>4 DEF RegInv, MutexRight, Holding, Calm
  <2>2. \A u \in Threads : rpc'[u] # "sweepClose"
    BY <1>4, <2>1 DEF Sweeping
  <2>3. ASSUME NEW i \in 1..Len(ch_info), i < sweep', ch_info[i] \in returned
        PROVE  ch_logf'[ch_info[i]] = "closed"
    <3>1. ch_info[i] \in Calls
      BY DEF RegInv, RegTypes
    <3>2. i < sweep \/ i = sweep
      BY <2>3, <1>1, <1>2
    <3> QED
      BY <3>1, <3>2, <2>3, <1>2 DEF RegInv, RegTypes, SweepRight
  <2>4. SweptClosed'
    <3>1. vouched \subseteq Calls
      BY DEF RegInv, RegTypes, SweepRight, Calls
    <3> QED
      BY <3>1, <1>2 DEF RegInv, RegTypes, SweepRight, SweptClosed
  <2> QED
    BY <2>1, <2>2, <2>3, <2>4, <1>1, <1>2 DEF RegInv, RegTypes, SweepRight
<1> QED
  BY <1>3, <1>4, <1>5, <1>6, CalmList, CalmOpening, CalmHandles, CalmMutex DEF RegInv, Calm

\* openChannel makes the next closure, which no thread has and which is not listed.
LEMMA OpenBeginKeeps ==
  ASSUME RegInv, NEW t \in Threads, openChannelBegin(t)
  PROVE  RegInv'
<1> DEFINE n == next_channel + 1
<1>1. /\ rpc[t] = "idle" /\ process = "running" /\ n \in Calls /\ next_channel' = n
      /\ UNCHANGED <<ch_info, mtx_bk, registered, ch_logf, sweep, returned, vouched>>
      /\ n \notin handles /\ ~Listed(n)
  <2>1. /\ rpc[t] = "idle" /\ process = "running" /\ n \in Calls /\ next_channel' = n
        /\ UNCHANGED <<ch_info, mtx_bk, registered, ch_logf, sweep, returned, vouched>>
    BY RegistryAssumption DEF RegInv, RegTypes, openChannelBegin, at, Calls, sweepVars
  <2>2. ~Listed(n)
    BY <2>1 DEF RegInv, RegTypes, ListRight
  <2>3. n \notin handles
    BY <2>1, <2>2 DEF RegInv, HandlesRight, Calls
  <2> QED
    BY <2>1, <2>2, <2>3
<1>2. \/ /\ cl' = [cl EXCEPT ![t] = n] /\ ch_nr' = [ch_nr EXCEPT ![n] = next_channel]
         /\ rpc' = [rpc EXCEPT ![t] = "init"] /\ handles' = handles
      \/ handles' = handles \cup {0} /\ UNCHANGED <<cl, ch_nr, rpc>>
  BY DEF openChannelBegin, to, number
<1> HIDE DEF n
<1>3. RegTypes'
  <2>1. n \in 0..NrChannels /\ next_channel \in Int /\ 0 \in 0..NrChannels
    BY <1>1, RegistryAssumption DEF RegInv, RegTypes, Calls
  <2>2. handles' \subseteq 0..NrChannels
    BY <1>2, <2>1 DEF RegInv, RegTypes
  <2>3. cl' \in [Threads -> 0..NrChannels]
    BY <1>2, <2>1 DEF RegInv, RegTypes
  <2>4. ch_nr' \in [Calls -> Int]
    BY <1>2, <2>1 DEF RegInv, RegTypes
  <2>5. rpc' \in [Threads -> Places]
    BY <1>2 DEF RegInv, RegTypes, Places, InOpen
  <2> QED
    BY <1>1, <2>1, <2>2, <2>3, <2>4, <2>5 DEF RegInv, RegTypes
<1>4. ListRight' /\ RegisteredOnce'
  <2>1. \A c \in Calls : ch_nr'[c] \in {-1, c - 1}
    BY <1>1, <1>2 DEF RegInv, RegTypes, ListRight, n
  <2>2. \A c \in Calls : Listed(c)' => c <= next_channel'
    BY <1>1 DEF RegInv, RegTypes, ListRight, Listed, Calls, n
  <2> QED
    BY <1>1, <2>1, <2>2 DEF RegInv, ListRight, RegisteredOnce
<1>5. ASSUME NEW u \in Threads
      PROVE  \/ u # t /\ rpc'[u] = rpc[u] /\ cl'[u] = cl[u]
             \/ u = t /\ rpc'[u] = "init" /\ cl'[u] = n /\ handles' = handles
             \/ u = t /\ rpc'[u] = "idle"
  BY <1>1, <1>2 DEF RegInv, RegTypes
<1>6. OpeningRight'
  <2> SUFFICES ASSUME NEW u \in Threads, rpc'[u] \in InOpen
               PROVE  /\ cl'[u] \in Calls /\ cl'[u] <= next_channel' /\ cl'[u] \notin handles'
                      /\ Listed(cl[u])' <=> rpc'[u] \notin {"init", "push"}
                      /\ rpc'[u] = "parameterize" => ch_logf'[cl'[u]] # "new"
                      /\ \A v \in Threads : v # u /\ rpc'[v] \in InOpen => cl'[v] # cl'[u]
    BY DEF OpeningRight
  <2>1. ASSUME NEW v \in Threads, v # t, rpc'[v] \in InOpen
        PROVE  /\ rpc[v] \in InOpen /\ rpc'[v] = rpc[v] /\ cl'[v] = cl[v]
               /\ cl[v] \in Calls /\ cl[v] < n /\ cl[v] \notin handles'
    <3>1. rpc'[v] = rpc[v] /\ cl'[v] = cl[v]
      BY <1>5, <2>1
    <3>2. cl[v] \in Calls /\ cl[v] <= next_channel /\ cl[v] \notin handles
      BY <3>1, <2>1 DEF RegInv, OpeningRight
    <3>3. cl[v] < n
      BY <3>2 DEF RegInv, RegTypes, Calls, n
    <3> QED
      BY <2>1, <3>1, <3>2, <3>3, <1>2 DEF Calls
  <2>2. CASE u # t
    <3>1. /\ rpc[u] \in InOpen /\ rpc'[u] = rpc[u] /\ cl'[u] = cl[u]
          /\ cl[u] \in Calls /\ cl[u] < n /\ cl[u] \notin handles'
      BY <2>1, <2>2
    <3>2. Listed(cl[u])' <=> Listed(cl[u])
      BY <1>1, <3>1 DEF Listed
    <3>3. \A v \in Threads : v # u /\ rpc'[v] \in InOpen => cl'[v] # cl'[u]
      BY <2>1, <2>2, <3>1, <1>5 DEF RegInv, OpeningRight, InOpen, Calls
    <3>4. cl'[u] <= next_channel'
      BY <3>1, <1>1 DEF Calls
    <3> QED
      BY <3>1, <3>2, <3>3, <3>4, <1>1 DEF RegInv, OpeningRight
  <2>3. CASE u = t
    <3>1. rpc'[u] = "init" /\ cl'[u] = n /\ handles' = handles
      BY <2>3, <1>5 DEF InOpen
    <3>2. ~Listed(cl[u])'
      BY <3>1, <1>1 DEF Listed
    <3>3. \A v \in Threads : v # u /\ rpc'[v] \in InOpen => cl'[v] # cl'[u]
      BY <2>1, <2>3, <3>1, <1>1 DEF Calls
    <3>4. cl'[u] <= next_channel'
      BY <3>1, <1>1 DEF Calls
    <3> QED
      BY <3>1, <3>2, <3>3, <3>4, <1>1
  <2> QED
    BY <2>2, <2>3
<1>7. HandlesRight'
  <2>1. ASSUME NEW h \in handles', h # 0 PROVE Listed(h)' /\ ch_logf'[h] # "new"
    BY <2>1, <1>1, <1>2 DEF RegInv, HandlesRight, Listed
  <2>2. ASSUME NEW u \in Threads, rpc'[u] = "close" PROVE cl'[u] \in handles' \ {0}
    BY <2>2, <1>5, <1>2 DEF RegInv, HandlesRight
  <2> QED
    BY <2>1, <2>2 DEF HandlesRight
<1>8. MutexRight' /\ SweepRight'
  <2>1. \A u \in Threads : rpc'[u] \in Holding => rpc[u] = rpc'[u]
    BY <1>5 DEF Sweeping, Holding
  <2>2. handles \subseteq handles'
    BY <1>2
  <2>3. \A u \in Threads : rpc'[u] = "sweepClose" => rpc[u] = "sweepClose"
    BY <2>1 DEF Sweeping, Holding
  <2>4. MutexRight'
    BY <1>1, <2>1 DEF RegInv, MutexRight
  <2> QED
    BY <1>1, <2>1, <2>2, <2>3, <2>4 DEF RegInv, SweepRight, SweptClosed, Holding
<1> QED
  BY <1>3, <1>4, <1>6, <1>7, <1>8 DEF RegInv

\* openChannel lists its closure, under mtx_bk; the first to do so registers the sweep.
\* No sweep is at work; one that comes later does not answer for it before it is returned.
LEMMA PushKeeps ==
  ASSUME RegInv, NEW t \in Threads, openChannelPush(t)
  PROVE  RegInv'
<1> DEFINE n == Len(ch_info) + 1
<1>1. /\ rpc[t] = "push" /\ process = "running" /\ cl[t] \in Calls /\ ch_info \in Seq(Calls)
      /\ cl[t] \notin handles /\ ~Listed(cl[t]) /\ cl[t] <= next_channel
      /\ \A u \in Threads : u # t /\ rpc[u] \in InOpen => cl[u] # cl[t]
  BY DEF RegInv, RegTypes, OpeningRight, InOpen, openChannelPush, at
<1>2. /\ UNCHANGED <<next_channel, ch_nr, ch_logf, cl, handles, sweep, returned, vouched>>
      /\ mtx_bk' = NoThread
      /\ rpc' = [rpc EXCEPT ![t] = "name"] /\ ch_info' = Append(ch_info, cl[t])
      /\ registered' = IF ch_info = <<>> THEN registered + 1 ELSE registered
  BY DEF openChannelPush, listed, firstChannel, to, closureVars, sweepVars
<1>3. /\ ch_info' \in Seq(Calls) /\ Len(ch_info') = n /\ ch_info'[n] = cl[t]
      /\ \A i \in 1..Len(ch_info) : ch_info'[i] = ch_info[i]
      /\ Len(ch_info) \in Nat
  BY <1>1, <1>2
<1>4. /\ \A c \in Calls : Listed(c)' <=> Listed(c) \/ c = cl[t]
      /\ \A i \in 1..n : i \in 1..Len(ch_info) \/ i = n
  <2>1. \A i \in 1..n : i \in 1..Len(ch_info) \/ i = n
    BY <1>3
  <2>2. n \in 1..n
    BY <1>3
  <2>3. 1..Len(ch_info) \subseteq 1..n
    BY <1>3
  <2> QED
    BY <1>3, <2>1, <2>2, <2>3 DEF Listed
<1> HIDE DEF n
<1>5. /\ rpc'[t] = "name"
      /\ \A u \in Threads : u # t => rpc'[u] = rpc[u]
  BY <1>2 DEF RegInv, RegTypes
<1>6. RegTypes' /\ RegisteredOnce'
  <2>1. registered' \in Nat
    BY <1>2 DEF RegInv, RegTypes
  <2>2. rpc' \in [Threads -> Places]
    BY <1>2 DEF RegInv, RegTypes, Places, InOpen
  <2>3. ch_info' # <<>>
    BY <1>3, <1>1 DEF n
  <2>4. RegisteredOnce'
    BY <1>2, <2>3 DEF RegInv, RegTypes, RegisteredOnce
  <2> QED
    BY <1>2, <1>3, <2>1, <2>2, <2>4 DEF RegInv, RegTypes
<1>7. ListRight'
  <2>1. ASSUME NEW i \in 1..Len(ch_info'), NEW j \in 1..Len(ch_info'), ch_info'[i] = ch_info'[j]
        PROVE  i = j
    <3>1. ASSUME NEW k \in 1..Len(ch_info) PROVE ch_info[k] # cl[t]
      BY <1>1 DEF Listed
    <3> QED
      BY <2>1, <3>1, <1>3, <1>4 DEF RegInv, ListRight
  <2>2. \A c \in Calls : Listed(c)' => c <= next_channel'
    BY <1>1, <1>2, <1>4 DEF RegInv, ListRight
  <2> QED
    BY <2>1, <2>2, <1>2 DEF RegInv, ListRight
<1>8. OpeningRight'
  <2> SUFFICES ASSUME NEW u \in Threads, rpc'[u] \in InOpen
               PROVE  /\ cl'[u] \in Calls /\ cl'[u] <= next_channel' /\ cl'[u] \notin handles'
                      /\ Listed(cl[u])' <=> rpc'[u] \notin {"init", "push"}
                      /\ rpc'[u] = "parameterize" => ch_logf'[cl'[u]] # "new"
                      /\ \A v \in Threads : v # u /\ rpc'[v] \in InOpen => cl'[v] # cl'[u]
    BY DEF OpeningRight
  <2>1. \A v \in Threads : rpc'[v] \in InOpen => rpc[v] \in InOpen
    BY <1>1, <1>5 DEF InOpen
  <2>2. /\ cl[u] \in Calls /\ cl[u] <= next_channel /\ cl[u] \notin handles
        /\ Listed(cl[u]) <=> rpc[u] \notin {"init", "push"}
        /\ rpc[u] = "parameterize" => ch_logf[cl[u]] # "new"
        /\ \A v \in Threads : v # u /\ rpc[v] \in InOpen => cl[v] # cl[u]
    BY <2>1 DEF RegInv, OpeningRight
  <2>3. PICK c \in Calls : c = cl[u] /\ c = cl'[u]
    BY <2>2, <1>2
  <2>4. Listed(c)' <=> Listed(c) \/ c = cl[t]
    BY <1>4
  <2>5. Listed(cl[u])' <=> Listed(cl[u]) \/ u = t
    <3>1. Listed(cl[u])' <=> Listed(c)'
      BY <2>3 DEF Listed
    <3> QED
      BY <3>1, <2>1, <2>2, <2>3, <2>4, <1>1
  <2> QED
    BY <2>1, <2>2, <2>5, <1>2, <1>5
<1>9. HandlesRight'
  <2>1. ASSUME NEW h \in handles', h # 0 PROVE Listed(h)' /\ ch_logf'[h] # "new"
    <3>1. h \in Calls /\ Listed(h)
      BY <2>1, <1>2 DEF RegInv, RegTypes, HandlesRight, Calls
    <3> QED
      BY <2>1, <3>1, <1>2, <1>4 DEF RegInv, HandlesRight
  <2>2. ASSUME NEW u \in Threads, rpc'[u] = "close" PROVE cl'[u] \in handles' \ {0}
    BY <2>2, <1>2, <1>5 DEF RegInv, HandlesRight
  <2> QED
    BY <2>1, <2>2 DEF HandlesRight
<1>10. MutexRight' /\ SweepRight'
  <2>1. \A u \in Threads : rpc'[u] \notin Holding
    BY <1>1, <1>5 DEF RegInv, MutexRight, Holding, Sweeping
  <2>2. ASSUME NEW i \in 1..Len(ch_info'), i < sweep', ch_info'[i] \in returned'
        PROVE  ch_logf'[ch_info'[i]] = "closed"
    <3>1. i \in 1..Len(ch_info)
      BY <2>2, <1>1, <1>2, <1>3, <1>4 DEF RegInv, SweepRight
    <3> QED
      BY <2>2, <3>1, <1>2, <1>3 DEF RegInv, SweepRight
  <2>3. sweep <= Len(ch_info) + 1 => sweep <= Len(ch_info') + 1
    BY <1>3 DEF RegInv, RegTypes, n
  <2>4. MutexRight'
    BY <2>1 DEF MutexRight
  <2>5. SweptClosed'
    BY <1>2 DEF RegInv, SweepRight, SweptClosed
  <2> QED
    BY <1>2, <2>1, <2>2, <2>3, <2>4, <2>5 DEF RegInv, SweepRight, Holding, Sweeping
<1> QED
  BY <1>6, <1>7, <1>8, <1>9, <1>10 DEF RegInv

\* Every step of a thread keeps the invariant.
LEMMA RegNextInv == RegInv /\ [RegNext]_regVars => RegInv'
<1> SUFFICES ASSUME RegInv, [RegNext]_regVars PROVE RegInv'
  OBVIOUS
<1>1. CASE UNCHANGED regVars
  BY <1>1 DEF regVars, closureVars, sweepVars, RegInv, RegTypes, ListRight, Listed,
     RegisteredOnce, OpeningRight, HandlesRight, MutexRight, SweepRight, SweptClosed
<1>2. CASE RegNext
  <2>1. PICK t \in Threads :
          \/ openChannelBegin(t) \/ RegStep(t)
          \/ \E h \in 0 .. NrChannels : isOpenCall(t, h) \/ closeChannelBegin(t, h)
          \/ cleanUpAtNormalExit(t) \/ \E signum \in Signals : cleanUpAtAbnormalExit(t, signum)
    BY <1>2 DEF RegNext
  <2>2. CASE openChannelBegin(t)
    BY <2>2, OpenBeginKeeps
  <2>3. CASE RegStep(t)
    <3>1. CASE openChannelLock(t) \/ isOpenLock(t)
      BY <3>1, LockKeeps DEF openChannelLock, isOpenLock, Places, InOpen, Sweeping
    <3>2. CASE openChannelPush(t)
      BY <3>2, PushKeeps
    <3>3. CASE closureName(t)
      BY <3>3, NameKeeps
    <3>4. CASE closureFile(t)
      BY <3>4, FileKeeps
    <3>5. CASE openChannelEnd(t)
      BY <3>5, EndKeeps
    <3>6. CASE isOpenReturn(t)
      BY <3>6, IsOpenReturnKeeps
    <3>7. CASE closeChannelEnd(t)
      BY <3>7, CloseEndKeeps
    <3>8. CASE sweepTest(t)
      BY <3>8, SweepTestKeeps
    <3>9. CASE sweepClose(t)
      BY <3>9, SweepCloseKeeps
    <3>10. CASE sweepEnd(t)
      BY <3>10, SweepEndKeeps
    <3>11. CASE sweepLock(t)
      BY <3>11, SweepLockKeeps
    <3>12. CASE leave(t)
      BY <3>12, LeaveKeeps
    <3> QED
      BY <2>3, <3>1, <3>2, <3>3, <3>4, <3>5, <3>6, <3>7, <3>8, <3>9, <3>10, <3>11, <3>12
         DEF RegStep
  <2>4. ASSUME NEW h \in 0 .. NrChannels, isOpenCall(t, h) PROVE RegInv'
    BY <2>4, IsOpenCallKeeps
  <2>5. ASSUME NEW h \in 0 .. NrChannels, closeChannelBegin(t, h) PROVE RegInv'
    BY <2>5, CloseBeginKeeps
  <2>6. CASE cleanUpAtNormalExit(t) \/ \E signum \in Signals : cleanUpAtAbnormalExit(t, signum)
    BY <2>6, BeginKeeps DEF cleanUpAtNormalExit, cleanUpAtAbnormalExit
  <2> QED
    BY <2>1, <2>2, <2>3, <2>4, <2>5, <2>6
<1> QED
  BY <1>1, <1>2

\* What the application and the sweep rely on follows from it.
LEMMA RegInvKeeps == RegInv => ChannelsKept
<1> SUFFICES ASSUME RegInv PROVE ChannelsKept
  OBVIOUS
<1> USE DEF RegInv
<1>1. OwnNumber
  BY DEF OwnNumber, RegTypes, ListRight, Calls
<1>2. HandleListed
  <2> SUFFICES ASSUME NEW h \in handles, h # 0
               PROVE  Cardinality({i \in DOMAIN ch_info : ch_info[i] = h}) = 1
    BY DEF HandleListed
  <2>1. PICK i \in 1..Len(ch_info) : ch_info[i] = h
    BY DEF HandlesRight, Listed
  <2>2. {j \in DOMAIN ch_info : ch_info[j] = h} = {i}
    BY <2>1 DEF RegTypes, ListRight
  <2> QED
    BY <2>2, FS_Singleton
<1>3. SweptClosed
  BY DEF SweepRight
<1> QED
  BY <1>1, <1>2, <1>3 DEF ChannelsKept

\* However many threads open, query and close channels while the process ends, a handle
\* is listed once, under a number of its own, the exit handler is registered once, and no
\* sweep that comes to its end, of the exit handler or of a signal's in any thread, leaves
\* a channel open that had been returned before it (channels.cpp, closeAllChannels).
THEOREM KeptAndClosed == RegSpec => []ChannelsKept
<1>1. RegInit => RegInv
  BY RegInitInv
<1>2. RegInv /\ [RegNext]_regVars => RegInv'
  BY RegNextInv
<1> QED
  BY <1>1, <1>2, RegInvKeeps, PTL DEF RegSpec

-----------------------------------------------------------------------------
(* StatusLog: the count of channels is what lets a thread past openChannel, *)
(* so it carries the promise that the file was opened or could not be; the  *)
(* lock alone does not say why nobody writes without it.                    *)

LogTypes ==
  /\ lpc \in [Loggers -> {"begin", "count", "running", "openLock", "open", "lock", "test",
                          "relock", "write"}]
  /\ after \in [Loggers -> {"begin", "count", "relock", "write"}]
  /\ fun \in [Loggers -> {"logStatus", "logFail"}]
  /\ next_ch \in Nat
  /\ statusf \in BOOLEAN /\ openFailed \in BOOLEAN /\ closedStatus \in BOOLEAN

\* Opening the file has been tried
Tried == statusf \/ openFailed

\* ... before a channel is counted, and by or before each thread that is past the test.
TriedFirst ==
  /\ next_ch # 0 => Tried
  /\ \A t \in Loggers : lpc[t] \notin {"begin", "openLock", "open"} => Tried
  /\ \A t \in Loggers : lpc[t] \in {"openLock", "open"} => after[t] # "begin"

\* Until a logStatus finds the file closed, a thread in the critical section has the
\* lock, and none returns from openStatusLogFile to a write.
Guarded ==
  closedStatus \/ \A t \in Loggers : /\ InSection(t) => mtx_outfile = t
                                     /\ after[t] # "write"

\* The inductive invariant
LogInv == LogTypes /\ TriedFirst /\ Guarded /\ OpenBeforeLog

\* No thread logs at the start.
LEMMA LogInitInv == LogInit => LogInv
<1> SUFFICES ASSUME LogInit PROVE LogInv
  OBVIOUS
<1>1. LogTypes
  BY DEF LogInit, LogTypes
<1>2. TriedFirst
  BY DEF LogInit, TriedFirst
<1>3. Guarded
  BY DEF LogInit, Guarded, InSection
<1> QED
  BY <1>1, <1>2, <1>3 DEF LogInit, LogInv, OpenBeforeLog

\* Every step of a thread keeps the invariant.
LEMMA LogNextInv == LogInv /\ [LogNext]_logVars => LogInv'
<1> SUFFICES ASSUME LogInv, [LogNext]_logVars PROVE LogInv'
  OBVIOUS
<1> USE DEF LogInv, LogTypes, TriedFirst, Tried, Guarded, InSection, OpenBeforeLog
<1>1. CASE UNCHANGED logVars
  BY <1>1 DEF logVars
<1>2. ASSUME NEW t \in Loggers, testFirst(t) PROVE LogInv'
  BY <1>2 DEF testFirst, firstToLog, lto
<1>3. ASSUME NEW t \in Loggers, countChannel(t) PROVE LogInv'
  BY <1>3 DEF countChannel, lto
<1>4. ASSUME NEW t \in Loggers, NEW from, NEW next, logLock(t, from, next),
             <<from, next>> \in {<<"openLock", "open">>, <<"lock", "test">>, <<"relock", "write">>}
      PROVE  LogInv'
  BY <1>4, StatusLogAssumption DEF logLock, lto
<1>5. ASSUME NEW t \in Loggers, openStatusLogFile(t) PROVE LogInv'
  BY <1>5, StatusLogAssumption DEF openStatusLogFile, lto
<1>6. ASSUME NEW t \in Loggers, callLog(t) PROVE LogInv'
  BY <1>6 DEF callLog, lto
<1>7. ASSUME NEW t \in Loggers, testOpen(t) PROVE LogInv'
  BY <1>7 DEF testOpen, opened, lto
<1>8. ASSUME NEW t \in Loggers, writeMessage(t) PROVE LogInv'
  BY <1>8 DEF writeMessage, lto
<1> QED
  BY <1>1, <1>2, <1>3, <1>4, <1>5, <1>6, <1>7, <1>8
     DEF LogNext, LogStep, openLock, lockLog, relock

\* The lock has one holder, so the critical section has one thread.
LEMMA LogInvGuards == LogInv => LogGuarded
<1> SUFFICES ASSUME LogInv, ~closedStatus PROVE OneWriter
  BY DEF LogGuarded, OneLogWriter, LogInv
<1>1. \A t \in Loggers : InSection(t) => mtx_outfile = t
  BY DEF LogInv, Guarded
<1>2. {t \in Loggers : InSection(t)} \subseteq {mtx_outfile}
  BY <1>1
<1>3. /\ IsFiniteSet({mtx_outfile}) /\ Cardinality({mtx_outfile}) = 1
  BY FS_Singleton
<1>4. Cardinality({t \in Loggers : InSection(t)}) <= 1
  BY <1>2, <1>3, FS_Subset
<1> QED
  BY <1>1, <1>4 DEF OneWriter

\* However the threads of a process interleave, one at a time opens or writes the status
\* log and holds its lock, unless a logStatus has found the file closed, which takes an
\* open that failed (log.cpp, channels.cpp).
THEOREM StatusGuarded == LogSpec => []LogGuarded
<1> QED
  BY LogInitInv, LogNextInv, LogInvGuards, PTL DEF LogSpec

-----------------------------------------------------------------------------
(* ConfigService: what a node is told.  A start node asks twice, so that    *)
(* the server's answers to two nodes alternate in every way; an invariant    *)
(* of foxStartInfo alone does not say who has which answer.  The messages    *)
(* on their way and the place of each node in openChannel do.                *)

Fox == {"FOX_START", "FOX_END"}

\* The entry that configures a node.
EntryOf(n) == conf_tables[cf_tbl].entries[line(key[n])]

ConfShape ==
  /\ DOMAIN cpc = Nodes /\ DOMAIN request = Nodes /\ DOMAIN reply = Nodes
  /\ DOMAIN handler = Nodes /\ DOMAIN par = Nodes /\ DOMAIN receiver = Nodes
  /\ server \in {"up", "ended"} => cf_tbl \in DOMAIN conf_tables

\* One message at a time between a node and the server, and none from a node that is
\* not inside getConfigFromServer; only the second request has an address.
OneMessage(n) ==
  /\ server = "off" => cpc[n] \in {"closed", "asked"} /\ reply[n] = <<>>
  /\ cpc[n] \notin {"asked", "registered"} => request[n] = <<>> /\ reply[n] = <<>>
  /\ request[n] # <<>> => reply[n] = <<>>
  /\ cpc[n] = "asked" => par[n].nr = 0 /\ (request[n] # <<>> => request[n].nr = 0)
  /\ cpc[n] = "retry" => par[n].nr = 0
  /\ cpc[n] = "registered" /\ request[n] # <<>> => request[n] = [nr |-> 5, at |-> n]

\* A reply that is used is that of the node's entry, and what it says of the start node
\* is so.
ReplyRight(n) ==
  reply[n] # <<>> /\ answered(n) =>
    /\ server \in {"up", "ended"} /\ matching(key[n]) # {}
    /\ reply[n].h_type = EntryOf(n).h_type
    /\ reply[n].err # "ok" => reply[n].h_type = "FOX_END"
    /\ reply[n].err = "ok" /\ reply[n].h_type = "FOX_END" =>
         foxStartInfo.isSet /\ reply[n].at = foxStartInfo.at
    /\ reply[n].h_type \notin Fox => reply[n].nr = EntryOf(n).nr_parameters
    /\ cpc[n] = "registered" => foxStartInfo.isSet /\ foxStartInfo.at = n

\* A node that was answered has the handler of its entry.
HandlerRight(n) ==
  /\ cpc[n] \notin {"closed", "asked", "defect"} =>
       /\ server \in {"up", "ended"} /\ matching(key[n]) # {}
       /\ handler[n] = EntryOf(n).h_type
  /\ cpc[n] \in {"initFoxStart", "registered"} => handler[n] = "FOX_START"
  /\ cpc[n] \in {"retry", "connect"} => handler[n] = "FOX_END"
  /\ cpc[n] \in {"init", "open", "shut", "echo"} /\ handler[n] \notin Fox =>
       par[n].nr = EntryOf(n).nr_parameters
  /\ handler[n] = "FOX_END" /\ par[n].nr = 5 =>
       foxStartInfo.isSet /\ par[n].at = foxStartInfo.at

\* The node whose address the server has is the one that receives or is about to.
StartRight ==
  /\ \A n \in Nodes : receiver[n] =>
       /\ foxStartInfo.isSet /\ foxStartInfo.at = n
       /\ cpc[n] \in {"init", "open", "shut", "defect"}
  /\ foxStartInfo.isSet =>
       LET s == foxStartInfo.at
       IN /\ s \in Nodes /\ handler[s] = "FOX_START"
          /\ \/ receiver[s]
             \/ cpc[s] = "registered" /\ request[s] = <<>> /\ reply[s].err = "ok"

ConfInv ==
  /\ ConfShape /\ StartRight
  /\ \A n \in Nodes : OneMessage(n) /\ ReplyRight(n) /\ HandlerRight(n)

\* lookupConfig leaves with the first entry that matches.
LEMMA LineFirst ==
  ASSUME NEW k, cf_tbl \in DOMAIN conf_tables, matching(k) # {}
  PROVE  line(k) \in matching(k) /\ \A d \in matching(k) : line(k) <= d
<1>1. matching(k) \subseteq Nat
  BY ConfigAssumption DEF matching
<1>2. \E e \in matching(k) : \A d \in matching(k) : e <= d
  <2>1. PICK T : T = matching(k)
    OBVIOUS
  <2>2. T \subseteq Nat /\ T # {}
    BY <1>1, <2>1
  <2>3. PICK x \in T : \A y \in T : ~(<<y, x>> \in OpToRel(<, Nat))
    BY <2>2, NatLessThanWellFounded, WFMin
  <2>4. ASSUME NEW d \in T PROVE x <= d
    <3>1. ~(d < x)
      BY <2>2, <2>3 DEF OpToRel
    <3> QED
      BY <2>2, <3>1
  <2> QED
    BY <2>1, <2>4
<1> QED
  BY <1>2 DEF line

\* Nobody has asked at the start.
LEMMA ConfInitInv == ConfInit => ConfInv
BY DEF ConfInit, ConfInv, ConfShape, OneMessage, StartRight, ReplyRight, HandlerRight, Fox

\* A step of node n leaves the server and the other nodes alone.
NodeStep(n) ==
  /\ UNCHANGED <<server, cf_tbl, foxStartInfo, key>>
  /\ \A m \in Nodes \ {n} :
       /\ cpc'[m] = cpc[m] /\ request'[m] = request[m] /\ reply'[m] = reply[m]
       /\ handler'[m] = handler[m] /\ par'[m] = par[m] /\ receiver'[m] = receiver[m]

\* What a node asks for is looked up in the same table with the same result.
LEMMA SameEntries ==
  ASSUME UNCHANGED <<cf_tbl, key>>, NEW n \in Nodes
  PROVE  EntryOf(n)' = EntryOf(n) /\ matching(key[n])' = matching(key[n])
BY DEF EntryOf, matching, line

\* What a step of one node leaves alone stays right for the others.
LEMMA ConfStep ==
  ASSUME ConfInv, ConfShape', NEW n \in Nodes, NodeStep(n), StartRight',
         OneMessage(n)', ReplyRight(n)', HandlerRight(n)'
  PROVE  ConfInv'
<1>1. ASSUME NEW m \in Nodes PROVE OneMessage(m)' /\ ReplyRight(m)' /\ HandlerRight(m)'
  <2>1. CASE m = n
    BY <2>1
  <2>2. CASE m # n
    <3>1. EntryOf(m)' = EntryOf(m) /\ matching(key[m])' = matching(key[m])
      BY SameEntries DEF NodeStep
    <3>2. OneMessage(m) /\ ReplyRight(m) /\ HandlerRight(m)
      BY DEF ConfInv
    <3>3. OneMessage(m)'
      BY <2>2, <3>2 DEF NodeStep, OneMessage
    <3>4. ReplyRight(m)'
      BY <2>2, <3>1, <3>2 DEF NodeStep, ReplyRight, answered
    <3>5. HandlerRight(m)'
      BY <2>2, <3>1, <3>2 DEF NodeStep, HandlerRight
    <3> QED
      BY <3>3, <3>4, <3>5
  <2> QED
    BY <2>1, <2>2
<1> QED
  BY <1>1 DEF ConfInv

\* A node that asks has no message on its way.
LEMMA AskInv ==
  ASSUME ConfInv, NEW n \in Nodes, openChannelNet(n) \/ initFoxStart(n) \/ Retry(n)
  PROVE  ConfInv'
<1>0. OneMessage(n) /\ ReplyRight(n) /\ HandlerRight(n) /\ ConfShape /\ StartRight
  BY DEF ConfInv
<1>1. EntryOf(n)' = EntryOf(n) /\ matching(key[n])' = matching(key[n])
  BY SameEntries DEF openChannelNet, initFoxStart, Retry, serverVars
<1>2. UNCHANGED <<server, cf_tbl, foxStartInfo, key, reply, handler, receiver>>
  BY DEF openChannelNet, initFoxStart, Retry, serverVars, foxVars
<1>3. CASE openChannelNet(n)
  <2>1. /\ cpc[n] = "closed" /\ par' = [par EXCEPT ![n] = [nr |-> 0, at |-> Unset]]
        /\ request' = [request EXCEPT ![n] = [nr |-> 0, at |-> Unset]]
        /\ cpc' = [cpc EXCEPT ![n] = "asked"]
    BY <1>3 DEF openChannelNet, Ask, cgoto
  <2>2. ConfShape' /\ NodeStep(n)
    BY <1>0, <1>2, <2>1 DEF ConfShape, NodeStep
  <2>3. cpc'[n] = "asked" /\ par'[n].nr = 0 /\ request'[n].nr = 0
    BY <1>0, <2>1 DEF ConfShape
  <2>4. reply[n] = <<>> /\ ~receiver[n]
    BY <1>0, <2>1 DEF OneMessage, StartRight
  <2>5. OneMessage(n)' /\ ReplyRight(n)'
    BY <1>0, <1>2, <2>3, <2>4 DEF OneMessage, ReplyRight
  <2>6. HandlerRight(n)'
    BY <1>0, <1>2, <2>3 DEF HandlerRight
  <2>7. StartRight'
    BY <1>0, <1>2, <2>1, <2>2, <2>3, <2>4 DEF StartRight, NodeStep
  <2> QED
    BY <2>2, <2>5, <2>6, <2>7, ConfStep
<1>4. CASE initFoxStart(n)
  <2>1. /\ cpc[n] = "initFoxStart" /\ par' = [par EXCEPT ![n] = [nr |-> 5, at |-> n]]
        /\ request' = [request EXCEPT ![n] = [nr |-> 5, at |-> n]]
        /\ cpc' = [cpc EXCEPT ![n] = "registered"]
    BY <1>4 DEF initFoxStart, Ask, cgoto
  <2>2. ConfShape' /\ NodeStep(n)
    BY <1>0, <1>2, <2>1 DEF ConfShape, NodeStep
  <2>3. cpc'[n] = "registered" /\ request'[n] = [nr |-> 5, at |-> n]
    BY <1>0, <2>1 DEF ConfShape
  <2>4. reply[n] = <<>> /\ handler[n] = "FOX_START" /\ server # "off"
    BY <1>0, <2>1 DEF OneMessage, HandlerRight
  <2>5. OneMessage(n)' /\ ReplyRight(n)'
    BY <1>0, <1>2, <2>3, <2>4 DEF OneMessage, ReplyRight
  <2>6. HandlerRight(n)'
    BY <1>0, <1>1, <1>2, <2>1, <2>3, <2>4 DEF HandlerRight
  <2>7. ~receiver[n] /\ ~(foxStartInfo.isSet /\ foxStartInfo.at = n)
    BY <1>0, <2>1 DEF StartRight
  <2>8. StartRight'
    BY <1>0, <1>2, <2>1, <2>2, <2>3, <2>7 DEF StartRight, NodeStep
  <2> QED
    BY <2>2, <2>5, <2>6, <2>8, ConfStep
<1>5. CASE Retry(n)
  <2>1. /\ cpc[n] = "retry" /\ par' = [par EXCEPT ![n] = par[n]]
        /\ request' = [request EXCEPT ![n] = par[n]]
        /\ cpc' = [cpc EXCEPT ![n] = "asked"]
    BY <1>5 DEF Retry, Ask, cgoto
  <2>2. ConfShape' /\ NodeStep(n)
    BY <1>0, <1>2, <2>1 DEF ConfShape, NodeStep
  <2>3. cpc'[n] = "asked" /\ par'[n].nr = 0 /\ request'[n].nr = 0
    BY <1>0, <2>1 DEF ConfShape, OneMessage
  <2>4. /\ reply[n] = <<>> /\ handler[n] = "FOX_END" /\ server # "off"
        /\ ~receiver[n]
    BY <1>0, <2>1 DEF OneMessage, HandlerRight, StartRight
  <2>5. OneMessage(n)' /\ ReplyRight(n)'
    BY <1>0, <1>2, <2>3, <2>4 DEF OneMessage, ReplyRight
  <2>6. HandlerRight(n)'
    BY <1>0, <1>2, <2>3 DEF HandlerRight
  <2>7. StartRight'
    BY <1>0, <1>2, <2>1, <2>2, <2>3, <2>4 DEF StartRight, NodeStep
  <2> QED
    BY <2>2, <2>5, <2>6, <2>7, ConfStep
<1> QED
  BY <1>3, <1>4, <1>5

\* The rest of openChannel, and the handlers, move a node on.
LEMMA MoveInv ==
  ASSUME ConfInv, NEW n \in Nodes, NEW l \in {"init", "open", "echo", "shut", "defect"},
         cpc[n] \in {"connect", "init", "open", "echo"}, cpc' = [cpc EXCEPT ![n] = l],
         cpc[n] = "connect" => l = "init", l = "echo" => handler[n] = "FOX_END",
         UNCHANGED <<serverVars, key, request, reply, handler, par, receiver>>
  PROVE  ConfInv'
<1>0. OneMessage(n) /\ ReplyRight(n) /\ HandlerRight(n) /\ ConfShape /\ StartRight
  BY DEF ConfInv
<1>1. EntryOf(n)' = EntryOf(n) /\ matching(key[n])' = matching(key[n])
  BY SameEntries DEF serverVars
<1>2. UNCHANGED <<server, cf_tbl, foxStartInfo, key>>
  BY DEF serverVars
<1>3. ConfShape' /\ NodeStep(n) /\ cpc'[n] = l
  BY <1>0, <1>2 DEF ConfShape, NodeStep
<1>4. server # "off" /\ request[n] = <<>> /\ reply[n] = <<>>
  BY <1>0 DEF OneMessage, HandlerRight
<1>5. OneMessage(n)' /\ ReplyRight(n)'
  BY <1>2, <1>3, <1>4 DEF OneMessage, ReplyRight
<1>6. HandlerRight(n)'
  BY <1>0, <1>1, <1>2, <1>3 DEF HandlerRight, Fox
<1>7. StartRight'
  <2>1. receiver[n] => handler[n] = "FOX_START"
    BY <1>0 DEF StartRight
  <2> QED
    BY <1>0, <1>2, <1>3, <2>1 DEF StartRight, NodeStep
<1> QED
  BY <1>3, <1>5, <1>6, <1>7, ConfStep

\* The reply to the first request.
LEMMA ReceivedInv == ASSUME ConfInv, NEW n \in Nodes, Received(n) PROVE ConfInv'
<1>0. OneMessage(n) /\ ReplyRight(n) /\ HandlerRight(n) /\ ConfShape /\ StartRight
  BY DEF ConfInv
<1>1. EntryOf(n)' = EntryOf(n) /\ matching(key[n])' = matching(key[n])
  BY SameEntries DEF Received, serverVars
<1>2. /\ UNCHANGED <<server, cf_tbl, foxStartInfo, key, request, receiver>>
      /\ cpc[n] = "asked" /\ reply[n] # <<>> /\ reply' = [reply EXCEPT ![n] = <<>>]
      /\ handler' = [handler EXCEPT ![n] = newHandler(n)]
      /\ par' = [par EXCEPT ![n] = newPar(n)]
      /\ cpc' = [cpc EXCEPT ![n] = initHandler(n)]
  BY DEF Received, serverVars, foxVars, cgoto
<1>3. ConfShape' /\ NodeStep(n)
  BY <1>0, <1>2 DEF ConfShape, NodeStep
<1>4. /\ reply'[n] = <<>> /\ handler'[n] = newHandler(n) /\ par'[n] = newPar(n)
      /\ cpc'[n] = initHandler(n) /\ request'[n] = <<>>
  BY <1>0, <1>2 DEF ConfShape, OneMessage
<1>5. server # "off" /\ par[n].nr = 0
  BY <1>0, <1>2 DEF OneMessage
<1>6. StartRight'
  BY <1>0, <1>2, <1>3 DEF StartRight, NodeStep
<1>7. ReplyRight(n)'
  BY <1>4 DEF ReplyRight
<1>8. CASE ~answered(n)
  <2>1. cpc'[n] = "defect" /\ par'[n] = par[n]
    BY <1>4, <1>8 DEF initHandler, newPar, answered
  <2>2. OneMessage(n)' /\ HandlerRight(n)'
    BY <1>2, <1>4, <1>5, <2>1 DEF OneMessage, HandlerRight
  <2> QED
    BY <1>3, <1>6, <1>7, <2>2, ConfStep
<1>9. CASE answered(n)
  <2>1. /\ server \in {"up", "ended"} /\ matching(key[n]) # {}
        /\ reply[n].h_type = EntryOf(n).h_type
        /\ reply[n].err # "ok" => reply[n].h_type = "FOX_END"
        /\ reply[n].err = "ok" /\ reply[n].h_type = "FOX_END" =>
             foxStartInfo.isSet /\ reply[n].at = foxStartInfo.at
        /\ reply[n].h_type \notin Fox => reply[n].nr = EntryOf(n).nr_parameters
    BY <1>0, <1>2, <1>9 DEF ReplyRight
  <2>2. handler'[n] = reply[n].h_type
    BY <1>4, <1>9 DEF newHandler
  <2>3. /\ reply[n].err = "ok" => par'[n].nr = reply[n].nr /\ par'[n].at = reply[n].at
        /\ reply[n].err # "ok" => par'[n].nr = 0
    BY <1>4, <1>5 DEF newPar
  <2>4. \/ cpc'[n] = "initFoxStart" /\ reply[n].h_type = "FOX_START"
        \/ cpc'[n] = "init" /\ reply[n].h_type \notin Fox
        \/ cpc'[n] = "retry" /\ reply[n].h_type = "FOX_END" /\ par'[n].nr = 0
        \/ cpc'[n] = "connect" /\ reply[n].h_type = "FOX_END"
    BY <1>4, <1>9 DEF initHandler, newHandler, Fox
  <2>5. OneMessage(n)'
    BY <1>2, <1>4, <1>5, <2>4 DEF OneMessage
  <2>6. HandlerRight(n)'
    BY <1>1, <1>2, <2>1, <2>2, <2>3, <2>4 DEF HandlerRight, Fox
  <2> QED
    BY <1>3, <1>6, <1>7, <2>5, <2>6, ConfStep
<1> QED
  BY <1>8, <1>9

\* The reply to the second request of a start node.
LEMMA FoxStartInv == ASSUME ConfInv, NEW n \in Nodes, FoxStartThread(n) PROVE ConfInv'
<1>0. OneMessage(n) /\ ReplyRight(n) /\ HandlerRight(n) /\ ConfShape /\ StartRight
  BY DEF ConfInv
<1>1. EntryOf(n)' = EntryOf(n) /\ matching(key[n])' = matching(key[n])
  BY SameEntries DEF FoxStartThread, serverVars
<1>2. /\ UNCHANGED <<server, cf_tbl, foxStartInfo, key, request, handler>>
      /\ cpc[n] = "registered" /\ reply[n] # <<>> /\ reply' = [reply EXCEPT ![n] = <<>>]
      /\ par' = [par EXCEPT ![n] = newPar(n)]
  BY DEF FoxStartThread, serverVars
<1>3. CASE answered(n)
  <2>1. receiver' = [receiver EXCEPT ![n] = TRUE] /\ cpc' = [cpc EXCEPT ![n] = "init"]
    BY <1>3 DEF FoxStartThread, cgoto
  <2>2. ConfShape' /\ NodeStep(n)
    BY <1>0, <1>2, <2>1 DEF ConfShape, NodeStep
  <2>3. receiver'[n] /\ cpc'[n] = "init" /\ reply'[n] = <<>> /\ request'[n] = <<>>
    BY <1>0, <1>2, <2>1 DEF ConfShape, OneMessage
  <2>4. foxStartInfo.isSet /\ foxStartInfo.at = n
    BY <1>0, <1>2, <1>3 DEF ReplyRight
  <2>5. handler[n] = "FOX_START" /\ server # "off"
    BY <1>0, <1>2 DEF HandlerRight
  <2>6. OneMessage(n)' /\ ReplyRight(n)'
    BY <1>2, <2>3, <2>5 DEF OneMessage, ReplyRight
  <2>7. HandlerRight(n)'
    BY <1>0, <1>1, <1>2, <2>3, <2>5 DEF HandlerRight, Fox
  <2>8. StartRight'
    BY <1>0, <1>2, <2>2, <2>3, <2>4, <2>5 DEF StartRight, NodeStep
  <2> QED
    BY <2>2, <2>6, <2>7, <2>8, ConfStep
<1>4. CASE ~answered(n)
  <2>1. UNCHANGED receiver /\ cpc' = [cpc EXCEPT ![n] = "defect"]
    BY <1>4 DEF FoxStartThread, cgoto
  <2>2. ConfShape' /\ NodeStep(n)
    BY <1>0, <1>2, <2>1 DEF ConfShape, NodeStep
  <2>3. cpc'[n] = "defect" /\ reply'[n] = <<>> /\ request'[n] = <<>>
    BY <1>0, <1>2, <2>1 DEF ConfShape, OneMessage
  <2>4. ~(foxStartInfo.isSet /\ foxStartInfo.at = n) /\ ~receiver[n]
    BY <1>0, <1>2, <1>4 DEF StartRight, answered
  <2>5. handler[n] = "FOX_START" /\ server # "off"
    BY <1>0, <1>2 DEF HandlerRight
  <2>6. OneMessage(n)' /\ ReplyRight(n)'
    BY <1>2, <2>3, <2>5 DEF OneMessage, ReplyRight
  <2>7. HandlerRight(n)'
    BY <1>2, <2>3, <2>5 DEF HandlerRight
  <2>8. StartRight'
    BY <1>0, <1>2, <2>1, <2>2, <2>4 DEF StartRight, NodeStep
  <2> QED
    BY <2>2, <2>6, <2>7, <2>8, ConfStep
<1> QED
  BY <1>3, <1>4

\* The server finds its table before it answers anybody.
LEMMA ServerStartInv == ASSUME ConfInv, ServerStart PROVE ConfInv'
<1>0. ConfShape /\ StartRight
  BY DEF ConfInv
<1>1. /\ server = "off"
      /\ UNCHANGED <<foxStartInfo, key, cpc, request, reply, handler, par, receiver>>
  BY DEF ServerStart, openVars, foxVars
<1>2. server' = "up" => cf_tbl' \in DOMAIN conf_tables
  <2>1. selected \subseteq DOMAIN conf_tables
    BY DEF selected, tablesNamed
  <2>2. Cardinality(selected) = 1 => selected # {}
    BY FS_EmptySet
  <2>3. Cardinality(selected) = 1 => (CHOOSE t \in selected : TRUE) \in selected
    BY <2>2
  <2> QED
    BY <2>1, <2>3 DEF ServerStart
<1>3. server' \in {"up", "failed"}
  BY DEF ServerStart
<1>4. ConfShape'
  BY <1>0, <1>1, <1>2, <1>3 DEF ConfShape
<1>5. StartRight'
  BY <1>0, <1>1 DEF StartRight
<1>6. ASSUME NEW n \in Nodes PROVE OneMessage(n)' /\ ReplyRight(n)' /\ HandlerRight(n)'
  <2>1. OneMessage(n) /\ HandlerRight(n)
    BY DEF ConfInv
  <2>2. cpc[n] \in {"closed", "asked"} /\ reply[n] = <<>>
    BY <1>1, <2>1 DEF OneMessage
  <2>3. OneMessage(n)' /\ ReplyRight(n)'
    BY <1>1, <1>3, <2>1, <2>2 DEF OneMessage, ReplyRight
  <2>4. HandlerRight(n)'
    BY <1>1, <2>1, <2>2 DEF HandlerRight
  <2> QED
    BY <2>3, <2>4
<1> QED
  BY <1>4, <1>5, <1>6 DEF ConfInv

\* One request and its reply.  The node whose address the server has waits for no
\* answer to a request, so that this is another node.
LEMMA ServeInv == ASSUME ConfInv, NEW n \in Nodes, Serve(n) PROVE ConfInv'
<1>0. OneMessage(n) /\ ReplyRight(n) /\ HandlerRight(n) /\ ConfShape /\ StartRight
  BY DEF ConfInv
<1>1. /\ server = "up" /\ request[n] # <<>> /\ reply[n] = <<>>
      /\ UNCHANGED <<cf_tbl, key, cpc, handler, par, receiver>>
      /\ request' = [request EXCEPT ![n] = <<>>]
  BY <1>0 DEF Serve, foxVars, OneMessage
<1>2. PICK out : out = lookupConfig(n).out
  OBVIOUS
<1>3. PICK info : info = lookupConfig(n).info
  OBVIOUS
<1>4. /\ foxStartInfo' = info /\ reply' = [reply EXCEPT ![n] = out]
      /\ server' \in {"up", "ended"}
  BY <1>1, <1>2, <1>3 DEF Serve
<1>5. request'[n] = <<>> /\ reply'[n] = out
  BY <1>0, <1>1, <1>4 DEF ConfShape
<1>6. \A m \in Nodes \ {n} : request'[m] = request[m] /\ reply'[m] = reply[m]
  BY <1>1, <1>4
<1>7. ConfShape'
  BY <1>0, <1>1, <1>4 DEF ConfShape
<1>8. /\ cpc[n] \in {"asked", "registered"} /\ ~receiver[n]
      /\ ~(foxStartInfo.isSet /\ foxStartInfo.at = n)
  BY <1>0, <1>1 DEF OneMessage, StartRight
<1>9. /\ cpc[n] = "asked" => request[n].nr = 0
      /\ cpc[n] = "registered" =>
           request[n] = [nr |-> 5, at |-> n] /\ handler[n] = "FOX_START"
                     /\ EntryOf(n).h_type = "FOX_START"
  BY <1>0, <1>1 DEF OneMessage, HandlerRight
<1>10. OneMessage(n)'
  BY <1>0, <1>1, <1>4, <1>5, <1>8 DEF OneMessage
<1>11. ASSUME NEW m \in Nodes
       PROVE  EntryOf(m)' = EntryOf(m) /\ matching(key[m])' = matching(key[m])
  BY <1>1, SameEntries
<1>12. SUFFICES ASSUME foxStartInfo.isSet => info = foxStartInfo
                PROVE  ReplyRight(n)' /\ StartRight'
  <2>1. foxStartInfo.isSet => info = foxStartInfo
    BY <1>3 DEF lookupConfig, makeFoxStartReply, taken
  <2>2. HandlerRight(n)'
    BY <1>0, <1>1, <1>4, <1>11, <2>1 DEF HandlerRight
  <2>3. ASSUME NEW m \in Nodes, m # n
        PROVE  OneMessage(m)' /\ ReplyRight(m)' /\ HandlerRight(m)'
    <3>1. OneMessage(m) /\ ReplyRight(m) /\ HandlerRight(m)
      BY DEF ConfInv
    <3>2. OneMessage(m)'
      BY <1>1, <1>4, <1>6, <2>3, <3>1 DEF OneMessage
    <3>3. ReplyRight(m)'
      BY <1>1, <1>4, <1>6, <1>11, <2>1, <2>3, <3>1 DEF ReplyRight, answered
    <3>4. HandlerRight(m)'
      BY <1>1, <1>4, <1>11, <2>1, <3>1 DEF HandlerRight
    <3> QED
      BY <3>2, <3>3, <3>4
  <2> QED
    BY <1>7, <1>10, <2>1, <2>2, <2>3 DEF ConfInv
<1>13. answered(n)' <=> out.err \in {"ok", "ERR_FOX_START_NOT_SET"}
  BY <1>5 DEF answered
<1>14. CASE info = foxStartInfo
  <2>1. StartRight'
    BY <1>0, <1>1, <1>4, <1>6, <1>8, <1>14 DEF StartRight
  <2>2. CASE matching(key[n]) = {}
    <3>1. out.err = "ERR_CONF_NOT_FOUND"
      BY <1>2, <2>2 DEF lookupConfig, Reply
    <3> QED
      BY <1>13, <2>1, <3>1 DEF ReplyRight
  <2>3. CASE matching(key[n]) # {} /\ EntryOf(n).h_type = "FOX_START"
    <3>1. CASE foxStartInfo.isSet
      <4>1. out.err = "ERR_FOX_MULTIPE_START_NODE"
        BY <1>2, <2>3, <3>1 DEF lookupConfig, makeFoxStartReply, taken, Reply, EntryOf
      <4> QED
        BY <1>13, <2>1, <4>1 DEF ReplyRight
    <3>2. CASE ~foxStartInfo.isSet
      <4>1. /\ out.err = "ok" /\ out.h_type = "FOX_START"
            /\ info = [isSet |-> complete(request[n]), at |-> request[n].at]
        BY <1>2, <1>3, <2>3, <3>2 DEF lookupConfig, makeFoxStartReply, taken, Reply, EntryOf
      <4>2. info.isSet = complete(request[n])
        BY <4>1
      <4>3. cpc[n] = "registered" => complete(request[n])
        BY <1>9 DEF complete
      <4>4. cpc[n] # "registered"
        BY <1>14, <3>2, <4>2, <4>3
      <4>5. ReplyRight(n)'
        BY <1>1, <1>4, <1>5, <1>11, <2>3, <4>1, <4>4 DEF ReplyRight, Fox
      <4> QED
        BY <2>1, <4>5
    <3> QED
      BY <3>1, <3>2
  <2>4. CASE matching(key[n]) # {} /\ EntryOf(n).h_type = "FOX_END"
    <3>1. out = makeFoxEndReply
      BY <1>2, <2>4 DEF lookupConfig, EntryOf
    <3>2. /\ out.h_type = "FOX_END"
          /\ out.err = "ok" => foxStartInfo.isSet /\ out.at = foxStartInfo.at
      BY <3>1 DEF makeFoxEndReply, Reply
    <3>3. cpc[n] # "registered"
      BY <1>9, <2>4
    <3>4. ReplyRight(n)'
      BY <1>1, <1>4, <1>5, <1>11, <1>14, <2>4, <3>2, <3>3 DEF ReplyRight, Fox
    <3> QED
      BY <2>1, <3>4
  <2>5. CASE matching(key[n]) # {} /\ EntryOf(n).h_type \notin Fox
    <3>1. out = Reply("ok", EntryOf(n).h_type, EntryOf(n).nr_parameters, Unset)
      BY <1>2, <2>5 DEF lookupConfig, EntryOf, Fox
    <3>2. /\ out.h_type = EntryOf(n).h_type /\ out.nr = EntryOf(n).nr_parameters
          /\ out.err = "ok"
      BY <3>1 DEF Reply
    <3>3. cpc[n] # "registered"
      BY <1>9, <2>5 DEF Fox
    <3>4. ReplyRight(n)'
      BY <1>1, <1>4, <1>5, <1>11, <2>5, <3>2, <3>3 DEF ReplyRight, Fox
    <3> QED
      BY <2>1, <3>4
  <2> QED
    BY <2>2, <2>3, <2>4, <2>5 DEF Fox
<1>15. CASE info # foxStartInfo
  <2>1. ~foxStartInfo.isSet
    BY <1>12, <1>15
  <2>2. matching(key[n]) # {} /\ EntryOf(n).h_type = "FOX_START"
    BY <1>3, <1>15 DEF lookupConfig, EntryOf
  <2>3. /\ out.err = "ok" /\ out.h_type = "FOX_START"
        /\ info = [isSet |-> complete(request[n]), at |-> request[n].at]
    BY <1>2, <1>3, <2>1, <2>2 DEF lookupConfig, makeFoxStartReply, taken, Reply, EntryOf
  <2>4. \A m \in Nodes : ~receiver[m]
    BY <1>0, <2>1 DEF StartRight
  <2>5. CASE cpc[n] = "asked"
    <3>0. ~complete(request[n]) /\ info.isSet = complete(request[n])
      <4>1. ~complete(request[n])
        BY <1>9, <2>5 DEF complete
      <4>2. info.isSet = complete(request[n])
        BY <2>3
      <4> QED
        BY <4>1, <4>2
    <3>1. ~info.isSet
      BY <3>0
    <3>2. StartRight'
      BY <1>1, <1>4, <2>4, <3>1 DEF StartRight
    <3>3. ReplyRight(n)'
      BY <1>1, <1>4, <1>5, <1>11, <2>2, <2>3, <2>5 DEF ReplyRight, Fox
    <3> QED
      BY <3>2, <3>3
  <2>6. CASE cpc[n] = "registered"
    <3>0. complete(request[n]) /\ request[n].at = n
      BY <1>9, <2>6 DEF complete
    <3>1. info.isSet /\ info.at = n
      <4>1. info.isSet = complete(request[n]) /\ info.at = request[n].at
        BY <2>3
      <4> QED
        BY <3>0, <4>1
    <3>2. StartRight'
      BY <1>1, <1>4, <1>5, <1>9, <2>3, <2>4, <2>6, <3>1 DEF StartRight
    <3>3. ReplyRight(n)'
      BY <1>1, <1>4, <1>5, <1>11, <2>2, <2>3, <3>1 DEF ReplyRight, Fox
    <3> QED
      BY <3>2, <3>3
  <2> QED
    BY <1>8, <2>5, <2>6
<1> QED
  BY <1>14, <1>15

\* Every step keeps nodes and server in agreement.
LEMMA ConfNextInv == ASSUME ConfInv, [ConfNext]_confVars PROVE ConfInv'
<1>1. ASSUME UNCHANGED <<serverVars, openVars, receiver>> PROVE ConfInv'
  <2>1. UNCHANGED <<server, cf_tbl, foxStartInfo, key, cpc, request, reply, handler, par,
                    receiver>>
    BY <1>1 DEF serverVars, openVars
  <2>2. ConfShape' /\ StartRight'
    BY <2>1 DEF ConfInv, ConfShape, StartRight
  <2>3. ASSUME NEW m \in Nodes PROVE OneMessage(m)' /\ ReplyRight(m)' /\ HandlerRight(m)'
    <3>1. OneMessage(m) /\ ReplyRight(m) /\ HandlerRight(m)
      BY DEF ConfInv
    <3>2. EntryOf(m)' = EntryOf(m) /\ matching(key[m])' = matching(key[m])
      BY <2>1, SameEntries
    <3> QED
      BY <2>1, <3>1, <3>2 DEF OneMessage, ReplyRight, HandlerRight, answered
  <2> QED
    BY <2>2, <2>3 DEF ConfInv
<1>2. CASE UNCHANGED confVars
  BY <1>1, <1>2 DEF confVars, foxVars
<1>3. CASE ServerStep
  BY <1>3, ServerStartInv, ServeInv DEF ServerStep
<1>4. ASSUME NEW n \in Nodes, Opening(n) PROVE ConfInv'
  <2>1. CASE openChannelNet(n) \/ initFoxStart(n) \/ Retry(n)
    BY <2>1, AskInv
  <2>2. CASE Received(n)
    BY <2>2, ReceivedInv
  <2>3. CASE FoxStartThread(n)
    BY <2>3, FoxStartInv
  <2>4. CASE Connect(n)
    <3>1. /\ cpc[n] = "connect" /\ cpc' = [cpc EXCEPT ![n] = "init"]
          /\ UNCHANGED <<serverVars, key, request, reply, handler, par, receiver>>
      BY <2>4 DEF Connect, cgoto
    <3> QED
      BY <3>1, MoveInv
  <2>5. CASE OpenLog(n)
    <3>1. /\ cpc[n] = "init"
          /\ UNCHANGED <<serverVars, key, request, reply, handler, par, receiver>>
          /\ \E l \in {"open", "defect"} : cpc' = [cpc EXCEPT ![n] = l]
      BY <2>5 DEF OpenLog, cgoto, foxVars
    <3> QED
      BY <3>1, MoveInv
  <2> QED
    BY <1>4, <2>1, <2>2, <2>3, <2>4, <2>5 DEF Opening
<1>5. ASSUME NEW n \in Nodes, FoxEndSend(n) PROVE ConfInv'
  <2>1. /\ cpc[n] = "open" /\ handler[n] = "FOX_END" /\ cpc' = [cpc EXCEPT ![n] = "echo"]
        /\ UNCHANGED <<serverVars, key, request, reply, handler, par, receiver>>
    BY <1>5 DEF FoxEndSend, cgoto
  <2> QED
    BY <2>1, MoveInv
<1>6. ASSUME NEW n \in Nodes, FoxEndLog(n) PROVE ConfInv'
  <2>1. /\ cpc[n] = "echo" /\ cpc' = [cpc EXCEPT ![n] = "open"]
        /\ UNCHANGED <<serverVars, key, request, reply, handler, par, receiver>>
    BY <1>6 DEF FoxEndLog, cgoto
  <2> QED
    BY <2>1, MoveInv
<1>7. ASSUME NEW n \in Nodes, FoxStartClose(n) PROVE ConfInv'
  <2>1. /\ cpc[n] = "open" /\ cpc' = [cpc EXCEPT ![n] = "shut"]
        /\ UNCHANGED <<serverVars, key, request, reply, handler, par, receiver>>
    BY <1>7 DEF FoxStartClose, cgoto, foxVars
  <2> QED
    BY <2>1, MoveInv
<1>8. ASSUME NEW n \in Nodes, FoxStartHandler(n) PROVE ConfInv'
  BY <1>1, <1>8 DEF FoxStartHandler
<1>9. ASSUME NEW n \in Nodes, ReceiverStep(n) PROVE ConfInv'
  BY <1>1, <1>9 DEF ReceiverStep, FoxEcho, FoxStartLog
<1> QED
  BY <1>2, <1>3, <1>4, <1>5, <1>6, <1>7, <1>8, <1>9 DEF ConfNext

\* Nodes that agree with the server are configured as the table says.
LEMMA ConfInvRight == ConfInv => ConfiguredRight
<1> SUFFICES ASSUME ConfInv PROVE ConfiguredRight
  OBVIOUS
<1>1. FirstEntryWins
  <2> SUFFICES ASSUME NEW n \in Nodes, cpc[n] = "open", handler[n] \notin Fox
               PROVE  \E e \in matching(key[n]) :
                        /\ \A d \in 1 .. e - 1 : d \notin matching(key[n])
                        /\ conf_tables[cf_tbl].entries[e].h_type = handler[n]
                        /\ conf_tables[cf_tbl].entries[e].nr_parameters = par[n].nr
    BY DEF FirstEntryWins, Fox
  <2>1. /\ cf_tbl \in DOMAIN conf_tables /\ matching(key[n]) # {}
        /\ handler[n] = EntryOf(n).h_type /\ par[n].nr = EntryOf(n).nr_parameters
    BY DEF ConfInv, ConfShape, HandlerRight
  <2>2. /\ line(key[n]) \in matching(key[n])
        /\ \A d \in matching(key[n]) : line(key[n]) <= d
    BY <2>1, LineFirst
  <2>3. matching(key[n]) \subseteq Nat
    BY <2>1, ConfigAssumption DEF matching
  <2>4. \A d \in 1 .. line(key[n]) - 1 : d \notin matching(key[n])
    BY <2>2, <2>3
  <2> QED
    BY <2>1, <2>2, <2>4 DEF EntryOf
<1>2. OneStartNode
  <2>1. {n \in Nodes : receiver[n]} \subseteq {foxStartInfo.at}
    BY DEF ConfInv, StartRight
  <2>2. IsFiniteSet({foxStartInfo.at}) /\ Cardinality({foxStartInfo.at}) = 1
    BY FS_Singleton
  <2> QED
    BY <2>1, <2>2, FS_Subset DEF OneStartNode
<1>3. EndAddress
  <2> SUFFICES ASSUME NEW n \in Nodes, handler[n] = "FOX_END", par[n].nr = 5
               PROVE  /\ par[n].at \in Nodes /\ handler[par[n].at] = "FOX_START"
                      /\ receiver[par[n].at] \/ cpc[par[n].at] = "registered"
    BY DEF EndAddress
  <2>1. foxStartInfo.isSet /\ par[n].at = foxStartInfo.at
    BY DEF ConfInv, HandlerRight
  <2> QED
    BY <2>1 DEF ConfInv, StartRight
<1> QED
  BY <1>1, <1>2, <1>3 DEF ConfiguredRight

\* ConfiguredRight holds for any nodes, tables and parameters, however the requests of
\* the nodes interleave with each other and with the start of the server (parser.cpp,
\* lookupConfig; fox_config_server.cpp; channels.cpp, openChannel).
THEOREM ConfiguredAsListed == ConfSpec => []ConfiguredRight
<1>1. ConfInit => ConfInv
  BY ConfInitInv
<1>2. ConfInv /\ [ConfNext]_confVars => ConfInv'
  BY ConfNextInv
<1>3. ConfInv => ConfiguredRight
  BY ConfInvRight
<1> QED
  BY <1>1, <1>2, <1>3, PTL DEF ConfSpec

-----------------------------------------------------------------------------
(* ConfigService: what the fox channels log.  The start node's log is       *)
(* appended to by its receiver thread and by its application, and a tuple    *)
(* reaches it one step after its echo is on its way.  The invariant follows  *)
(* a tuple: at any time it is in one place only.                             *)

FoxTuples == [from : Nodes, tuple : Nat]

Tup(n, k) == [from |-> n, tuple |-> k]

\* The places of a tuple that the start node has received.
inHand(m) == \E s \in Nodes : stamped[s] = m
inLog(m) == \E j \in DOMAIN startLog : startLog[j] = m

wasSent(m) == m.tuple >= 1 /\ m.tuple <= foxTuple[m.from]

FoxTypes ==
  /\ foxTuple \in [Nodes -> Nat] /\ arrived \subseteq FoxTuples
  /\ startLog \in Seq(FoxTuples)
  /\ DOMAIN cpc = Nodes /\ DOMAIN stamped = Nodes /\ DOMAIN echoed = Nodes
  /\ DOMAIN endLog = Nodes
  /\ \A n \in Nodes : /\ stamped[n] # <<>> => stamped[n] \in FoxTuples
                      /\ endLog[n] \in Seq([tuple : Nat, echo : FoxTuples])

\* A tuple on its way, or its echo, is the one the end node waits for.
Awaited ==
  /\ \A m \in arrived : /\ cpc[m.from] = "echo" /\ m.tuple = foxTuple[m.from]
                        /\ echoed[m.from] = <<>>
  /\ \A n \in Nodes : echoed[n] # <<>> =>
       cpc[n] = "echo" /\ echoed[n] = Tup(n, foxTuple[n])
  /\ \A n \in Nodes : cpc[n] = "echo" => foxTuple[n] >= 1

\* A tuple that was sent is in one place, once.
OnePlace(m) ==
  /\ wasSent(m) <=> (m \in arrived \/ m \in unlogged \/ inHand(m) \/ inLog(m))
  /\ m \in arrived => m \notin unlogged /\ ~inHand(m) /\ ~inLog(m)
  /\ m \in unlogged => ~inHand(m) /\ ~inLog(m)
  /\ inHand(m) => ~inLog(m)
  /\ \A s, t \in Nodes : stamped[s] = m /\ stamped[t] = m => s = t
  /\ \A i, j \in DOMAIN startLog : startLog[i] = m /\ startLog[j] = m => i = j

\* What an end node has logged, it has sent before the tuple it waits for.
Logged ==
  \A n \in Nodes : \A i \in DOMAIN endLog[n] :
    LET e == endLog[n][i]
    IN /\ e.echo = Tup(n, e.tuple) /\ wasSent(e.echo)
       /\ cpc[n] = "echo" => e.tuple < foxTuple[n]

FoxInv == FoxTypes /\ Awaited /\ Logged /\ \A m \in FoxTuples : OnePlace(m)

\* A tuple is the node that logs it and its number.
LEMMA TupFacts ==
  ASSUME NEW n \in Nodes, NEW k \in Nat
  PROVE  /\ Tup(n, k) \in FoxTuples /\ Tup(n, k).from = n /\ Tup(n, k).tuple = k
         /\ Tup(n, k) # <<>>
BY DEF Tup, FoxTuples

\* ... and is told by them.
LEMMA TupOf == \A m \in FoxTuples : m = Tup(m.from, m.tuple) /\ m.from \in Nodes
                                     /\ m.tuple \in Nat /\ m # <<>>
BY DEF Tup, FoxTuples

\* A record that is appended to a log is its last one.
LEMMA LogAppend ==
  ASSUME NEW S, NEW q \in Seq(S), NEW x \in S, NEW r, r = q \o <<x>> \/ r = Append(q, x)
  PROVE  /\ r \in Seq(S) /\ DOMAIN r = 1 .. Len(q) + 1 /\ DOMAIN q = 1 .. Len(q)
         /\ Len(q) \in Nat
         /\ \A i \in 1 .. Len(q) : r[i] = q[i]
         /\ r[Len(q) + 1] = x
OBVIOUS

\* No tuple is sent at the start.
LEMMA FoxInitInv == ConfInit => FoxInv
<1> SUFFICES ASSUME ConfInit PROVE FoxInv
  OBVIOUS
<1>1. FoxTypes /\ Awaited /\ Logged
  BY DEF ConfInit, FoxTypes, Awaited, Logged
<1>2. ASSUME NEW m \in FoxTuples PROVE OnePlace(m)
  <2>1. m.from \in Nodes /\ m.tuple \in Nat /\ m # <<>>
    BY TupOf
  <2>2. ~wasSent(m)
    BY <2>1 DEF ConfInit, wasSent
  <2>3. ~inHand(m) /\ ~inLog(m) /\ \A s \in Nodes : stamped[s] # m
    BY <2>1 DEF ConfInit, inHand, inLog
  <2> QED
    BY <2>2, <2>3 DEF ConfInit, OnePlace
<1> QED
  BY <1>1, <1>2 DEF FoxInv

\* A step that no tuple moves in.
LEMMA FoxIdleInv ==
  ASSUME FoxInv, DOMAIN cpc' = Nodes,
         \A n \in Nodes : cpc'[n] = "echo" <=> cpc[n] = "echo",
         UNCHANGED <<stamped, arrived, echoed, foxTuple, startLog, endLog, unlogged>>
  PROVE  FoxInv'
<1>1. FoxTypes' /\ Logged'
  BY DEF FoxInv, FoxTypes, Logged, wasSent
<1>2. \A m \in arrived : m.from \in Nodes
  BY TupOf DEF FoxInv, FoxTypes
<1>3. Awaited'
  BY <1>2 DEF FoxInv, Awaited
<1>4. \A m \in FoxTuples : OnePlace(m)'
  BY DEF FoxInv, OnePlace, wasSent, inHand, inLog
<1> QED
  BY <1>1, <1>3, <1>4 DEF FoxInv

\* A new tuple is on its way and nowhere else.
LEMMA FoxSendInv == ASSUME FoxInv, NEW n \in Nodes, FoxEndSend(n) PROVE FoxInv'
<1>0. FoxTypes /\ Awaited /\ Logged /\ \A m \in FoxTuples : OnePlace(m)
  BY DEF FoxInv
<1>1. PICK k \in Nat : k = foxTuple[n] + 1 /\ k >= 1
  BY <1>0 DEF FoxTypes
<1>2. foxTuple' = [foxTuple EXCEPT ![n] = k] /\ foxTuple'[n] = k /\ foxTuple[n] = k - 1
  BY <1>0, <1>1 DEF FoxEndSend, FoxTypes
<1>3. /\ arrived' = arrived \cup {Tup(n, k)} /\ cpc[n] = "open"
      /\ cpc' = [cpc EXCEPT ![n] = "echo"]
      /\ UNCHANGED <<stamped, echoed, startLog, endLog, unlogged>>
  BY <1>2 DEF FoxEndSend, Tup, cgoto
<1>4. Tup(n, k) \in FoxTuples /\ Tup(n, k).from = n /\ Tup(n, k).tuple = k
  BY TupFacts
<1>5. FoxTypes'
  BY <1>0, <1>2, <1>3, <1>4 DEF FoxTypes
<1>6. echoed[n] = <<>> /\ cpc'[n] = "echo" /\ \A m \in arrived : m.from # n
  BY <1>0, <1>3 DEF Awaited, FoxTypes
<1>7. \A m \in arrived : m.from \in Nodes
  BY <1>0, TupOf DEF FoxTypes
<1>8. Awaited'
  <2>1. ASSUME NEW m \in arrived'
        PROVE  cpc'[m.from] = "echo" /\ m.tuple = foxTuple'[m.from] /\ echoed'[m.from] = <<>>
    <3>1. CASE m = Tup(n, k)
      BY <1>2, <1>3, <1>4, <1>6, <3>1
    <3>2. CASE m \in arrived
      BY <1>0, <1>2, <1>3, <1>6, <1>7, <3>2 DEF Awaited, FoxTypes
    <3> QED
      BY <1>3, <2>1, <3>1, <3>2
  <2>2. ASSUME NEW u \in Nodes, echoed'[u] # <<>>
        PROVE  cpc'[u] = "echo" /\ echoed'[u] = Tup(u, foxTuple'[u])
    <3>1. u # n
      BY <1>3, <1>6, <2>2
    <3> QED
      BY <1>0, <1>2, <1>3, <2>2, <3>1 DEF Awaited, FoxTypes
  <2>3. ASSUME NEW u \in Nodes, cpc'[u] = "echo" PROVE foxTuple'[u] >= 1
    BY <1>0, <1>1, <1>2, <1>3, <2>3 DEF Awaited, FoxTypes
  <2> QED
    BY <2>1, <2>2, <2>3 DEF Awaited
<1>9. \A m \in FoxTuples : wasSent(m)' <=> (wasSent(m) \/ m = Tup(n, k))
  <2> SUFFICES ASSUME NEW m \in FoxTuples
               PROVE  wasSent(m)' <=> (wasSent(m) \/ m = Tup(n, k))
    OBVIOUS
  <2>1. m = Tup(m.from, m.tuple) /\ m.from \in Nodes /\ m.tuple \in Nat
    BY TupOf
  <2>2. CASE m.from # n
    <3>1. foxTuple'[m.from] = foxTuple[m.from]
      BY <1>0, <1>2, <2>1, <2>2 DEF FoxTypes
    <3>2. m # Tup(n, k)
      BY <1>4, <2>2
    <3> QED
      BY <3>1, <3>2 DEF wasSent
  <2>3. CASE m.from = n
    <3>1. m = Tup(n, k) <=> m.tuple = k
      BY <1>4, <2>1, <2>3
    <3>2. foxTuple[m.from] = k - 1 /\ foxTuple'[m.from] = k
      BY <1>2, <2>3
    <3> QED
      BY <1>1, <2>1, <3>1, <3>2 DEF wasSent
  <2> QED
    BY <2>2, <2>3
<1>10. Logged'
  <2> SUFFICES ASSUME NEW u \in Nodes, NEW i \in DOMAIN endLog[u], NEW e, e = endLog[u][i]
               PROVE  /\ e.echo = Tup(u, e.tuple) /\ wasSent(e.echo)'
                      /\ cpc'[u] = "echo" => e.tuple < foxTuple'[u]
    BY <1>3 DEF Logged
  <2>1. /\ e.echo = Tup(u, e.tuple) /\ wasSent(e.echo)
        /\ cpc[u] = "echo" => e.tuple < foxTuple[u]
    BY <1>0 DEF Logged
  <2>2. e \in [tuple : Nat, echo : FoxTuples]
    <3>1. endLog[u] \in Seq([tuple : Nat, echo : FoxTuples])
      BY <1>0 DEF FoxTypes
    <3>2. i \in 1 .. Len(endLog[u])
      BY <3>1
    <3> QED
      BY <3>1, <3>2, ElementOfSeq
  <2>3. wasSent(e.echo)'
    BY <1>9, <2>1, <2>2
  <2>4. e.echo.from = u /\ e.echo.tuple = e.tuple
    BY <2>1, <2>2, TupFacts
  <2>5. e.tuple <= foxTuple[u]
    BY <2>1, <2>4 DEF wasSent
  <2>6. CASE u = n
    <3>1. foxTuple[u] = k - 1 /\ foxTuple'[u] = k /\ e.tuple \in Nat
      BY <1>2, <2>2, <2>6
    <3>2. e.tuple < foxTuple'[u]
      BY <2>5, <3>1
    <3> QED
      BY <2>1, <2>3, <3>2
  <2>7. CASE u # n
    <3>1. foxTuple'[u] = foxTuple[u] /\ cpc'[u] = cpc[u]
      BY <1>0, <1>2, <1>3, <2>7 DEF FoxTypes
    <3> QED
      BY <2>1, <2>3, <3>1
  <2> QED
    BY <2>6, <2>7
<1>11. ASSUME NEW m \in FoxTuples PROVE OnePlace(m)'
  <2>1. OnePlace(m) /\ (inHand(m)' <=> inHand(m)) /\ (inLog(m)' <=> inLog(m))
    BY <1>0, <1>3 DEF inHand, inLog
  <2>2. m = Tup(n, k) => ~wasSent(m)
    <3>1. foxTuple[n] = k - 1
      BY <1>2
    <3>2. ~(k <= k - 1)
      OBVIOUS
    <3> QED
      BY <1>4, <3>1, <3>2 DEF wasSent
  <2>3. m \in arrived' <=> (m \in arrived \/ m = Tup(n, k))
    BY <1>3
  <2> QED
    BY <1>3, <1>9, <2>1, <2>2, <2>3 DEF OnePlace
<1> QED
  BY <1>5, <1>8, <1>10, <1>11 DEF FoxInv

\* The receiver takes a tuple from the way, and its echo reaches the node that waits for it.
LEMMA FoxEchoInv == ASSUME FoxInv, NEW s \in Nodes, FoxEcho(s) PROVE FoxInv'
<1>0. FoxTypes /\ Awaited /\ Logged /\ \A m \in FoxTuples : OnePlace(m)
  BY DEF FoxInv
<1>1. PICK x \in arrived :
        /\ stamped[s] = <<>> /\ arrived' = arrived \ {x}
        /\ stamped' = [stamped EXCEPT ![s] = x]
        /\ \E n \in Nodes : n = x.from /\ echoed' = [echoed EXCEPT ![n] = x]
        /\ UNCHANGED <<cpc, foxTuple, startLog, endLog, unlogged>>
  BY DEF FoxEcho, echoTo, openVars
<1>2. x \in FoxTuples /\ x = Tup(x.from, x.tuple) /\ x.from \in Nodes /\ x # <<>>
  BY <1>0, TupOf DEF FoxTypes
<1>3. echoed' = [echoed EXCEPT ![x.from] = x] /\ x.tuple = foxTuple[x.from]
      /\ cpc[x.from] = "echo"
  BY <1>0, <1>1 DEF Awaited
<1>4. FoxTypes'
  BY <1>0, <1>1, <1>2, <1>3 DEF FoxTypes
<1>5. Awaited'
  <2>1. ASSUME NEW m \in arrived'
        PROVE  cpc'[m.from] = "echo" /\ m.tuple = foxTuple'[m.from] /\ echoed'[m.from] = <<>>
    <3>1. m \in arrived /\ m # x /\ m = Tup(m.from, m.tuple) /\ m.from \in Nodes
      BY <1>0, <1>1, TupOf DEF FoxTypes
    <3>2. m.tuple = foxTuple[m.from]
      BY <1>0, <3>1 DEF Awaited
    <3>3. m.from # x.from
      BY <1>2, <1>3, <3>1, <3>2
    <3> QED
      BY <1>0, <1>1, <1>3, <3>1, <3>3 DEF Awaited, FoxTypes
  <2>2. ASSUME NEW u \in Nodes, echoed'[u] # <<>>
        PROVE  cpc'[u] = "echo" /\ echoed'[u] = Tup(u, foxTuple'[u])
    <3>1. CASE u = x.from
      BY <1>0, <1>1, <1>2, <1>3, <3>1 DEF FoxTypes
    <3>2. CASE u # x.from
      BY <1>0, <1>1, <1>3, <2>2, <3>2 DEF Awaited, FoxTypes
    <3> QED
      BY <3>1, <3>2
  <2>3. ASSUME NEW u \in Nodes, cpc'[u] = "echo" PROVE foxTuple'[u] >= 1
    BY <1>0, <1>1, <2>3 DEF Awaited
  <2> QED
    BY <2>1, <2>2, <2>3 DEF Awaited
<1>6. Logged'
  BY <1>0, <1>1 DEF Logged, wasSent
<1>7. ASSUME NEW m \in FoxTuples PROVE OnePlace(m)'
  <2>1. /\ OnePlace(m) /\ OnePlace(x) /\ m # <<>> /\ (inLog(m)' <=> inLog(m))
        /\ wasSent(m)' = wasSent(m)
    BY <1>0, <1>1, <1>2, TupOf DEF inLog, wasSent
  <2>2. stamped'[s] = x /\ \A t \in Nodes \ {s} : stamped'[t] = stamped[t]
    BY <1>0, <1>1 DEF FoxTypes
  <2>3. inHand(m)' <=> (inHand(m) \/ m = x)
    BY <1>1, <2>1, <2>2 DEF inHand
  <2>4. \A t \in Nodes : stamped[t] # x
    BY <2>1 DEF OnePlace, inHand
  <2>5. \A t, v \in Nodes : stamped'[t] = m /\ stamped'[v] = m => t = v
    BY <2>1, <2>2, <2>4 DEF OnePlace
  <2>6. m \in arrived' <=> (m \in arrived /\ m # x)
    BY <1>1
  <2> QED
    BY <1>1, <2>1, <2>3, <2>5, <2>6 DEF OnePlace
<1> QED
  BY <1>4, <1>5, <1>6, <1>7 DEF FoxInv

\* A tuple goes from the receiver's hands into the log or is lost.
LEMMA FoxStartLogInv == ASSUME FoxInv, NEW s \in Nodes, FoxStartLog(s) PROVE FoxInv'
<1>0. FoxTypes /\ Awaited /\ Logged /\ \A m \in FoxTuples : OnePlace(m)
  BY DEF FoxInv
<1>1. PICK x \in FoxTuples : x = stamped[s]
  BY <1>0 DEF FoxStartLog, FoxTypes
<1>2. /\ stamped' = [stamped EXCEPT ![s] = <<>>]
      /\ UNCHANGED <<cpc, arrived, echoed, foxTuple, endLog>>
      /\ \/ startLog' = startLog \o <<x>> /\ unlogged' = unlogged
         \/ startLog' = startLog /\ unlogged' = unlogged \cup {x}
  BY <1>1 DEF FoxStartLog, records, openVars
<1>3. Awaited' /\ Logged'
  BY <1>0, <1>2 DEF Awaited, Logged, wasSent
<1>4. stamped'[s] = <<>> /\ \A t \in Nodes \ {s} : stamped'[t] = stamped[t]
  BY <1>0, <1>2 DEF FoxTypes
<1>5. ASSUME NEW m \in FoxTuples
      PROVE  /\ OnePlace(m) /\ OnePlace(x) /\ m # <<>> /\ (wasSent(m)' <=> wasSent(m))
             /\ inHand(m)' <=> (inHand(m) /\ m # x)
             /\ \A t, v \in Nodes : stamped'[t] = m /\ stamped'[v] = m => t = v
  <2>1. OnePlace(m) /\ OnePlace(x) /\ m # <<>> /\ (wasSent(m)' <=> wasSent(m))
    BY <1>0, <1>2, TupOf DEF wasSent
  <2>2. \A t \in Nodes : stamped[t] = x => t = s
    BY <1>1, <2>1 DEF OnePlace
  <2>3. inHand(m)' <=> (inHand(m) /\ m # x)
    BY <1>1, <1>4, <2>1, <2>2 DEF inHand
  <2>4. \A t, v \in Nodes : stamped'[t] = m /\ stamped'[v] = m => t = v
    BY <1>4, <2>1 DEF OnePlace
  <2> QED
    BY <2>1, <2>3, <2>4
<1>6. inHand(x)
  BY <1>1 DEF inHand
<1>7. CASE startLog' = startLog \o <<x>> /\ unlogged' = unlogged
  <2>1. /\ startLog' \in Seq(FoxTuples) /\ DOMAIN startLog' = 1 .. Len(startLog) + 1
        /\ DOMAIN startLog = 1 .. Len(startLog) /\ Len(startLog) \in Nat
        /\ \A i \in 1 .. Len(startLog) : startLog'[i] = startLog[i]
        /\ startLog'[Len(startLog) + 1] = x
    BY <1>0, <1>7, LogAppend DEF FoxTypes
  <2>2. FoxTypes'
    BY <1>0, <1>2, <1>4, <2>1 DEF FoxTypes
  <2>3. ASSUME NEW m \in FoxTuples PROVE OnePlace(m)'
    <3>1. inLog(m)' <=> (inLog(m) \/ m = x)
      BY <2>1 DEF inLog
    <3>2. ~inLog(x)
      BY <1>5, <1>6 DEF OnePlace
    <3>3. \A i, j \in DOMAIN startLog' : startLog'[i] = m /\ startLog'[j] = m => i = j
      BY <1>5, <2>1, <3>2 DEF OnePlace, inLog
    <3> QED
      BY <1>2, <1>5, <1>6, <1>7, <3>1, <3>2, <3>3 DEF OnePlace
  <2> QED
    BY <1>3, <2>2, <2>3 DEF FoxInv
<1>8. CASE startLog' = startLog /\ unlogged' = unlogged \cup {x}
  <2>1. FoxTypes'
    BY <1>0, <1>2, <1>4, <1>8 DEF FoxTypes
  <2>2. ASSUME NEW m \in FoxTuples PROVE OnePlace(m)'
    <3>1. inLog(m)' <=> inLog(m)
      BY <1>8 DEF inLog
    <3>2. m \in unlogged' <=> (m \in unlogged \/ m = x)
      BY <1>8
    <3> QED
      BY <1>2, <1>5, <1>6, <1>8, <3>1, <3>2 DEF OnePlace
  <2> QED
    BY <1>3, <2>1, <2>2 DEF FoxInv
<1> QED
  BY <1>2, <1>7, <1>8

\* A tuple of the start node's own application is new in the log.
LEMMA FoxStartHandlerInv ==
  ASSUME FoxInv, NEW s \in Nodes, FoxStartHandler(s) PROVE FoxInv'
<1>0. FoxTypes /\ Awaited /\ Logged /\ \A m \in FoxTuples : OnePlace(m)
  BY DEF FoxInv
<1>1. PICK k \in Nat : k = foxTuple[s] + 1 /\ k >= 1
  BY <1>0 DEF FoxTypes
<1>2. foxTuple' = [foxTuple EXCEPT ![s] = k] /\ foxTuple'[s] = k /\ foxTuple[s] = k - 1
  BY <1>0, <1>1 DEF FoxStartHandler, FoxTypes
<1>3. /\ startLog' = Append(startLog, Tup(s, k)) /\ cpc[s] = "open"
      /\ UNCHANGED <<cpc, stamped, arrived, echoed, endLog, unlogged>>
  BY <1>2 DEF FoxStartHandler, Tup, openVars
<1>4. Tup(s, k) \in FoxTuples /\ Tup(s, k).from = s /\ Tup(s, k).tuple = k
  BY TupFacts
<1>5. /\ startLog' \in Seq(FoxTuples) /\ DOMAIN startLog' = 1 .. Len(startLog) + 1
      /\ DOMAIN startLog = 1 .. Len(startLog) /\ Len(startLog) \in Nat
      /\ \A i \in 1 .. Len(startLog) : startLog'[i] = startLog[i]
      /\ startLog'[Len(startLog) + 1] = Tup(s, k)
  BY <1>0, <1>3, <1>4, LogAppend DEF FoxTypes
<1>6. FoxTypes'
  BY <1>0, <1>2, <1>3, <1>5 DEF FoxTypes
<1>7. \A n \in Nodes : n # s => foxTuple'[n] = foxTuple[n]
  BY <1>0, <1>2 DEF FoxTypes
<1>8. Awaited'
  <2>1. \A m \in arrived : m.from # s /\ m.from \in Nodes
    BY <1>0, <1>3, TupOf DEF Awaited, FoxTypes
  <2>2. echoed[s] = <<>>
    BY <1>0, <1>3 DEF Awaited
  <2> QED
    BY <1>0, <1>3, <1>7, <2>1, <2>2 DEF Awaited
<1>9. \A m \in FoxTuples : wasSent(m)' <=> (wasSent(m) \/ m = Tup(s, k))
  <2> SUFFICES ASSUME NEW m \in FoxTuples
               PROVE  wasSent(m)' <=> (wasSent(m) \/ m = Tup(s, k))
    OBVIOUS
  <2>1. m = Tup(m.from, m.tuple) /\ m.from \in Nodes /\ m.tuple \in Nat
    BY TupOf
  <2>2. CASE m.from # s
    <3>1. foxTuple'[m.from] = foxTuple[m.from]
      BY <1>7, <2>1, <2>2
    <3>2. m # Tup(s, k)
      BY <1>4, <2>2
    <3> QED
      BY <3>1, <3>2 DEF wasSent
  <2>3. CASE m.from = s
    <3>1. m = Tup(s, k) <=> m.tuple = k
      BY <1>4, <2>1, <2>3
    <3>2. foxTuple[m.from] = k - 1 /\ foxTuple'[m.from] = k
      BY <1>2, <2>3
    <3> QED
      BY <1>1, <2>1, <3>1, <3>2 DEF wasSent
  <2> QED
    BY <2>2, <2>3
<1>10. Logged'
  <2> SUFFICES ASSUME NEW u \in Nodes, NEW i \in DOMAIN endLog[u], NEW e, e = endLog[u][i]
               PROVE  /\ e.echo = Tup(u, e.tuple) /\ wasSent(e.echo)'
                      /\ cpc'[u] = "echo" => e.tuple < foxTuple'[u]
    BY <1>3 DEF Logged
  <2>1. /\ e.echo = Tup(u, e.tuple) /\ wasSent(e.echo)
        /\ cpc[u] = "echo" => e.tuple < foxTuple[u]
    BY <1>0 DEF Logged
  <2>2. e \in [tuple : Nat, echo : FoxTuples]
    <3>1. endLog[u] \in Seq([tuple : Nat, echo : FoxTuples])
      BY <1>0 DEF FoxTypes
    <3>2. i \in 1 .. Len(endLog[u])
      BY <3>1
    <3> QED
      BY <3>1, <3>2, ElementOfSeq
  <2>3. wasSent(e.echo)'
    BY <1>9, <2>1, <2>2
  <2>4. cpc'[u] = "echo" => u # s /\ cpc[u] = "echo"
    BY <1>3
  <2> QED
    BY <1>7, <2>1, <2>3, <2>4
<1>11. ASSUME NEW m \in FoxTuples PROVE OnePlace(m)'
  <2>1. OnePlace(m) /\ OnePlace(Tup(s, k)) /\ (inHand(m)' <=> inHand(m))
    BY <1>0, <1>3, <1>4 DEF inHand
  <2>2. ~wasSent(Tup(s, k))
    <3>1. foxTuple[s] = k - 1
      BY <1>2
    <3>2. ~(k <= k - 1)
      OBVIOUS
    <3> QED
      BY <1>4, <3>1, <3>2 DEF wasSent
  <2>3. inLog(m)' <=> (inLog(m) \/ m = Tup(s, k))
    BY <1>5 DEF inLog
  <2>4. ~inLog(Tup(s, k))
    BY <2>1, <2>2 DEF OnePlace
  <2>5. \A i, j \in DOMAIN startLog' : startLog'[i] = m /\ startLog'[j] = m => i = j
    BY <1>5, <2>1, <2>4 DEF OnePlace, inLog
  <2> QED
    BY <1>3, <1>9, <2>1, <2>2, <2>3, <2>5 DEF OnePlace
<1> QED
  BY <1>6, <1>8, <1>10, <1>11 DEF FoxInv

\* What an end node logs is the tuple it sent last, which is no longer on its way.
LEMMA FoxEndLogInv == ASSUME FoxInv, NEW n \in Nodes, FoxEndLog(n) PROVE FoxInv'
<1>0. FoxTypes /\ Awaited /\ Logged /\ \A m \in FoxTuples : OnePlace(m)
  BY DEF FoxInv
<1>1. PICK k \in Nat : k = foxTuple[n]
  BY <1>0 DEF FoxTypes
<1>2. echoed[n] = Tup(n, k) /\ cpc[n] = "echo" /\ echoed[n] # <<>>
  BY <1>0, <1>1 DEF FoxEndLog, Awaited
<1>3. PICK e : e = [tuple |-> k, echo |-> Tup(n, k)]
  OBVIOUS
<1>4. Tup(n, k) \in FoxTuples /\ Tup(n, k).from = n /\ Tup(n, k).tuple = k
  BY TupFacts
<1>5. /\ e \in [tuple : Nat, echo : FoxTuples] /\ e.tuple = k /\ e.echo = Tup(n, k)
  BY <1>3, <1>4
<1>6. /\ endLog' = [endLog EXCEPT ![n] = Append(endLog[n], e)]
      /\ echoed' = [echoed EXCEPT ![n] = <<>>] /\ cpc' = [cpc EXCEPT ![n] = "open"]
      /\ UNCHANGED <<stamped, arrived, foxTuple, startLog, unlogged>>
  BY <1>1, <1>2, <1>3 DEF FoxEndLog, cgoto
<1>7. endLog[n] \in Seq([tuple : Nat, echo : FoxTuples]) /\ endLog'[n] = Append(endLog[n], e)
  BY <1>0, <1>6 DEF FoxTypes
<1>8. /\ endLog'[n] \in Seq([tuple : Nat, echo : FoxTuples])
      /\ DOMAIN endLog'[n] = 1 .. Len(endLog[n]) + 1
      /\ DOMAIN endLog[n] = 1 .. Len(endLog[n]) /\ Len(endLog[n]) \in Nat
      /\ \A i \in 1 .. Len(endLog[n]) : endLog'[n][i] = endLog[n][i]
      /\ endLog'[n][Len(endLog[n]) + 1] = e
  BY <1>5, <1>7, LogAppend
<1>9. \A u \in Nodes : u # n => /\ endLog'[u] = endLog[u] /\ cpc'[u] = cpc[u]
                                /\ echoed'[u] = echoed[u]
  BY <1>0, <1>6 DEF FoxTypes
<1>10. FoxTypes'
  BY <1>0, <1>6, <1>8, <1>9 DEF FoxTypes
<1>11. Awaited'
  <2>1. \A m \in arrived : m.from # n /\ m.from \in Nodes
    BY <1>0, <1>2, TupOf DEF Awaited, FoxTypes
  <2>2. echoed'[n] = <<>>
    BY <1>0, <1>6 DEF FoxTypes
  <2> QED
    BY <1>0, <1>6, <1>9, <2>1, <2>2 DEF Awaited
<1>12. OnePlace(Tup(n, k))
  BY <1>0, <1>4
<1>13. wasSent(Tup(n, k))
  <2>1. foxTuple[n] >= 1
    BY <1>0, <1>2 DEF Awaited
  <2> QED
    BY <1>1, <1>4, <2>1 DEF wasSent
<1>14. Logged'
  <2> SUFFICES ASSUME NEW u \in Nodes, NEW i \in DOMAIN (endLog'[u])
               PROVE  /\ endLog'[u][i].echo = Tup(u, endLog'[u][i].tuple)
                      /\ wasSent(endLog[u][i].echo)'
                      /\ cpc'[u] = "echo" => endLog'[u][i].tuple < foxTuple'[u]
    BY DEF Logged
  <2>1. CASE u # n
    BY <1>0, <1>6, <1>9, <2>1 DEF Logged, wasSent
  <2>2. CASE u = n
    <3>1. cpc'[n] # "echo"
      BY <1>0, <1>6 DEF FoxTypes
    <3>2. CASE i = Len(endLog[n]) + 1
      BY <1>5, <1>6, <1>8, <1>13, <2>2, <3>1, <3>2 DEF wasSent
    <3>3. CASE i \in 1 .. Len(endLog[n])
      BY <1>0, <1>6, <1>8, <2>2, <3>1, <3>3 DEF Logged, wasSent
    <3>4. i \in 1 .. Len(endLog[n]) + 1
      BY <1>8, <2>2
    <3>5. i = Len(endLog[n]) + 1 \/ i \in 1 .. Len(endLog[n])
      BY <1>8, <3>4
    <3> QED
      BY <3>2, <3>3, <3>5
  <2> QED
    BY <2>1, <2>2
<1>15. ASSUME NEW m \in FoxTuples PROVE OnePlace(m)'
  BY <1>0, <1>6 DEF OnePlace, wasSent, inHand, inLog
<1> QED
  BY <1>10, <1>11, <1>14, <1>15 DEF FoxInv

\* Every step keeps each tuple in one place.
LEMMA FoxNextInv == ASSUME FoxInv, [ConfNext]_confVars PROVE FoxInv'
<1>0. DOMAIN cpc = Nodes
  BY DEF FoxInv, FoxTypes
<1>1. CASE UNCHANGED confVars \/ ServerStep
  <2>1. UNCHANGED <<cpc, stamped, arrived, echoed, foxTuple, startLog, endLog, unlogged>>
    BY <1>1 DEF confVars, openVars, foxVars, ServerStep, ServerStart, Serve
  <2> QED
    BY <1>0, <2>1, FoxIdleInv
<1>2. ASSUME NEW n \in Nodes, Opening(n) \/ FoxStartClose(n) PROVE FoxInv'
  <2>1. UNCHANGED <<stamped, arrived, echoed, foxTuple, startLog, endLog, unlogged>>
    BY <1>2 DEF Opening, openChannelNet, Received, initFoxStart, FoxStartThread, Retry,
                Connect, OpenLog, FoxStartClose, foxVars
  <2>2. cpc[n] # "echo"
    BY <1>2 DEF Opening, openChannelNet, Received, initFoxStart, FoxStartThread, Retry,
                Connect, OpenLog, FoxStartClose
  <2>3. initHandler(n) # "echo"
    BY DEF initHandler
  <2>4. PICK l : cpc' = [cpc EXCEPT ![n] = l] /\ l # "echo"
    <3>1. CASE openChannelNet(n) \/ initFoxStart(n) \/ Retry(n) \/ Connect(n) \/ FoxStartClose(n)
      BY <3>1 DEF openChannelNet, initFoxStart, Retry, Connect, FoxStartClose, Ask, cgoto
    <3>2. CASE Received(n)
      BY <2>3, <3>2 DEF Received, cgoto
    <3>3. CASE FoxStartThread(n)
      BY <3>3 DEF FoxStartThread, cgoto
    <3>4. CASE OpenLog(n)
      BY <3>4 DEF OpenLog, cgoto
    <3> QED
      BY <1>2, <3>1, <3>2, <3>3, <3>4 DEF Opening
  <2>5. DOMAIN cpc' = Nodes /\ \A m \in Nodes : cpc'[m] = "echo" <=> cpc[m] = "echo"
    BY <1>0, <2>2, <2>4
  <2> QED
    BY <2>1, <2>5, FoxIdleInv
<1> QED
  BY <1>1, <1>2, FoxSendInv, FoxEchoInv, FoxStartLogInv, FoxStartHandlerInv, FoxEndLogInv
     DEF ConfNext, ReceiverStep

\* With each tuple in one place the logs agree.
LEMMA FoxInvLogs == FoxInv => LogsAgree
<1> SUFFICES ASSUME FoxInv, NEW n \in Nodes, NEW i \in DOMAIN endLog[n]
             PROVE  LET m == [from |-> n, tuple |-> endLog[n][i].tuple]
                        places == {j \in DOMAIN startLog : startLog[j] = m}
                    IN /\ endLog[n][i].echo = m
                       /\ IF m \in unlogged \/ \E s \in Nodes : stamped[s] = m
                          THEN places = {} ELSE Cardinality(places) = 1
  BY DEF LogsAgree, EchoOwn, RoundTripsLogged
<1>0. PICK m : m = [from |-> n, tuple |-> endLog[n][i].tuple]
  OBVIOUS
<1>1. PICK e \in [tuple : Nat, echo : FoxTuples] : e = endLog[n][i]
  <2>1. endLog[n] \in Seq([tuple : Nat, echo : FoxTuples])
    BY DEF FoxInv, FoxTypes
  <2>2. i \in 1 .. Len(endLog[n])
    BY <2>1
  <2> QED
    BY <2>1, <2>2, ElementOfSeq
<1>2. /\ m = Tup(n, e.tuple) /\ e.echo = m /\ wasSent(m)
      /\ cpc[n] = "echo" => e.tuple < foxTuple[n]
  BY <1>0, <1>1 DEF FoxInv, Logged, Tup
<1>3. m \in FoxTuples /\ m.from = n /\ m.tuple = e.tuple /\ e.tuple \in Nat
  BY <1>1, <1>2, TupFacts
<1>4. m \notin arrived
  <2>1. foxTuple[n] \in Nat
    BY DEF FoxInv, FoxTypes
  <2> QED
    BY <1>2, <1>3, <2>1 DEF FoxInv, Awaited
<1>5. OnePlace(m)
  BY <1>3 DEF FoxInv
<1>6. ASSUME ~(m \in unlogged \/ inHand(m))
      PROVE  Cardinality({j \in DOMAIN startLog : startLog[j] = m}) = 1
  <2>1. PICK j \in DOMAIN startLog : startLog[j] = m
    BY <1>2, <1>4, <1>5, <1>6 DEF OnePlace, inLog
  <2>2. {l \in DOMAIN startLog : startLog[l] = m} = {j}
    BY <1>5, <2>1 DEF OnePlace
  <2> QED
    BY <2>2, FS_Singleton
<1>7. m \in unlogged \/ inHand(m) => {j \in DOMAIN startLog : startLog[j] = m} = {}
  BY <1>5 DEF OnePlace, inLog
<1> QED
  BY <1>0, <1>1, <1>2, <1>6, <1>7 DEF inHand

\* LogsAgree holds for any nodes, identities and numbers of tuples: the receiver
\* thread, the application of the start node, closeChannel and the end nodes interleave
\* in any way (fox_start_handler.cpp, FoxStartReceiver; fox_end_handler.cpp).
THEOREM RoundTripsAgree == ConfSpec => []LogsAgree
<1>1. ConfInit => FoxInv
  BY FoxInitInv
<1>2. FoxInv /\ [ConfNext]_confVars => FoxInv'
  BY FoxNextInv
<1>3. FoxInv => LogsAgree
  BY FoxInvLogs
<1> QED
  BY <1>1, <1>2, <1>3, PTL DEF ConfSpec

=============================================================================
