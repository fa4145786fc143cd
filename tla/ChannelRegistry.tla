-------------------------- MODULE ChannelRegistry --------------------------
(***************************************************************************)
(* The channels of a process (channels.cpp, closure.cpp) and their closing  *)
(* when it ends (cleanUpAtNormalExit and cleanUpAtAbnormalExit of           *)
(* cleanup.cpp), for channels without an IO thread.  Threads call           *)
(* openChannel, isOpen, closeChannel and parameterizeChannel; exit() and    *)
(* the signals, in whichever threads they are handled, each make their      *)
(* thread sweep ch_info under mtx_bk and end the process.                   *)
(*                                                                         *)
(* Each channel's closure is written as the number of the openChannel call  *)
(* that made it; a defect channel is the handle 0.                          *)
(***************************************************************************)
EXTENDS Integers, Sequences, FiniteSets

CONSTANTS
  Threads,
  NrChannels,    \* bound: calls of openChannel
  NrQueries,     \* bound: calls of isOpen
  MaxSignals,    \* bound: signals that are delivered
  NoThread,
  IPFound        \* the results getIPDottedQuad may have: a set of BOOLEANs

ASSUME RegistryAssumption ==
  /\ NoThread \notin Threads /\ NrChannels \in Nat /\ NrQueries \in Nat /\ MaxSignals \in Nat
  /\ IPFound \subseteq BOOLEAN

Calls == 1 .. NrChannels

\* registerAbnormalExitHandler.
Signals == {"SIGINT", "SIGTERM"}

VARIABLES
  next_channel,
  ch_info,       \* sequence of closures
  mtx_bk,        \* the thread that holds it
  registered,    \* how often atexit has been given cleanUpAtNormalExit
  ch_nr,         \* the number of each closure's channel
  ch_logf,       \* its log file: "new", "open", "closed"
  named,         \* is ch_logf_name set
  isCloseCalled,
  rpc, cl,       \* each thread's place, and the closure it works on
  handles,       \* what openChannel has returned
  queries,
  exitCalled,
  caught,        \* the signals whose handlers a thread is in: <<thread, signal>>
  sweep,         \* closeAllChannels: index of the next closure it closes
  returned,      \* history: channels returned before the sweep of ch_info began
  vouched,       \* history: channels returned before one of those that have ended
  process        \* "running", "exited", "crashed"

closureVars == <<ch_nr, ch_logf, named, isCloseCalled>>
sweepVars == <<exitCalled, caught, sweep, returned, vouched>>
regVars == <<next_channel, ch_info, mtx_bk, registered, closureVars, rpc, cl,
             handles, queries, sweepVars, process>>

RegInit ==
  /\ next_channel = 0 /\ ch_info = <<>> /\ mtx_bk = NoThread
  /\ registered = 0
  /\ ch_nr = [c \in Calls |-> -1] /\ ch_logf = [c \in Calls |-> "new"]
  /\ named = [c \in Calls |-> FALSE]
  /\ isCloseCalled = [c \in Calls |-> FALSE]
  /\ rpc = [t \in Threads |-> "idle"] /\ cl = [t \in Threads |-> 0]
  /\ handles = {} /\ queries = 0
  /\ exitCalled = FALSE /\ caught = {}
  /\ sweep = 0 /\ returned = {} /\ vouched = {}
  /\ process = "running"

\* A thread goes from one place to another while the process runs.
at(t, l) == process = "running" /\ rpc[t] = l
to(t, l) == rpc' = [rpc EXCEPT ![t] = l]

-----------------------------------------------------------------------------
(* openChannel. *)

number == next_channel

\* next_channel++.  Then the configuration may not be obtained or the handler type
\* not be supported: a defect channel is returned.
openChannelBegin(t) ==
  /\ at(t, "idle") /\ next_channel < NrChannels
  /\ next_channel' = next_channel + 1
  /\ \/ /\ cl' = [cl EXCEPT ![t] = next_channel']
        /\ ch_nr' = [ch_nr EXCEPT ![next_channel'] = number]
        /\ to(t, "init")
        /\ UNCHANGED handles
     \/ handles' = handles \cup {0} /\ UNCHANGED <<cl, ch_nr, rpc>>
  /\ UNCHANGED <<ch_info, mtx_bk, registered, ch_logf, named, isCloseCalled, queries,
                 sweepVars, process>>

\* mtx_bk.lock(), here and in isOpen.
Lock(t, from, next) ==
  /\ at(t, from) /\ mtx_bk = NoThread
  /\ mtx_bk' = t
  /\ to(t, next)
  /\ UNCHANGED <<next_channel, ch_info, registered, closureVars, cl, handles, queries,
                 sweepVars, process>>

openChannelLock(t) == Lock(t, "init", "push")

firstChannel == ch_info = <<>>

listed(t) == Append(ch_info, cl[t])

openChannelPush(t) ==
  /\ at(t, "push")
  /\ registered' = IF firstChannel THEN registered + 1 ELSE registered
  /\ ch_info' = listed(t)
  /\ mtx_bk' = NoThread
  /\ to(t, "name")
  /\ UNCHANGED <<next_channel, closureVars, cl, handles, queries, sweepVars, process>>

return(t, h) == to(t, "idle") /\ cl' = [cl EXCEPT ![t] = 0] /\ handles' = handles \cup {h}

\* closure::openChannel up to the name of the file.
closureName(t) ==
  /\ at(t, "name")
  /\ \E found \in IPFound :
       IF found
       THEN named' = [named EXCEPT ![cl[t]] = TRUE] /\ to(t, "file")
            /\ UNCHANGED <<cl, handles>>
       ELSE return(t, 0) /\ UNCHANGED named
  /\ UNCHANGED <<next_channel, ch_info, mtx_bk, registered, ch_nr, ch_logf,
                 isCloseCalled, queries, sweepVars, process>>

\* ... and the file, which may fail to open.
closureFile(t) ==
  /\ at(t, "file")
  /\ \/ /\ ch_logf' = [ch_logf EXCEPT ![cl[t]] = "open"]
        /\ to(t, "parameterize")
        /\ UNCHANGED <<cl, handles>>
     \/ return(t, 0) /\ UNCHANGED ch_logf
  /\ UNCHANGED <<next_channel, ch_info, mtx_bk, registered, ch_nr, named, isCloseCalled,
                 queries, sweepVars, process>>

\* Parameters from the configuration server, if any: a handler without
\* parm_handler_f or one that refuses them makes a defect channel of it.
openChannelEnd(t) ==
  /\ at(t, "parameterize")
  /\ return(t, cl[t]) \/ return(t, 0)
  /\ UNCHANGED <<next_channel, ch_info, mtx_bk, registered, closureVars, queries,
                 sweepVars, process>>

-----------------------------------------------------------------------------
(* isOpen, closeChannel, parameterizeChannel. *)

isOpenCall(t, h) ==
  /\ at(t, "idle") /\ h \in handles /\ queries < NrQueries
  /\ queries' = queries + 1
  /\ cl' = [cl EXCEPT ![t] = h]
  /\ to(t, "isOpen")
  /\ UNCHANGED <<next_channel, ch_info, mtx_bk, registered, closureVars, handles,
                 sweepVars, process>>

isOpenLock(t) == Lock(t, "isOpen", "search")

\* The answer, and the guard's unlock.
isOpenAnswer(t) == \E i \in DOMAIN ch_info : ch_info[i] = cl[t] /\ ch_logf[cl[t]] = "open"

\* Variant: the guard is destroyed only if the channel is found.
released_found(t) == IF isOpenAnswer(t) THEN NoThread ELSE mtx_bk

released(t) == NoThread

isOpenReturn(t) ==
  /\ at(t, "search")
  /\ mtx_bk' = released(t)
  /\ to(t, "idle")
  /\ cl' = [cl EXCEPT ![t] = 0]
  /\ UNCHANGED <<next_channel, ch_info, registered, closureVars, handles, queries,
                 sweepVars, process>>

\* closure::closeChannel on c: the test of is_open, and what follows if it is not:
\* a warning that names the file, once.
closeTest(t, c, next) ==
  /\ IF ch_logf[c] = "open"
     THEN to(t, next) /\ UNCHANGED <<isCloseCalled, process>>
     ELSE /\ isCloseCalled' = [isCloseCalled EXCEPT ![c] = TRUE]
          /\ process' = IF ~isCloseCalled[c] /\ ~named[c] THEN "crashed" ELSE process
          /\ UNCHANGED rpc
  /\ UNCHANGED <<next_channel, ch_info, mtx_bk, registered, ch_nr, ch_logf, named,
                 handles, queries>>

\* ... ch_logf.close(), when another thread may have done the same since.
closeFile(t, c, next) ==
  /\ ch_logf' = [ch_logf EXCEPT ![c] = "closed"]
  /\ process' \in IF ch_logf[c] = "closed" THEN {process, "crashed"} ELSE {process}
  /\ to(t, next)
  /\ UNCHANGED <<next_channel, ch_info, mtx_bk, registered, ch_nr, named, isCloseCalled,
                 handles, queries>>

\* closeChannel, the poison pill of logTS, and parameterizeChannel of a channel that
\* takes no parameters or with an invalid literal.  A defect channel ignores them.
closeChannelBegin(t, h) ==
  /\ at(t, "idle") /\ h \in handles \ {0}
  /\ closeTest(t, h, "close")
  /\ cl' = [cl EXCEPT ![t] = IF ch_logf[h] = "open" THEN h ELSE 0]
  /\ UNCHANGED sweepVars

closeChannelEnd(t) ==
  /\ at(t, "close")
  /\ closeFile(t, cl[t], "idle")
  /\ cl' = [cl EXCEPT ![t] = 0]
  /\ UNCHANGED sweepVars

-----------------------------------------------------------------------------
(* The end of the process. *)

\* A thread begins to sweep, and does not come back.
Begin(t) ==
  /\ process = "running" /\ registered > 0
  /\ to(t, "sweepLock") /\ cl' = [cl EXCEPT ![t] = 0]
  /\ UNCHANGED <<next_channel, ch_info, mtx_bk, registered, closureVars, handles,
                 queries, sweep, returned, vouched, process>>

\* exit() is called once, by a thread that is in no call.
cleanUpAtNormalExit(t) ==
  /\ at(t, "idle") /\ ~exitCalled /\ Begin(t)
  /\ exitCalled' = TRUE /\ UNCHANGED caught

\* SIGINT and SIGTERM interrupt a thread anywhere, in a sweep too; each is blocked in a
\* thread that is in its handler, and in no other thread.
cleanUpAtAbnormalExit(t, signum) ==
  /\ <<t, signum>> \notin caught /\ Cardinality(caught) < MaxSignals /\ Begin(t)
  /\ caught' = caught \cup {<<t, signum>>} /\ UNCHANGED exitCalled

\* closeAllChannels.  A thread that holds mtx_bk already waits for itself.
sweepLock(t) ==
  /\ at(t, "sweepLock") /\ mtx_bk = NoThread
  /\ mtx_bk' = t /\ sweep' = 1 /\ returned' = handles \ {0}
  /\ to(t, "sweep")
  /\ UNCHANGED <<next_channel, ch_info, registered, closureVars, cl, handles, queries,
                 exitCalled, caught, vouched, process>>

\* Variant: the last channel is left out.
swept_short == sweep >= Len(ch_info)

swept == sweep > Len(ch_info)

sweepTest(t) ==
  /\ at(t, "sweep") /\ ~swept
  /\ closeTest(t, ch_info[sweep], "sweepClose")
  /\ sweep' = IF ch_logf[ch_info[sweep]] = "open" THEN sweep ELSE sweep + 1
  /\ UNCHANGED <<cl, exitCalled, caught, returned, vouched>>

sweepClose(t) ==
  /\ at(t, "sweepClose")
  /\ closeFile(t, ch_info[sweep], "sweep")
  /\ sweep' = sweep + 1
  /\ UNCHANGED <<cl, exitCalled, caught, returned, vouched>>

\* mtx_bk.unlock(); another sweep may begin before the process ends.
sweepEnd(t) ==
  /\ at(t, "sweep") /\ swept
  /\ mtx_bk' = NoThread /\ vouched' = vouched \cup returned
  /\ to(t, "leave")
  /\ UNCHANGED <<next_channel, ch_info, registered, closureVars, cl, handles, queries,
                 exitCalled, caught, sweep, returned, process>>

\* quick_exit, or the rest of exit.
leave(t) ==
  /\ at(t, "leave") /\ process' = "exited"
  /\ UNCHANGED <<next_channel, ch_info, mtx_bk, registered, closureVars, rpc, cl, handles,
                 queries, sweepVars>>

-----------------------------------------------------------------------------
\* The steps of a call, and of a sweep, that has begun.
RegStep(t) ==
  \/ openChannelLock(t) \/ openChannelPush(t) \/ closureName(t) \/ closureFile(t)
  \/ openChannelEnd(t) \/ isOpenLock(t) \/ isOpenReturn(t) \/ closeChannelEnd(t)
  \/ sweepLock(t) \/ sweepTest(t) \/ sweepClose(t) \/ sweepEnd(t) \/ leave(t)

RegNext ==
  \E t \in Threads :
    \/ openChannelBegin(t) \/ RegStep(t)
    \/ \E h \in 0 .. NrChannels : isOpenCall(t, h) \/ closeChannelBegin(t, h)
    \/ cleanUpAtNormalExit(t) \/ \E signum \in Signals : cleanUpAtAbnormalExit(t, signum)

\* Threads run and a mutex that is free again and again is got; the calls the
\* application makes are its own choice.
RegSpec ==
  /\ RegInit /\ [][RegNext]_regVars
  /\ \A t \in Threads : SF_regVars(RegStep(t))

-----------------------------------------------------------------------------
\* No two channels of a process have the same number, which is what tells their log
\* files apart (channels.cpp, openChannel; closure.cpp, openChannel).
OwnNumber ==
  \A c, d \in Calls : c # d /\ ch_nr[c] # -1 => ch_nr[c] # ch_nr[d]

\* A sweep leaves no channel open that openChannel had returned before it, whoever
\* closes channels, opens others or sweeps too (cleanup.cpp, closeAllChannels).
SweptClosed == \A c \in vouched : ch_logf[c] = "closed"

\* The sweep is registered exactly once, by whichever thread's channel comes first
\* (channels.cpp, openChannel).
RegisteredOnce == registered = IF ch_info = <<>> THEN 0 ELSE 1

\* A handle the application may log to is in ch_info exactly once, so isOpen finds it
\* and the sweep closes it, also if several threads open channels (channels.cpp).
HandleListed ==
  \A h \in handles \ {0} : Cardinality({i \in DOMAIN ch_info : ch_info[i] = h}) = 1

\* A channel the application has a handle of is listed once, under a number of its own,
\* and closed by every sweep that comes to its end, however the calls of its threads
\* interleave with each other and with the sweeps (channels.cpp, cleanup.cpp).
ChannelsKept == OwnNumber /\ RegisteredOnce /\ HandleListed /\ SweptClosed

\* A signal has caught the thread that holds mtx_bk.
waitsForItself == \E t \in Threads : rpc[t] = "sweepLock" /\ mtx_bk = t

\* Every call ends, and the process too once it has begun to end, unless it crashed or
\* a signal has caught the thread that holds mtx_bk (channels.cpp, cleanup.cpp).
CallsReturn ==
  \A t \in Threads :
    (rpc[t] # "idle") ~> rpc[t] = "idle" \/ process # "running" \/ waitsForItself
=============================================================================
