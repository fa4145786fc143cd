----------------------------- MODULE DurableLog -----------------------------
(***************************************************************************)
(* What a buffered channel promises, without blocks, queues and threads:   *)
(* the log file grows by whole runs of what was logged, in order, it is    *)
(* never rewritten, and it is closed only once it is complete, after which *)
(* neither the log nor the file changes.                                   *)
(***************************************************************************)
EXTENDS Naturals, Sequences

CONSTANT Chans

VARIABLES
  stream,     \* what was logged on each channel
  durable,    \* what its log file holds
  closed      \* whether that file was closed

vars == <<stream, durable, closed>>

Init ==
  /\ stream = [c \in Chans |-> <<>>]
  /\ durable = [c \in Chans |-> <<>>]
  /\ closed = [c \in Chans |-> FALSE]

\* The n-th tuple of a channel is the number n.
Log(c) ==
  /\ ~closed[c]
  /\ stream' = [stream EXCEPT ![c] = Append(@, Len(@) + 1)]
  /\ UNCHANGED <<durable, closed>>

\* A tuple that the caller writes to the file itself, with nothing buffered.
LogThrough(c) ==
  /\ ~closed[c]
  /\ durable[c] = stream[c]
  /\ stream' = [stream EXCEPT ![c] = Append(@, Len(@) + 1)]
  /\ durable' = [durable EXCEPT ![c] = stream'[c]]
  /\ UNCHANGED closed

\* The next n tuples of the stream reach the file.  The file may be closed if
\* they are the last ones.
Flush(c, n) ==
  /\ ~closed[c]
  /\ durable' = [durable EXCEPT ![c] = SubSeq(stream[c], 1, Len(@) + n)]
  /\ \/ UNCHANGED closed
     \/ durable'[c] = stream[c] /\ closed' = [closed EXCEPT ![c] = TRUE]
  /\ UNCHANGED stream

Next ==
  \E c \in Chans :
    \/ Log(c)
    \/ LogThrough(c)
    \/ \E n \in 0..(Len(stream[c]) - Len(durable[c])) : Flush(c, n)

Spec == Init /\ [][Next]_vars
=============================================================================
