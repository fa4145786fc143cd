-------------------------- MODULE MCBufferPipeline --------------------------
(***************************************************************************)
(* The buffered pipeline for TLC, and what it is shown to implement.       *)
(***************************************************************************)
EXTENDS BufferPipeline

\* The n-th tuple of a channel is the number n, so its stream is 1..logged;
\* the file is its chunks one after the other.
Promise == INSTANCE DurableLog WITH
  stream  <- [c \in Chans |-> [i \in 1..logged[c] |-> i]],
  durable <- [c \in Chans |-> FlattenSeq(file[c])],
  closed  <- [c \in Chans |-> ch_logf[c] = "closed"]

\* The pipeline implements DurableLog: whatever the interleaving of callers,
\* compression threads, IO thread and cleanup, a log file grows only by the
\* tuples that come next, is never rewritten, and is closed once and complete
\* (writeUncompressedBlock, writeCompressedBlock, closeChannel).
KeepsPromise == Promise!Spec
=============================================================================
