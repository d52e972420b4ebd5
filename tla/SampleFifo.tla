----------------------------- MODULE SampleFifo -----------------------------
(***************************************************************************)
(* What a sample buffer of a pass shard promises: a queue of at most Bound *)
(* samples.  A write takes as much of its input as there is room for, a    *)
(* read delivers as much as it asked for and there is, in order.           *)
(***************************************************************************)
EXTENDS Naturals, Sequences, FiniteSetsExt

CONSTANTS Samples, Bound, MaxBurst

VARIABLES
  fifo,      \* samples written and not yet read
  delivered  \* what the last call of read() delivered

Bursts == UNION {[1..n -> Samples] : n \in 0..MaxBurst}

Init == fifo = <<>> /\ delivered = <<>>

Write(burst) ==
  /\ fifo' = fifo \o SubSeq(burst, 1, Min({Len(burst), Bound - Len(fifo)}))
  /\ UNCHANGED delivered

Read(n) ==
  LET count == Min({n, Len(fifo)}) IN
  /\ delivered' = SubSeq(fifo, 1, count)
  /\ fifo' = SubSeq(fifo, count + 1, Len(fifo))

Next ==
  \/ \E burst \in Bursts : Write(burst)
  \/ \E n \in 0..MaxBurst : Read(n)

Spec == Init /\ [][Next]_<<fifo, delivered>>

=============================================================================
