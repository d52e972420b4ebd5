----------------------------- MODULE SampleRing -----------------------------
(***************************************************************************)
(* The ring buffer of a pass shard, RingBuffer of hardware/src/shard.rs: a *)
(* block of the shard's arena, a head index where samples are written and  *)
(* a tail index where they are read, equal when the buffer is empty.       *)
(***************************************************************************)
EXTENDS Integers, Sequences, FiniteSetsExt

CONSTANTS
  Samples,   \* sample values; Zero is what the arena is filled with
  Zero,
  Capacity,
  MaxBurst   \* bound on the samples of one call

ASSUME RingAssumption ==
  /\ Zero \in Samples
  /\ Capacity \in Nat \ {0}
  /\ MaxBurst \in Nat

VARIABLES
  buffer,
  head,
  tail,
  delivered  \* what the last call of read() delivered

ringVars == <<buffer, head, tail, delivered>>

Bursts == UNION {[1..n -> Samples] : n \in 0..MaxBurst}

RingInit ==
  /\ buffer = [i \in 0..(Capacity - 1) |-> Zero]
  /\ head = 0
  /\ tail = 0
  /\ delivered = <<>>

AvailableFull ==
  IF head >= tail THEN Capacity - (head - tail) ELSE tail - head - 1

\* available(): one slot stays empty.
Available ==
  IF head >= tail THEN Capacity - (head - tail) - 1 ELSE tail - head - 1

\* used()
Used == IF head >= tail THEN head - tail ELSE Capacity - (tail - head)

Slot(from, i) == (from + i) % Capacity

\* write(): what fits, from the head on, wrapping around.
Write(burst) ==
  LET count == Min({Len(burst), Available}) IN
  /\ buffer' = [k \in DOMAIN buffer |->
       LET hits == {i \in 0..(count - 1) : Slot(head, i) = k} IN
       IF hits = {} THEN buffer[k] ELSE burst[Max(hits) + 1]]
  /\ head' = Slot(head, count)
  /\ UNCHANGED <<tail, delivered>>

\* read(): what there is, from the tail on.
Read(n) ==
  LET count == Min({n, Used}) IN
  /\ delivered' = [i \in 1..count |-> buffer[Slot(tail, i - 1)]]
  /\ tail' = Slot(tail, count)
  /\ UNCHANGED <<buffer, head>>

RingNext ==
  \/ \E burst \in Bursts : Write(burst)
  \/ \E n \in 0..MaxBurst : Read(n)

RingSpec == RingInit /\ [][RingNext]_ringVars

-----------------------------------------------------------------------------
(* Properties *)

\* Every field of the buffer has its type; the indexes stay inside the block.
RingTypeOK ==
  /\ buffer \in [0..(Capacity - 1) -> Samples]
  /\ head \in 0..(Capacity - 1)
  /\ tail \in 0..(Capacity - 1)

\* The samples between tail and head.
Contents == [i \in 1..Used |-> buffer[Slot(tail, i - 1)]]

\* The ring implements a queue of Capacity - 1 samples: across every wrap of the
\* two indexes, partial write and short read, no sample is lost, repeated,
\* overwritten before it is read or delivered out of order.
Fifo == INSTANCE SampleFifo WITH fifo <- Contents, Bound <- Capacity - 1

ImplementsFifo == Fifo!Spec

=============================================================================
