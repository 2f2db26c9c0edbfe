------------------------- MODULE BytesQueueBuffer -------------------------
(***************************************************************************)
(* BytesQueueBuffer of response.py: decoded bytes that no read has asked   *)
(* for yet, as a deque of chunks and a count of their bytes.  A memoryview *)
(* left by a split is a chunk like any other.                              *)
(***************************************************************************)
EXTENDS Integers, Sequences, SequencesExt

Take(s, n) == SubSeq(s, 1, n)
Drop(s, n) == SubSeq(s, n + 1, Len(s))

EmptyBuffer == [chunks |-> <<>>, size |-> 0]

\* Every byte of the buffer, in order.
Contents(b) == FlattenSeq(b.chunks)

\* An empty chunk is appended, too.
PutChunk(b, data) ==
  [chunks |-> Append(b.chunks, data), size |-> b.size + Len(data)]

\* How many chunks get(n) pops: until n bytes are there or none is left.
Popped(b, n) ==
  CHOOSE k \in 1..Len(b.chunks) :
    /\ k = Len(b.chunks) \/ Len(FlattenSeq(Take(b.chunks, k))) >= n
    /\ \A j \in 1..k-1 : Len(FlattenSeq(Take(b.chunks, j))) < n

\* Mutated: what is left of the chunk that is split does not go back.
GetBytesDropsRest(b, n) ==
  IF n = 0 THEN [buf |-> b, out |-> <<>>]
  ELSE LET k   == Popped(b, n)
           all == FlattenSeq(Take(b.chunks, k))
           out == Take(all, IF n < Len(all) THEN n ELSE Len(all))
       IN  [buf |-> [chunks |-> Drop(b.chunks, k), size |-> b.size - Len(out)],
            out |-> out]

\* Mutated: the part of a chunk that is taken is not subtracted.
GetBytesCountsChunks(b, n) ==
  IF n = 0 THEN [buf |-> b, out |-> <<>>]
  ELSE LET k   == Popped(b, n)
           all == FlattenSeq(Take(b.chunks, k))
           out == Take(all, IF n < Len(all) THEN n ELSE Len(all))
           rest == Drop(all, Len(out))
       IN  [buf |-> [chunks |-> (IF rest = <<>> THEN <<>> ELSE <<rest>>)
                                  \o Drop(b.chunks, k),
                     size |-> IF rest = <<>> THEN b.size - Len(out) ELSE b.size],
            out |-> out]

\* get(n) of a buffer with a chunk in it (it raises RuntimeError without one):
\* the first n bytes, or all there are; a chunk is split where n ends.
GetBytes(b, n) ==
  IF n = 0 THEN [buf |-> b, out |-> <<>>]
  ELSE LET k   == Popped(b, n)
           all == FlattenSeq(Take(b.chunks, k))
           out == Take(all, IF n < Len(all) THEN n ELSE Len(all))
           rest == Drop(all, Len(out))
       IN  [buf |-> [chunks |-> (IF rest = <<>> THEN <<>> ELSE <<rest>>)
                                  \o Drop(b.chunks, k),
                     size |-> b.size - Len(out)],
            out |-> out]

GetAll(b) == [buf |-> EmptyBuffer, out |-> Contents(b)]
=============================================================================
