------------------------------ MODULE Decoders ------------------------------
(***************************************************************************)
(* DeflateDecoder and GzipDecoder of response.py over zlib's decompressor. *)
(*                                                                         *)
(* Encoded data is a sequence of units, a unit the sequence of bytes that  *)
(* it decodes to: End, with no bytes, is the trailer of a gzip member or   *)
(* of a zlib stream, and Junk is what zlib refuses.  Raw deflate data has  *)
(* no trailer: its end lies within its last unit.                          *)
(*                                                                         *)
(* DeflateDecoder starts in doubt whether its data is zlib or raw and      *)
(* starts over on the first zlib.error.  The doubt ends with the header,   *)
(* inside the first unit, so a decoder is made here for the kind of data   *)
(* that it meets.                                                          *)
(***************************************************************************)
EXTENDS Integers, Sequences, SequencesExt, BytesQueueBuffer

End  == <<>>
Junk == <<0>>

\* The bytes that units stand for.
Payload(units) ==
  FlattenSeq([i \in DOMAIN units |-> IF units[i] = Junk THEN <<>> ELSE units[i]])

------------------------------------------------------------------------------
(* zlib.decompressobj *)

\* inner  decoded, but beyond the limit of the last call: no attribute shows it
\* tail   unconsumed_tail        unused  unused_data        eof  eof
NewObj == [inner |-> <<>>, tail |-> <<>>, unused |-> <<>>, eof |-> FALSE]

\* How many units decompress() takes from data: zlib goes on as long as all
\* that it has decoded fits below limit (0 is none), up to the trailer or to
\* what it refuses.
GoesOn(z, data, limit, k) ==
  /\ limit = 0 \/ Len(z.inner) + Len(FlattenSeq(Take(data, k))) <= limit
  /\ k > 0 => data[k] \notin {End, Junk}

Consumed(z, data, limit) ==
  CHOOSE k \in 0..Len(data) :
    /\ k = Len(data) \/ ~GoesOn(z, data, limit, k)
    /\ \A j \in 0..k-1 : GoesOn(z, data, limit, j)

\* What is left of object z when it has taken k units of data and returned out.
TakenIn(z, data, k, out) ==
  LET eof == k > 0 /\ data[k] = End
  IN  [inner  |-> Drop(z.inner \o FlattenSeq(Take(data, k)), Len(out)),
       tail   |-> IF eof THEN <<>> ELSE Drop(data, k),
       unused |-> IF eof THEN Drop(data, k) ELSE <<>>,
       eof    |-> eof]

Limited(bytes, limit) ==
  IF limit = 0 \/ Len(bytes) <= limit THEN bytes ELSE Take(bytes, limit)

\* The result of decompress() when it takes k units of data, and out of it.  An
\* object that has failed leaves the data it refuses in its tail, where it
\* fails again, and has nothing to flush.
InflateBy(z, data, k, out) ==
  IF k > 0 /\ data[k] = Junk
  THEN [obj |-> [NewObj EXCEPT !.tail = Drop(data, k - 1)], out |-> <<>>, error |-> TRUE]
  ELSE [obj |-> TakenIn(z, data, k, out), out |-> out, error |-> FALSE]

InflateUpTo(z, data, k, limit) ==
  InflateBy(z, data, k, Limited(z.inner \o FlattenSeq(Take(data, k)), limit))

\* decompress(data, limit).  After the end of the stream it decodes nothing
\* and appends data to unused_data.
Inflate(z, data, limit) ==
  IF z.eof
  THEN [obj |-> [z EXCEPT !.unused = @ \o data], out |-> <<>>, error |-> FALSE]
  ELSE InflateUpTo(z, data, Consumed(z, data, limit), limit)

------------------------------------------------------------------------------
(* The decoders *)

\* kept: _unfed_data of a DeflateDecoder, _unconsumed_tail of a GzipDecoder.
NewDecoder(kind) ==
  [kind |-> kind, obj |-> NewObj, kept |-> <<>>, state |-> "first"]

\* What a decoder's methods return: its next state, and the data or an error.
Returned(d, out)  == [dec |-> d, out |-> out, error |-> FALSE]
Result(d, r)      == [dec |-> d, out |-> r.out, error |-> r.error]
WithObj(d, r)     == Result([d EXCEPT !.obj = r.obj], r)
Fed(d, data)      == [d EXCEPT !.kept = @ \o data]

\* decompress(data, max): negative is no limit, and 0 decodes nothing.
DeflateDecompress(d, data, max) ==
  IF d.kept \o data = <<>> /\ d.obj.tail = <<>> THEN Returned(d, <<>>)
  ELSE IF max = 0 THEN Returned(Fed(d, data), <<>>)
  ELSE WithObj([d EXCEPT !.kept = <<>>],
               Inflate(d.obj, d.obj.tail \o d.kept \o data, IF max < 0 THEN 0 ELSE max))

\* What object z leaves of its data for the next turn.
Rest(z) == IF z.tail # <<>> THEN z.tail ELSE z.unused

\* The loop's state after a turn: r is what the object returned.  An error is
\* raised from the first member, and ends the decoding after it.
GzipAfter(s, r, over) ==
  IF r.error
  THEN [s EXCEPT !.dec = [@ EXCEPT !.obj = r.obj, !.kept = <<>>, !.state = "swallow"],
                 !.error = (s.dec.state # "others"), !.over = TRUE]
  ELSE [s EXCEPT !.dec = IF ~over /\ r.obj.eof
                         THEN [@ EXCEPT !.obj = NewObj, !.kept = Rest(r.obj), !.state = "others"]
                         ELSE [@ EXCEPT !.obj = r.obj, !.kept = Rest(r.obj)],
                 !.data = Rest(r.obj), !.out = @ \o r.out, !.over = over]

GzipLoopOver(s, r, max) ==
  (max > 0 /\ Len(s.out) + Len(r.out) >= max) \/ Rest(r.obj) = <<>>

GzipFed(s, r, max) == GzipAfter(s, r, GzipLoopOver(s, r, max))

\* One turn of GzipDecoder's loop over the members in data.
GzipTurn(s, max) ==
  IF s.over THEN s
  ELSE GzipFed(s, Inflate(s.dec.obj, s.data, IF max > 0 THEN max - Len(s.out) ELSE 0), max)

GzipStart(d, data) ==
  [dec |-> d, data |-> data, out |-> <<>>, over |-> FALSE, error |-> FALSE]

\* All of its turns: each takes a unit, but for one that meets the end again.
GzipLoop(d, data, max) ==
  LET last == Len(d.obj.unused) + Len(data) + 2
      turn[i \in 0..last] ==
        IF i = 0 THEN GzipStart(d, data) ELSE GzipTurn(turn[i - 1], max)
  IN  turn[last]

\* Data after the last member that is none of its own is swallowed.
GzipDecompress(d, data, max) ==
  IF d.state = "swallow" THEN Returned(d, <<>>)
  ELSE IF max = 0 THEN Returned(Fed(d, data), <<>>)
  ELSE IF d.kept \o data = <<>> /\ d.obj.eof THEN Returned(d, <<>>)
  ELSE GzipLoop(d, d.kept \o data, max)

Decompress(d, data, max) ==
  IF d.kind = "gzip" THEN GzipDecompress(d, data, max)
                     ELSE DeflateDecompress(d, data, max)

HasUnconsumedTail(d) ==
  d.kept # <<>> \/ (d.kind # "gzip" /\ d.obj.tail # <<>>)

FlushObj(r) ==
  WithObj(r.dec, [Inflate(r.dec.obj, r.dec.obj.tail, 0) EXCEPT !.out = r.out \o @, !.error = r.error])

\* _flush_decoder: decompress(b"") and then the object's flush().
FlushDecoder(d) == FlushObj(Decompress(d, <<>>, -1))

\* The units a decoder has been given and not decoded, and the bytes it has
\* decoded and not returned.
Undelivered(d) ==
  d.obj.inner \o Payload(IF d.kind = "gzip" THEN d.kept ELSE d.obj.tail \o d.kept)
=============================================================================
