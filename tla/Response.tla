------------------------------ MODULE Response ------------------------------
(***************************************************************************)
(* WaterHTTPResponse of response.py: one response, read by one user, from  *)
(* the file object it wraps (http.client's response, or any file) through  *)
(* a decoder and the buffer of decoded bytes.                              *)
(*                                                                         *)
(* The user calls read(amt), read(), read1(amt), read1(), stream(amt),     *)
(* read_chunked(amt), drain_conn, release_conn and close, in any order.  A *)
(* call is one step, except for the calls with a loop: there one step is   *)
(* one turn, with the call in progress kept in "call".                     *)
(*                                                                         *)
(* A byte is its position in the body, so that order and loss are visible. *)
(***************************************************************************)
EXTENDS Integers, Sequences, FiniteSets, Decoders

CONSTANTS
  Shapes,      \* the responses to be read, see ShapeAssumption
  All,         \* the amount None
  NoLength,    \* None, as a length
  Large        \* the 8192 bytes that read1's loop asks for: more than any body

\* enc       "identity", "gzip", "zlib" or "raw" (the last two are "deflate")
\* decode    decode_content: the response's own for read and read1, passed as an
\*           argument to stream and read_chunked, which do not look at that one
\* wire      the units the server sends
\* file      "http": http.client's response, over a connection of a pool;
\*           "bytes": a file that reads all it is asked for; "pipe": one that
\*           may read less and has no read1
\* length    the Content-Length
\* empty     a status without a body; or HEAD, for a response that is told its
\*           request_method, and the only such one that may be chunked
\* chunks    chunk sizes, 0 the last   amts   the amounts the user asks for
\*           of a complete body; <<>> if not chunked

\* The bytes that the first i chunk sizes announce.
Announced(chunks) ==
  LET upto[i \in 0..Len(chunks)] == IF i = 0 THEN 0 ELSE upto[i - 1] + chunks[i]
  IN  upto

\* What there is of a body is no longer than its framing says: what the server
\* sends beyond that is no part of this response.
Framed(s) ==
  /\ s.empty => s.wire = <<>>
  /\ s.chunks = <<>> /\ s.file = "http" /\ s.length # NoLength => Len(s.wire) <= s.length
  /\ s.chunks # <<>> => Len(s.wire) <= Announced(s.chunks)[Len(s.chunks)]
  /\ \A i \in 1..Len(s.chunks) - 1 : s.chunks[i] # 0

\* What is never decoded is sent byte by byte.
Bytewise(s) ==
  s.enc = "identity" \/ ~s.decode =>
    \A i \in DOMAIN s.wire : Len(s.wire[i]) = 1 /\ s.wire[i] # Junk

ASSUME ShapeAssumption ==
  \A s \in Shapes :
    /\ s.enc \in {"identity", "gzip", "zlib", "raw"}
    /\ s.file \in {"http", "bytes", "pipe"}
    /\ s.decode \in BOOLEAN /\ s.empty \in BOOLEAN
    /\ s.length \in Nat \cup {NoLength}
    /\ s.amts \subseteq Nat \ {0}
    /\ s.wire \in Seq(Seq(Nat)) /\ s.chunks \in Seq(Nat)
    /\ s.chunks # <<>> => s.file = "http"
    /\ Framed(s) /\ Bytewise(s)
ASSUME NoneAssumption == All \notin Int /\ NoLength \notin Int
ASSUME LargeAssumption == Large \in Nat /\ \A s \in Shapes : Large > Len(s.wire)

VARIABLES
  shape,      \* the response
  fp,         \* _fp: state "open", "ended" (http.client has dropped its file)
              \* or "closed"; left, the units not read; length, http.client's
  remaining,  \* length_remaining
  dec,        \* _decoder
  hasDecoded, \* _has_decoded_content
  buf,        \* _decoded_buffer
  chunkLeft,  \* chunk_left, and
  sizes,      \* the chunk sizes not read yet
  conn,       \* "held" by the response, "returned" to its pool, or "none"
  sock,       \* whether the connection is "open" or "closed"
  call,       \* the call in progress; odd changes with each of its steps
  delivered,  \* every byte the user has been given
  answer,     \* how the last call ended
  marks       \* what the user has done, or met, that ends the guarantees:
              \* "failed", "closed", "drained", "released", "skipped",
              \* "unreported"; and which way a chunked body is
              \* read, "whole" or "chunks"

vars == <<shape, fp, remaining, dec, hasDecoded, buf, chunkLeft, sizes,
          conn, sock, call, delivered, answer, marks>>

Idle    == [op |-> "none", amt |-> All, phase |-> "idle", first |-> FALSE,
            odd |-> FALSE]
Chunked == shape.chunks # <<>>
Http    == shape.file = "http"

\* _init_length: what Content-Length says counts, unless the body is chunked
\* or there is none.
InitLength(s) == IF s.chunks # <<>> THEN NoLength
                 ELSE IF s.empty THEN 0 ELSE s.length

Init ==
  /\ shape \in Shapes
  /\ fp = [state  |-> IF shape.empty /\ Http THEN "ended" ELSE "open",
           left   |-> shape.wire,
           length |-> IF Http THEN InitLength(shape) ELSE NoLength]
  /\ remaining  = InitLength(shape)
  /\ dec        = NewDecoder(shape.enc)
  /\ hasDecoded = FALSE
  /\ buf        = EmptyBuffer
  /\ chunkLeft  = NoLength
  /\ sizes      = shape.chunks
  /\ conn       = IF Http THEN "held" ELSE "none"
  /\ sock       = "open"
  /\ call       = Idle
  /\ delivered  = <<>>
  /\ answer     = [op |-> "none", asked |-> All, got |-> 0, raised |-> FALSE]
  /\ marks      = {}

------------------------------------------------------------------------------
(* The file: what its read(amt) or read1(amt) may return, [data, state,      *)
(* error], and what that leaves of it                                        *)

Least(S)   == CHOOSE n \in S : \A m \in S : n <= m
Limit(amt) == {amt, fp.length, Len(fp.left)} \ {All, NoLength}
Whole      == Last(shape.chunks) = 0

Got(n, state) == [data |-> Take(fp.left, n), state |-> state, error |-> FALSE]
Broken(state) == [data |-> <<>>, state |-> state, error |-> TRUE]

\* A read that may return less than it is asked for.
SomeOf(n) == IF n = 0 THEN {Got(0, fp.state)} ELSE {Got(k, fp.state) : k \in 1..n}

\* http.client's read(amt) decodes chunks, returns less than amt only at the
\* end, and drops its file when it has met the end; read() of a body shorter
\* than its length raises IncompleteRead, and so does any read beyond the end
\* of a chunked body that was cut.
HttpRead(amt) ==
  LET n == Least(Limit(amt))
  IN  IF Chunked
      THEN IF amt # All /\ amt <= Len(fp.left) THEN Got(amt, "open")
           ELSE IF Whole THEN Got(Len(fp.left), "ended") ELSE Broken("open")
      ELSE IF amt = All
      THEN IF fp.length # NoLength /\ n < fp.length THEN Broken("ended")
           ELSE Got(n, "ended")
      ELSE Got(n, IF n = 0 \/ n = fp.length THEN "ended" ELSE "open")

\* http.client's read1(amt): what one system call returns.
HttpRead1(amt) ==
  LET n == Least(Limit(amt))
  IN  IF n > 0 THEN SomeOf(n)
      ELSE IF Chunked /\ ~Whole THEN {Broken("open")}
      ELSE IF fp.length = 0 THEN {Got(0, "open")}
      ELSE {Got(0, "ended")}

FileReads(amt, one) ==
  LET n == Least(Limit(amt))
  IN  IF fp.state # "open" THEN {Got(0, fp.state)}
      ELSE IF Http THEN IF one THEN HttpRead1(amt) ELSE {HttpRead(amt)}
      ELSE IF shape.file = "pipe" /\ amt # All THEN SomeOf(n)
      ELSE {Got(n, "open")}

------------------------------------------------------------------------------
(* _raw_read, within _error_catcher *)

\* Mutated: the connection goes back whether or not the response is closed.
CaughtReleases(state, error) ==
  LET s == IF error /\ Http THEN "closed" ELSE state
  IN  [state |-> s,
       sock  |-> IF error /\ conn = "held" THEN "closed" ELSE sock,
       conn  |-> IF Http THEN "returned" ELSE conn]

\* What an exception or the end of the body does: the file is closed, and so
\* is the connection after an exception, and the pool gets the connection back
\* once http.client is done with the response.
Caught(state, error) ==
  LET s == IF error /\ Http THEN "closed" ELSE state
  IN  [state |-> s,
       sock  |-> IF error /\ conn = "held" THEN "closed" ELSE sock,
       conn  |-> IF Http /\ s # "open" THEN "returned" ELSE conn]

\* An empty answer to a positive amt is the end of the body.
AtEnd(data, amt) == data = <<>> /\ amt \notin {All, 0}

\* Mutated: Content-Length is not enforced.
TooShortNever(data, amt) == FALSE

\* The end, before all that Content-Length promised.
TooShort(data, amt) == AtEnd(data, amt) /\ remaining \notin {NoLength, 0}

\* Mutated: read leaves the file open at its end, read1 alone closes it.
FileStateAfterRead1(a, amt, one) ==
  IF ~a.error /\ one /\ (a.data = <<>> \/ remaining = Len(a.data))
  THEN "closed" ELSE a.state

\* _raw_read closes the file at its end, read1 already with the last byte.
FileState(a, amt, one) ==
  IF ~a.error /\ (\/ AtEnd(a.data, amt)
                  \/ one /\ (a.data = <<>> \/ remaining = Len(a.data)))
  THEN "closed" ELSE a.state

\* What _raw_read makes of an answer.
Outcome(a, amt, one) ==
  LET error == a.error \/ TooShort(a.data, amt)
      c     == Caught(FileState(a, amt, one), error)
  IN  [data  |-> a.data, error |-> error, sock |-> c.sock, conn |-> c.conn,
       fp    |-> [state  |-> c.state,
                  left   |-> IF a.error THEN <<>> ELSE Drop(fp.left, Len(a.data)),
                  length |-> IF fp.length = NoLength THEN NoLength
                             ELSE fp.length - Len(a.data)],
       remaining |-> IF remaining = NoLength THEN NoLength
                     ELSE remaining - Len(a.data)]

RawReads(amt, one) == {Outcome(a, amt, one) : a \in FileReads(amt, one)}

\* The part of a step that is a _raw_read with outcome r.
DoRead(r) ==
  /\ fp' = r.fp
  /\ remaining' = r.remaining
  /\ sock' = r.sock
  /\ conn' = r.conn

NoRead == UNCHANGED <<fp, remaining, sock, conn>>

------------------------------------------------------------------------------
(* _decode, and the ways a call ends *)

HasDecoder == shape.enc # "identity"
HasTail    == HasDecoder /\ HasUnconsumedTail(dec)

\* _decode(data, decode_content, flush, max): nothing to decode without a
\* decoder, and no limit when it flushes.
Decode(data, max, flush) ==
  LET r == Decompress(dec, data, IF flush THEN -1 ELSE max)
      f == FlushDecoder(r.dec)
  IN  IF ~HasDecoder \/ ~shape.decode
        THEN [dec |-> dec, out |-> Payload(data), error |-> FALSE]
      ELSE IF r.error \/ ~flush THEN r
      ELSE [f EXCEPT !.out = r.out \o f.out]

\* Mutated: what the buffer holds is not counted.
WantedAfresh(amt) == IF amt = All THEN -1 ELSE amt

\* How much of amt the buffer does not hold; -1, no limit, for None.
Wanted(amt) == IF amt = All THEN -1 ELSE amt - buf.size

MaxLength(amt) == IF amt = All THEN -1 ELSE amt

Answer(op, asked, bytes) ==
  /\ delivered' = delivered \o bytes
  /\ answer' = [op |-> op, asked |-> asked, got |-> Len(bytes), raised |-> FALSE]
  /\ call' = IF op = "stream" THEN [call EXCEPT !.phase = "next", !.odd = ~@]
             ELSE Idle

Raise(op, asked) ==
  /\ answer' = [op |-> op, asked |-> asked, got |-> 0, raised |-> TRUE]
  /\ marks' = marks \cup {"failed"}
  /\ call' = Idle
  /\ UNCHANGED delivered

\* The call goes on with another step.
GoOn(op, amt, phase, first) ==
  /\ call' = [op |-> op, amt |-> amt, phase |-> phase, first |-> first,
              odd |-> ~call.odd]
  /\ UNCHANGED <<delivered, answer>>

\* A chunked body is read through http.client or through read_chunked, not
\* through both.
Way(way) == ~Chunked \/ marks \cap ({"whole", "chunks"} \ {way}) = {}
Taken(way) == IF Chunked THEN marks \cup {way} ELSE marks

------------------------------------------------------------------------------
(* read(amt) and stream(amt) *)

\* What read(amt) does before it reads: it decodes what the decoder holds
\* back and returns if that will do.
BeginRead(op, amt) ==
  LET r == Decode(<<>>, Wanted(amt), FALSE)
      b == IF HasTail THEN PutChunk(buf, r.out) ELSE buf
      g == GetBytes(b, amt)
  IN  /\ dec' = IF HasTail THEN r.dec ELSE dec
      /\ \/ /\ HasTail /\ r.error
            /\ Raise(op, amt)
            /\ UNCHANGED buf
         \/ /\ ~(HasTail /\ r.error) /\ b.size >= amt
            /\ buf' = g.buf
            /\ Answer(op, amt, g.out)
            /\ UNCHANGED marks
         \/ /\ ~(HasTail /\ r.error) /\ b.size < amt
            /\ buf' = b
            /\ GoOn(op, amt, "fetch", TRUE)
            /\ UNCHANGED marks
      /\ NoRead
      /\ UNCHANGED <<shape, hasDecoded, chunkLeft, sizes>>

Read(amt) ==
  /\ call = Idle /\ Way("whole")
  /\ BeginRead("read", amt)

\* One _raw_read of read(amt).  Only the first may flush the decoder.
Fetch ==
  /\ call.phase = "fetch"
  /\ \E r \in RawReads(call.amt, FALSE) :
       LET none == r.data = <<>> /\ call.first
           d    == Decode(r.data, Wanted(call.amt), none)
           b    == PutChunk(buf, d.out)
           g    == GetBytes(b, call.amt)
       IN  /\ DoRead(r)
           /\ \/ /\ r.error
                 /\ Raise(call.op, call.amt)
                 /\ UNCHANGED <<dec, hasDecoded, buf>>
              \/ /\ ~r.error /\ none /\ buf.size = 0 /\ ~HasTail
                 /\ Answer(call.op, call.amt, <<>>)
                 /\ UNCHANGED <<dec, hasDecoded, buf, marks>>
              \/ /\ ~r.error /\ r.data # <<>> /\ ~shape.decode
                 /\ Answer(call.op, call.amt, Payload(r.data))
                 /\ marks' = Taken("whole")
                 /\ UNCHANGED <<dec, hasDecoded, buf>>
              \/ /\ ~r.error /\ shape.decode /\ d.error
                 /\ Raise(call.op, call.amt)
                 /\ dec' = d.dec
                 /\ UNCHANGED <<hasDecoded, buf>>
              \/ /\ ~r.error /\ shape.decode /\ ~d.error
                 /\ ~(none /\ buf.size = 0 /\ ~HasTail)
                 /\ dec' = d.dec
                 /\ hasDecoded' = HasDecoder
                 /\ marks' = Taken("whole")
                 /\ IF b.size < call.amt /\ r.data # <<>>
                    THEN /\ buf' = b
                         /\ GoOn(call.op, call.amt, "fetch", FALSE)
                    ELSE /\ buf' = g.buf
                         /\ Answer(call.op, call.amt, g.out)
  /\ UNCHANGED <<shape, chunkLeft, sizes>>

\* stream(amt) of a body that is not chunked: read(amt) for as long as the
\* file is open, or something is left in the buffer or the decoder.
Stream(amt) ==
  /\ call = Idle /\ ~Chunked
  /\ GoOn("stream", amt, "next", FALSE)
  /\ NoRead
  /\ UNCHANGED <<shape, dec, hasDecoded, buf, chunkLeft, sizes, marks>>

MoreToStream == fp.state # "closed" \/ buf.size > 0 \/ HasTail

StreamNext ==
  /\ call.phase = "next"
  /\ MoreToStream
  /\ BeginRead("stream", call.amt)

StreamEnd ==
  /\ call.phase = "next"
  /\ ~MoreToStream
  /\ answer' = [op |-> "stream", asked |-> call.amt, got |-> 0, raised |-> FALSE]
  /\ call' = Idle
  /\ NoRead
  /\ UNCHANGED <<shape, dec, hasDecoded, buf, chunkLeft, sizes, delivered, marks>>

------------------------------------------------------------------------------
(* read(): all the file has, decoded without a limit.  What the buffer holds *)
(* is not part of it.                                                        *)

ReadAll ==
  /\ call = Idle /\ Way("whole")
  /\ \E r \in RawReads(All, FALSE) :
       LET none == r.data = <<>> /\ buf.size = 0 /\ ~HasTail
           d    == Decode(r.data, -1, TRUE)
       IN  /\ DoRead(r)
           /\ \/ /\ r.error
                 /\ Raise("read", All)
                 /\ UNCHANGED <<dec, hasDecoded>>
              \/ /\ ~r.error /\ none
                 /\ Answer("read", All, <<>>)
                 /\ UNCHANGED <<dec, hasDecoded, marks>>
              \/ /\ ~r.error /\ ~none /\ d.error
                 /\ Raise("read", All)
                 /\ dec' = d.dec
                 /\ UNCHANGED hasDecoded
              \/ /\ ~r.error /\ ~none /\ ~d.error
                 /\ Answer("read", All, d.out)
                 /\ dec' = d.dec
                 /\ hasDecoded' = (HasDecoder /\ shape.decode)
                 /\ marks' = Taken("whole") \cup (IF buf.size > 0 THEN {"skipped"} ELSE {})
  /\ UNCHANGED <<shape, buf, chunkLeft, sizes>>

------------------------------------------------------------------------------
(* read1 *)

\* What read1 takes from the buffer, all of it for None.
Served(b, amt) == IF amt = All THEN GetAll(b) ELSE GetBytes(b, amt)

\* Without a system call: from the decoder and the buffer, once something has
\* been decoded.
Read1(amt) ==
  /\ call = Idle /\ shape.file # "pipe" /\ Way("whole")
  /\ LET more == hasDecoded /\ HasTail /\ (IF amt = All THEN TRUE ELSE buf.size < amt)
         r    == Decode(<<>>, Wanted(amt), FALSE)
         b    == IF more THEN PutChunk(buf, r.out) ELSE buf
         g    == Served(b, amt)
     IN  /\ dec' = IF more THEN r.dec ELSE dec
         /\ \/ /\ more /\ r.error
               /\ Raise("read1", amt)
               /\ UNCHANGED buf
            \/ /\ ~(more /\ r.error) /\ hasDecoded /\ b.size > 0
               /\ buf' = g.buf
               /\ Answer("read1", amt, g.out)
               /\ UNCHANGED marks
            \/ /\ ~(more /\ r.error) /\ ~(hasDecoded /\ b.size > 0)
               /\ buf' = b
               /\ GoOn("read1", amt, "fetch1", TRUE)
               /\ UNCHANGED marks
  /\ NoRead
  /\ UNCHANGED <<shape, hasDecoded, chunkLeft, sizes>>

\* Mark: read1() without amt has met the end before Content-Length's bytes were
\* there; _raw_read raises for a positive amt alone.
Unreported(r) ==
  IF r.data = <<>> /\ remaining \notin {NoLength, 0} THEN {"unreported"} ELSE {}

\* One _raw_read of read1, until something is decoded or the file has ended.
Fetch1 ==
  /\ call.phase = "fetch1"
  /\ \E r \in RawReads(IF call.first THEN call.amt ELSE Large, TRUE) :
       LET flush == r.data = <<>>
           d     == Decode(r.data, MaxLength(call.amt), flush)
           b     == PutChunk(buf, d.out)
           g     == Served(b, call.amt)
       IN  /\ DoRead(r)
           /\ \/ /\ r.error
                 /\ Raise("read1", call.amt)
                 /\ UNCHANGED <<dec, hasDecoded, buf>>
              \/ /\ ~r.error /\ ~shape.decode
                 /\ Answer("read1", call.amt, Payload(r.data))
                 /\ marks' = Taken("whole") \cup Unreported(r)
                 /\ UNCHANGED <<dec, hasDecoded, buf>>
              \/ /\ ~r.error /\ shape.decode /\ d.error
                 /\ Raise("read1", call.amt)
                 /\ dec' = d.dec
                 /\ UNCHANGED <<hasDecoded, buf>>
              \/ /\ ~r.error /\ shape.decode /\ ~d.error
                 /\ dec' = d.dec
                 /\ hasDecoded' = HasDecoder
                 /\ marks' = Taken("whole") \cup Unreported(r)
                 /\ IF d.out = <<>> /\ ~flush
                    THEN /\ buf' = b
                         /\ GoOn("read1", call.amt, "fetch1", FALSE)
                    ELSE /\ buf' = g.buf
                         /\ Answer("read1", call.amt, g.out)
  /\ UNCHANGED <<shape, chunkLeft, sizes>>

------------------------------------------------------------------------------
(* read_chunked(amt): a generator within _error_catcher *)

\* The catcher's part of a step that leaves the generator.
LeaveCatcher(error) ==
  LET c == Caught("closed", error)
  IN  /\ fp' = [fp EXCEPT !.state = c.state]
      /\ sock' = c.sock
      /\ conn' = c.conn
      /\ UNCHANGED remaining

\* Leaving the generator before its first turn, http.client having dropped its
\* file: the catcher returns the connection if the response still has it.
ReturnEnded ==
  /\ conn' = Caught(fp.state, FALSE).conn
  /\ UNCHANGED <<fp, remaining, sock>>

\* A response to HEAD is closed; one that http.client has ended has no chunks.
ReadChunked(amt) ==
  /\ call = Idle /\ Chunked /\ Way("chunks")
  /\ marks' = marks \cup {"chunks"}
  /\ \/ /\ shape.empty \/ fp.state # "open"
        /\ IF shape.empty THEN LeaveCatcher(FALSE) ELSE ReturnEnded
        /\ Answer("chunks", amt, <<>>)
     \/ /\ ~shape.empty /\ fp.state = "open"
        /\ GoOn("chunks", amt, "turn", FALSE)
        /\ NoRead
  /\ UNCHANGED <<shape, dec, hasDecoded, buf, chunkLeft, sizes>>

\* The chunk being read, or the next one whose size line can be read.
NoSize   == chunkLeft = NoLength /\ sizes = <<>>
ThisSize == IF chunkLeft = NoLength THEN Head(sizes) ELSE chunkLeft
ToRead(amt) == Least({amt, ThisSize} \ {All})

\* The generator yields what it has decoded, if anything, and goes on.
Yield(bytes) ==
  /\ delivered' = delivered \o bytes
  /\ call' = [call EXCEPT !.odd = ~@]
  /\ UNCHANGED <<answer, marks>>

\* One turn without a chunk: the decoder holds something back.
ChunkFromTail ==
  /\ call.phase = "turn" /\ HasTail
  /\ LET d == Decode(<<>>, MaxLength(call.amt), FALSE)
     IN  /\ dec' = d.dec
         /\ \/ d.error /\ LeaveCatcher(TRUE) /\ Raise("chunks", call.amt)
            \/ ~d.error /\ NoRead /\ Yield(d.out)
  /\ UNCHANGED <<shape, hasDecoded, buf, chunkLeft, sizes>>

\* One turn with a chunk, or a part of one: _update_chunk_length,
\* _handle_chunk and _decode.
ChunkTurn ==
  /\ call.phase = "turn" /\ ~HasTail
  /\ ~NoSize /\ ThisSize # 0
  /\ LET n == ToRead(call.amt)
         d == Decode(Take(fp.left, n), MaxLength(call.amt), FALSE)
     IN  /\ n <= Len(fp.left)
         /\ chunkLeft' = IF n = ThisSize THEN NoLength ELSE ThisSize - n
         /\ sizes' = IF chunkLeft = NoLength THEN Tail(sizes) ELSE sizes
         /\ dec' = d.dec
         /\ hasDecoded' = (hasDecoded \/ (HasDecoder /\ shape.decode /\ ~d.error))
         /\ \/ /\ ~d.error
               /\ fp' = [fp EXCEPT !.left = Drop(@, n)]
               /\ UNCHANGED <<remaining, sock, conn>>
               /\ Yield(d.out)
            \/ /\ d.error
               /\ LET c == Caught("closed", TRUE)
                  IN  /\ fp' = [fp EXCEPT !.left = Drop(@, n), !.state = c.state]
                      /\ sock' = c.sock
                      /\ conn' = c.conn
               /\ UNCHANGED remaining
               /\ Raise("chunks", call.amt)
  /\ UNCHANGED <<shape, buf>>

\* The body was cut: no size line, or fewer bytes than the chunk has.
ChunkBroken ==
  /\ call.phase = "turn" /\ ~HasTail
  /\ ~NoSize => ThisSize # 0 /\ ToRead(call.amt) > Len(fp.left)
  /\ LeaveCatcher(TRUE)
  /\ Raise("chunks", call.amt)
  /\ UNCHANGED <<shape, dec, hasDecoded, buf, chunkLeft, sizes>>

\* The last chunk: flush the decoder, skip the trailers, close the response.
ChunkEnd ==
  /\ call.phase = "turn" /\ ~HasTail
  /\ ~NoSize /\ ThisSize = 0
  /\ LET f == FlushDecoder(dec)
         flush == HasDecoder /\ shape.decode
     IN  /\ dec' = IF flush THEN f.dec ELSE dec
         /\ delivered' = IF flush THEN delivered \o f.out ELSE delivered
  /\ chunkLeft' = 0
  /\ sizes' = IF chunkLeft = NoLength THEN Tail(sizes) ELSE sizes
  /\ LeaveCatcher(FALSE)
  /\ answer' = [op |-> "chunks", asked |-> call.amt, got |-> 0, raised |-> FALSE]
  /\ call' = Idle
  /\ UNCHANGED <<shape, hasDecoded, buf, marks>>

\* The user drops the generator: GeneratorExit passes the catcher.
ChunkDrop ==
  /\ call.phase = "turn"
  /\ LeaveCatcher(TRUE)
  /\ marks' = marks \cup {"closed"}
  /\ call' = Idle
  /\ UNCHANGED <<shape, dec, hasDecoded, buf, chunkLeft, sizes, delivered, answer>>

------------------------------------------------------------------------------
(* drain_conn, release_conn, close *)

\* read() with every exception and all data thrown away; without decoding if
\* nothing has been decoded yet, or there is nothing to decode.
DrainConn ==
  /\ call = Idle /\ Way("whole")
  /\ \E r \in RawReads(All, FALSE) :
       LET none == r.data = <<>> /\ buf.size = 0 /\ ~HasTail
           d    == Decode(r.data, -1, TRUE)
       IN  /\ DoRead(r)
           /\ dec' = IF ~r.error /\ ~none /\ hasDecoded THEN d.dec ELSE dec
  /\ marks' = Taken("whole") \cup {"drained"}
  /\ UNCHANGED <<shape, hasDecoded, buf, chunkLeft, sizes, call, delivered, answer>>

ReleaseConn ==
  /\ call = Idle
  /\ conn = "held"
  /\ conn' = "returned"
  /\ marks' = marks \cup {"released"}
  /\ UNCHANGED <<shape, fp, remaining, dec, hasDecoded, buf, chunkLeft, sizes,
                 sock, call, delivered, answer>>

\* close() closes the connection but does not return it.
Close ==
  /\ call = Idle
  /\ fp' = [fp EXCEPT !.state = IF @ = "open" THEN "closed" ELSE @]
  /\ sock' = IF conn = "held" THEN "closed" ELSE sock
  /\ marks' = marks \cup {"closed"}
  /\ UNCHANGED <<shape, remaining, dec, hasDecoded, buf, chunkLeft, sizes,
                 conn, call, delivered, answer>>

------------------------------------------------------------------------------

Turn == \/ Fetch \/ StreamNext \/ StreamEnd \/ Fetch1
        \/ ChunkFromTail \/ ChunkTurn \/ ChunkBroken \/ ChunkEnd

Next ==
  \/ \E amt \in shape.amts : Read(amt) \/ Stream(amt)
  \/ \E amt \in shape.amts \cup {All} : Read1(amt) \/ ReadChunked(amt)
  \/ Turn
  \/ ReadAll \/ ChunkDrop
  \/ DrainConn \/ ReleaseConn \/ Close

Spec == Init /\ [][Next]_vars

\* A call that has begun runs to its end, and a user who streams goes on.  This
\* is WF_vars(Turn), written out: Turn is enabled while a call is in progress,
\* and changes call.odd.
FairSpec == Spec /\ ([]<>(call = Idle) \/ []<><<Turn>>_vars)

------------------------------------------------------------------------------
(* Invariants *)

\* Types; and the buffer's count is that of the bytes in it.
TypeOK ==
  /\ shape \in Shapes
  /\ fp.state \in {"open", "ended", "closed"}
  /\ fp.left \in Seq(Seq(Nat)) /\ fp.length \in Nat \cup {NoLength}
  /\ remaining \in Int \cup {NoLength}
  /\ dec.state \in {"first", "others", "swallow"} /\ hasDecoded \in BOOLEAN
  /\ buf.chunks \in Seq(Seq(Nat)) /\ buf.size = Len(Contents(buf))
  /\ chunkLeft \in Nat \cup {NoLength}
  /\ conn \in {"held", "returned", "none"} /\ sock \in {"open", "closed"}
  /\ call.phase \in {"idle", "fetch", "next", "fetch1", "turn"}
  /\ delivered \in Seq(Nat)

Body == Payload(shape.wire)

\* The user has met no error, and done nothing that gives up the rest.
Intact == marks \subseteq {"released", "whole", "chunks"}

\* No byte is lost, doubled or put out of order on its way: what the user has,
\* what the buffer holds, what the decoder holds, decoded or not, and what the
\* file has left are the body, whatever mix of calls has been made.  (read()
\* is no part of a mix while the buffer holds something: see "skipped".)
BytesInOrder ==
  Intact => delivered \o Contents(buf) \o Undelivered(dec) \o Payload(fp.left) = Body

\* Decoding stays behind the reader: between two calls no decoded byte waits
\* in the buffer, so what a small body may decode to is never held at once.
\* (The flush at the end of raw deflate data may leave what zlib held back.)
DecodedOnDemand ==
  call = Idle /\ Intact /\ shape.enc \in {"gzip", "zlib"} => buf.size = 0

\* The last call told the user that the body is over.
SaidOver ==
  /\ ~answer.raised
  /\ \/ answer.op \in {"read", "stream"} /\ answer.asked # All /\ answer.got < answer.asked
     \/ answer.op = "chunks" /\ fp.left = <<>>

\* A read(amt) or stream(amt) that comes up short, and a chunked body that
\* ends, is the end: all has been delivered and nothing that Content-Length or
\* the chunks promised is missing.  (Not so with raw deflate data, which zlib
\* can hold back without a tail to show for it; and where nothing is decoded,
\* read(amt) hands on what one read of the file returned, so there only an
\* empty answer says that the body is over.)
ShortReadMeansEnd ==
  Intact /\ SaidOver /\ call = Idle /\ shape.enc # "raw" /\ (shape.decode \/ answer.got = 0) =>
    /\ delivered = Body
    /\ shape.empty \/ InitLength(shape) = NoLength \/ Len(shape.wire) >= InitLength(shape)
    /\ shape.empty \/ ~Chunked \/ Whole

\* The pool gets the connection back only when nothing of the response is left
\* on it, or closed; unless the user releases it.
ReturnedWhenDone ==
  conn = "returned" /\ "released" \notin marks => sock = "closed" \/ fp.left = <<>>

\* What a stream has yielded is the beginning of the body.
PrefixDelivered == Intact => IsPrefix(delivered, Body)

------------------------------------------------------------------------------
(* Liveness *)

\* Every call ends, and so does every loop over stream(amt) or read_chunked.
EveryCallReturns == call # Idle ~> call = Idle
=============================================================================
