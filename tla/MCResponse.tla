----------------------------- MODULE MCResponse -----------------------------
(***************************************************************************)
(* Response for TLC: bodies of up to five bytes, one for each way a body   *)
(* may be encoded, framed, cut or corrupted, and the amounts to read.      *)
(***************************************************************************)
EXTENDS Response

Plain == [enc |-> "identity", decode |-> TRUE, file |-> "http", length |-> 3,
          empty |-> FALSE, chunks |-> <<>>, amts |-> {1, 2, 4},
          wire |-> <<<<1>>, <<2>>, <<3>>>>]
Gzip  == [Plain EXCEPT !.enc = "gzip", !.amts = {1, 2, 3},
                       !.wire = <<<<1, 2, 3>>, <<4>>, End>>]

Members == <<<<1, 2, 3>>, End, <<4, 5>>, End>>

Bodies ==
  {Plain, Gzip,
   [Plain EXCEPT !.decode = FALSE],
   [Plain EXCEPT !.decode = FALSE, !.length = 4],
   [Plain EXCEPT !.decode = FALSE, !.file = "pipe", !.length = NoLength],
   [Plain EXCEPT !.length = 4],
   [Plain EXCEPT !.empty = TRUE, !.wire = <<>>],
   [Plain EXCEPT !.file = "pipe", !.length = NoLength],
   [Plain EXCEPT !.chunks = <<2, 1, 0>>, !.length = 9],
   [Plain EXCEPT !.chunks = <<2, 1>>],
   [Plain EXCEPT !.chunks = <<2, 2>>],
   [Plain EXCEPT !.chunks = <<0>>, !.empty = TRUE, !.wire = <<>>],
   [Gzip EXCEPT !.length = NoLength],
   [Gzip EXCEPT !.length = 4],
   [Gzip EXCEPT !.wire = <<<<1, 2, 3>>, <<4>>>>],
   [Gzip EXCEPT !.wire = <<<<1, 2, 3>>, <<4>>>>, !.chunks = <<2, 2>>],
   [Gzip EXCEPT !.enc = "zlib"],
   [Gzip EXCEPT !.enc = "zlib", !.file = "pipe", !.length = NoLength],
   [Gzip EXCEPT !.enc = "raw", !.wire = <<<<1, 2, 3>>, <<4, 5>>>>, !.length = 2],
   [Gzip EXCEPT !.enc = "raw", !.wire = <<<<1, 2, 3>>, <<4, 5>>>>, !.chunks = <<2, 0>>],
   [Gzip EXCEPT !.file = "bytes"],
   [Gzip EXCEPT !.chunks = <<2, 1, 0>>],
   [Gzip EXCEPT !.wire = Members, !.length = 4, !.amts = {2}],
   [Gzip EXCEPT !.wire = <<<<1, 2, 3>>, End, Junk>>, !.amts = {1, 3}],
   [Gzip EXCEPT !.wire = <<<<1, 2, 3>>, Junk, End>>, !.amts = {2}],
   [Gzip EXCEPT !.wire = <<<<1, 2, 3>>, Junk, End>>, !.chunks = <<3, 0>>, !.amts = {2}],
   [Gzip EXCEPT !.wire = <<Junk, <<1>>, End>>, !.chunks = <<2, 1, 0>>, !.amts = {1}]}

TwoMembers == {[Gzip EXCEPT !.wire = Members, !.length = 4]}
=============================================================================
