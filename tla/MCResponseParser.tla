-------------------------- MODULE MCResponseParser --------------------------
(***************************************************************************)
(* ResponseParser for TLC: the responses of the run.                       *)
(***************************************************************************)
EXTENDS ResponseParser

Line(name, value) == [name |-> name, gap |-> <<SP>>, value |-> value]

Length3   == [name |-> "length", gap |-> <<>>, value |-> <<"0", "3">>]
InChunks  == [name |-> "chunked", gap |-> <<TAB, SP>>, value |-> <<"CHUNK", "ed">>]
KeepAlive == Line("connection", <<"keep", "-alive">>)

\* A body of three bytes, one of them 0, in two chunks.
Sized ==
    [version |-> <<"h", "TTP", "/1.", "1">>, gap |-> <<SP>>, status |-> <<"2", "0", "0">>,
     reason |-> <<SP, "OK">>, lines |-> <<Length3>>, chunks |-> <<<<"d1", NUL>>, <<"1">>>>,
     last |-> <<"0", CR, LF, CR, LF>>, extra |-> <<"1", "d2">>, transf |-> FALSE]
Chunky == [Sized EXCEPT !.lines = <<InChunks>>, !.gap = <<SP, TAB>>]

Plain ==
    {Sized, Chunky,
     [Sized EXCEPT !.lines = <<KeepAlive, Length3>>],
     [Sized EXCEPT !.lines = <<Line("other", <<"C", "ON", "TENT-", "L", "x">>),
                               Line("other", <<"t", "C", "ON", "x">>), Length3>>],
     [Sized EXCEPT !.lines = <<Line("encoding", <<"GZ", "IP">>), Line("type", <<"t">>)>>,
                   !.extra = <<>>],
     [Sized EXCEPT !.lines = <<Line("length", <<"0">>)>>, !.chunks = <<>>],
     [Sized EXCEPT !.lines = <<>>, !.status = <<"3", "0", "4">>, !.chunks = <<>>],
     [Chunky EXCEPT !.lines = <<Length3, InChunks, KeepAlive>>, !.chunks = <<>>],
     [Chunky EXCEPT !.lines = <<InChunks, Line("encoding", <<"x">>)>>,
                    !.chunks = <<[k \in 1..16 |-> "d1"]>>]}

Transformed == {[r EXCEPT !.transf = TRUE] : r \in {Sized, Chunky}}

Malformed ==
    {[Sized EXCEPT !.version = <<"H", "TTP", "/1.", "2">>],
     [Sized EXCEPT !.version = <<"H", "x", "/1.", "1">>],
     [Sized EXCEPT !.status = <<"OK">>],
     [Chunky EXCEPT !.last = <<"x", CR, LF>>],
     [Chunky EXCEPT !.last = <<"0", "x">>],
     [Chunky EXCEPT !.last = <<"2", CR, LF, "d1", "d2", "x">>],
     [Chunky EXCEPT !.last = <<"0", CR, LF, CR, "x">>, !.transf = TRUE]}

AnyResponses == Plain \cup Transformed \cup Malformed
=============================================================================
