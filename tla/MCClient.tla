------------------------------ MODULE MCClient ------------------------------
(***************************************************************************)
(* Client for TLC: the messages of the runs.                               *)
(***************************************************************************)
EXTENDS Client

\* Origin form with a body, absolute form, and one the parser rejects.
PlainRequests == {<<"line", "host", "data">>, <<"host", "data">>, <<"line", "bad">>}

\* Bodies with a length or in chunks, and a response without a body.
PlainResponses == {<<"head", "data", "last">>, <<"bare">>}

\* A body with a byte 0 and what follows it.
BinaryRequests == {<<"host", "nul", "data", "data">>}

AnyRequests == PlainRequests \cup BinaryRequests

\* Also a response that ends when its origin closes.
ClosingResponses == {<<"head", "data">>}

\* All of these, and one that is rejected.
AnyResponses == {<<"head", "data", "last">>, <<"head", "data">>, <<"bare">>, <<"head", "bad">>}

\* Peers that behave, with buffers that fit the messages and with ones that do
\* not; every fault there is, with buffers that fill up and with none at all.
AnySurroundings ==
    {[cap |-> c, faults |-> {"unresolved"}] : c \in {3, 4}}
    \cup {[cap |-> c, faults |-> AllFaults] : c \in {0, 3}}

SegmentsOnly == {[cap |-> 4, faults |-> {"segments"}]}

ClosingOnly == {[cap |-> 4, faults |-> {"origin_close"}]}
=============================================================================
