-------------------------- MODULE MCRequestParser --------------------------
(***************************************************************************)
(* RequestParser for TLC: the requests of the runs.                        *)
(***************************************************************************)
EXTENDS RequestParser

Plain == [method |-> <<"g", "ET">>, gap |-> <<SP>>, absolute |-> FALSE, user |-> <<>>,
          host |-> <<"a", "B">>, port |-> <<"8", "1">>, version |-> <<"h", "TTP", "/1.", "1">>,
          first |-> <<>>, named |-> TRUE]

Absolute == [Plain EXCEPT !.absolute = TRUE, !.named = FALSE, !.gap = <<SP, TAB>>]

\* Requests with an origin.
Good ==
    {Plain, Absolute,
     [Plain EXCEPT !.method = <<"P", "OST">>, !.gap = <<TAB, SP>>, !.port = <<>>],
     [Plain EXCEPT !.method = <<"H", "EAD">>, !.first = <<"a", "H", "a", CR, LF>>],
     [Plain EXCEPT !.first = <<"x", "-b", CR, LF>>, !.version = <<"H", "ttp", "/1.", "0">>],
     [Plain EXCEPT !.first = <<"X", "-LOCALHOST:", "b", CR, LF>>],
     [Plain EXCEPT !.port = <<"0", "7">>],
     [Plain EXCEPT !.host = <<"a", ".", "c">>],          \* too long to be pushed back
     [Absolute EXCEPT !.user = <<"c", "c">>, !.port = <<"9">>],
     [Absolute EXCEPT !.port = <<>>]}

\* Requests to be rejected.
Bad ==
    {[Plain EXCEPT !.method = <<"P", "UT">>],
     [Plain EXCEPT !.method = <<"G", "x">>],
     [Plain EXCEPT !.version = <<"H", "TTP", "/2", "0">>],
     [Plain EXCEPT !.named = FALSE, !.first = <<"b", CR, LF>>],
     [Plain EXCEPT !.port = <<"x">>],
     [Plain EXCEPT !.host = <<"a", "[">>],
     [Plain EXCEPT !.host = <<"[", "a">>],               \* never decided
     [Plain EXCEPT !.host = <<"a", "b", "c", "a", "b">>]}

\* A request in origin form.
Split == {Plain}

AnyRequests == Good \cup Bad
=============================================================================
