--------------------------- MODULE RequestParser ---------------------------
(***************************************************************************)
(* proxy_http/src/request_parser/requestParser.c: finds the origin of a    *)
(* request while it copies the request to the output, whichever way it is  *)
(* cut into reads.  One request arrives in pieces; after every piece the   *)
(* parser is called and runs until it has found the origin, rejects the    *)
(* request or needs more input.                                            *)
(*                                                                         *)
(* Two callers are modelled.  "unit_test" is the caller the parser was     *)
(* written for (requestParser.h, tests/requestParserTest.c): it calls      *)
(* again with what is in the buffer.  "client_read" is the one the proxy   *)
(* has: after every call it copies what is left in the input to the output.*)
(*                                                                         *)
(* A request is a record of its parts; Text is what arrives of it and      *)
(* Forward what its origin should get.                                     *)
(***************************************************************************)
EXTENDS ParserUtils

CONSTANTS
    Requests,    \* the requests that may arrive
    Callers,     \* subset of {"unit_test", "client_read"}
    Cutters,     \* the callers whose requests arrive cut anywhere
    HostMax,     \* HOST_MAX_SIZE
    OutCap       \* bytes of the output buffer

ASSUME HostAssumption == HostMax \in Nat \ {0}
ASSUME CallerAssumption == Cutters \subseteq Callers /\ Callers \subseteq {"unit_test", "client_read"}

VARIABLES
    p,       \* the parser's RequestData and its buffers
    pc,      \* "idle", "parsing", "returned" or "closed"
    turns,   \* turns of the parser's loop in this call (observed, not code)
    calls,   \* the calls of hostCallback
    req,     \* the request that arrives
    sent,    \* how many of its symbols have arrived
    caller

vars == <<p, pc, turns, calls, req, sent, caller>>

ParserStates == {"SPACE_TRANSITION", "METHOD", "URI", "RELATIVE_URI", "URI_HOST", "VERSION",
                 "START_LINE_END", "LOCALHOST_HEADER_CHECK", "HEADERS", "HOST", "FINISHED"}
Errors == {"VERSION_ERROR", "START_LINE_END_ERROR", "GENERAL_METHOD_ERROR",
           "UNSUPPORTED_METHOD_ERROR", "HOST_ERROR"}

DEFAULT_PORT == 80

\* methodOption, cut after the first letter.
MethodText == [CONNECT |-> <<"C", "ONNECT">>, DELETE |-> <<"D", "ELETE">>, GET |-> <<"G", "ET">>,
               HEAD |-> <<"H", "EAD">>, OPTIONS |-> <<"O", "PTIONS">>, POST |-> <<"P", "OST">>,
               PUT |-> <<"P", "UT">>, TRACE |-> <<"T", "RACE">>]
Methods   == DOMAIN MethodText
Supported == {"GET", "HEAD", "POST"}

HTTP        == <<"H", "TTP">>
COLONSLASH  == <<":", "//">>
VERSION_1   == <<"H", "TTP", "/1.">>
XLOCALHOST  == <<"X", "-LOCALHOST:">>
LocalLine   == <<"X-LOCALHOST: TRUE", CR, LF>>   \* what checkLocalHost writes

\* The characters of a host name, of the symbols in use; the case of letters is lost.
HostChars == {"a", "b", "B", "c", "."} \cup Digits(10)

-----------------------------------------------------------------------------
(***************************************************************************)
(* Requests: what arrives, and what should come of it.                     *)
(***************************************************************************)

Authority(r) == r.host \o (IF r.port = <<>> THEN <<>> ELSE <<":">> \o r.port)

Target(r) ==
    IF r.absolute
    THEN <<"h", "ttp", ":", "//">> \o (IF r.user = <<>> THEN <<>> ELSE Append(r.user, "@"))
                                   \o Authority(r) \o <<"/">>
    ELSE <<"/">>

StartLine(r, gap) == r.method \o gap \o Target(r) \o <<SP>> \o r.version \o CRLF

\* The part of the headers the parser looks at, and the rest.
Headers(r, gap) ==
    r.first \o (IF r.named THEN <<"H", "ost", ":">> \o gap \o Authority(r) \o CRLF ELSE <<>>)
            \o CRLF

Text(r) == StartLine(r, r.gap) \o Headers(r, r.gap)

\* The request was already here: the proxy is its own origin.
Looped(r) == Len(r.first) > 1 /\ SubSeq(r.first, 1, 2) = XLOCALHOST

\* Blanks become one space as far as the parser looks, and a relative request
\* is marked, unless a header that starts with X comes first.
Forward(r) ==
    StartLine(r, <<SP>>) \o
    (IF r.absolute \/ Looped(r) THEN Headers(r, r.gap)
     ELSE (IF r.first # <<>> /\ ToUpper(Head(r.first)) = "X" THEN <<>> ELSE LocalLine)
          \o Headers(r, <<SP>>))

MethodsOf(r) == {m \in Methods : [k \in DOMAIN r.method |-> ToUpper(r.method[k])] = MethodText[m]}
ValidHost(r) == Len(r.host) < HostMax /\ \A k \in DOMAIN r.host : r.host[k] \in HostChars
ValidPort(r) == \A k \in DOMAIN r.port : r.port[k] \in Digits(10)

\* "OK", or the error the request deserves.
Verdict(r) ==
    CASE MethodsOf(r) = {}                     -> "GENERAL_METHOD_ERROR"
      [] MethodsOf(r) \cap Supported = {}
         /\ MethodsOf(r) # {}                  -> "UNSUPPORTED_METHOD_ERROR"
      [] OTHER ->
         IF r.absolute THEN "OK"
         ELSE IF Matched(VERSION_1, r.version) < 3 THEN "START_LINE_END_ERROR"
         ELSE IF Looped(r) \/ (r.named /\ ValidHost(r) /\ ValidPort(r)) THEN "OK"
         ELSE "HOST_ERROR"

\* The origin of an accepted request.
Origin(r) ==
    IF Looped(r) /\ ~r.absolute THEN [host |-> <<>>, port |-> DEFAULT_PORT]
    ELSE [host |-> [k \in DOMAIN r.host |-> ToLower(r.host[k])],
          port |-> IF r.port = <<>> THEN DEFAULT_PORT ELSE Value(r.port, 10)]

-----------------------------------------------------------------------------
(***************************************************************************)
(* The functions of the parser.  They take p and return it changed, with   *)
(* their own result in ok.                                                 *)
(***************************************************************************)

\* defaultRequestStruct on new buffers.
defaultRequestStruct ==
    [parserState |-> "METHOD", next |-> "METHOD", empty |-> FALSE, ok |-> TRUE, state |-> "OK",
     version |-> "UNDEFINED", method |-> "UNDEFINED_M", num |-> DEFAULT_PORT,
     isLocalHost |-> FALSE, host |-> [k \in 1..HostMax |-> NUL],
     in |-> NewQueue(Cap), out |-> NewQueue(OutCap)]

Failed(s)  == [s EXCEPT !.ok = FALSE]
NoInput(s) == [s EXCEPT !.ok = FALSE, !.empty = TRUE]

checkSpaces(s) ==
    LET t == moveThroughSpaces(s)
    IN  IF Peek(t.in) = NUL THEN NoInput(t)
        ELSE [t EXCEPT !.out = Written(@, SP), !.ok = TRUE]

extractHttpMethod(s) ==
    LET c     == ToUpper(Peek(s.in))
        t     == ReadChar(s)
        tried == [m \in {n \in Methods : MethodText[n][1] = c} |->
                     matchFormat(Tail(MethodText[m]), t, <<c>>)]
        read  == {m \in DOMAIN tried : tried[m].ok}
        short == {m \in DOMAIN tried : tried[m].empty}
        m     == CHOOSE n \in read \cup short : TRUE
    IN  CASE c = NUL             -> NoInput(t)
          [] c # NUL /\ read # {} -> [tried[m] EXCEPT !.method = m, !.ok = m \in Supported]
          [] c # NUL /\ short # {} -> tried[m]
          [] OTHER               -> Failed(t)

cleanRelativeUri(s) ==
    LET n == CHOOSE k \in 0..Len(s.in.q) :
                 /\ \A i \in 1..k : s.in.q[i] \notin Blank \cup {NUL}
                 /\ k < Len(s.in.q) => s.in.q[k + 1] \in Blank \cup {NUL}
        t == readAndWrite(s, n)
    IN  IF Peek(t.in) = NUL THEN NoInput(t) ELSE [t EXCEPT !.ok = TRUE]

\* The loop that copies a host, over what it may read: n is where it stops, i
\* how much of the host it has since the last "@", which puts it back to the
\* start of the array.  What was there before is not cleared.
HostLoop(run, host) ==
    LET seg(k) == k - LastOf({m \in 1..k : run[m] = "@"} \cup {0})
        full   == {k \in DOMAIN run : seg(k) = HostMax}
        n      == IF full = {} THEN Len(run) ELSE CHOOSE k \in full : \A l \in full : k <= l
        Stores(j) == {k \in 1..n : seg(k) = j \/ (j = 1 /\ run[k] = "@")}
    IN  [n |-> n, i |-> seg(n),
         host |-> [j \in 1..HostMax |->
                      IF Stores(j) = {} THEN host[j]
                      ELSE IF run[LastOf(Stores(j))] = "@" THEN NUL
                      ELSE ToLower(run[LastOf(Stores(j))])]]

\* Mutation: the part of the host that was read is not pushed back.
ReadHostForgets(s, chars, ends) ==
    LET run  == SubSeq(s.in.q, 1, Run(s.in.q, chars))
        h    == HostLoop(run, s.host)
        t    == [readAndWrite(s, h.n) EXCEPT !.host = h.host]
        full == h.i = HostMax
        c    == Peek(t.in)
        u    == IF ~full /\ c = ":" THEN getNumber(readAndWrite(t, 1), <<":">>)
                ELSE [t EXCEPT !.ok = TRUE]
    IN  IF (~full /\ c = NUL) \/ (~u.ok /\ u.empty) THEN NoInput(u)
        ELSE [u EXCEPT !.ok = ~full /\ u.ok /\ ends[Peek(u.in) \in Blank \cup {CR}]]

\* checkUriForHost (chars has "@" too, ends is everything) and extractHost.
ReadHost(s, chars, ends) ==
    LET run  == SubSeq(s.in.q, 1, Run(s.in.q, chars))
        h    == HostLoop(run, s.host)
        t    == [readAndWrite(s, h.n) EXCEPT !.host = h.host]
        full == h.i = HostMax
        c    == Peek(t.in)
        u    == IF ~full /\ c = ":" THEN getNumber(readAndWrite(t, 1), <<":">>)
                ELSE [t EXCEPT !.ok = TRUE]
    IN  IF (~full /\ c = NUL) \/ (~u.ok /\ u.empty)
        THEN Starved(u, SubSeq(h.host, 1, h.i))
        ELSE [u EXCEPT !.ok = ~full /\ u.ok /\ ends[Peek(u.in) \in Blank \cup {CR}]]

checkUriForHost(s) == ReadHost(s, HostChars \cup {"@"}, [b \in BOOLEAN |-> TRUE])
extractHost(s)     == ReadHost(s, HostChars, [b \in BOOLEAN |-> b])

checkUri(s) ==
    LET http  == matchFormat(HTTP, s, <<>>)
        slash == matchFormat(COLONSLASH, http, HTTP)
        host  == checkUriForHost([slash EXCEPT !.parserState = "URI_HOST"])
        last  == IF ~http.ok THEN http ELSE IF ~slash.ok THEN slash ELSE host
    IN  IF last.ok \/ last.empty THEN last
        ELSE Failed(cleanRelativeUri([last EXCEPT !.parserState = "RELATIVE_URI"]))

\* version is V_1_1 before the call, so that only a lack of input fails.
extractHttpVersion(s) ==
    LET t == matchFormat(VERSION_1, s, <<>>)
        c == Peek(t.in)
        u == ReadChar(t)
    IN  CASE t.ok /\ c = NUL -> Starved(u, VERSION_1)
          [] t.ok /\ c # NUL ->
                [u EXCEPT !.version = CASE c = "0" -> "V_1_0" [] c = "1" -> "V_1_1" [] OTHER -> @]
          [] OTHER -> [t EXCEPT !.ok = ~t.empty /\ t.version # "UNDEFINED"]

checkStartLineEnd(s) == checkCRLF(s, <<>>)

checkLocalHost(s) ==
    LET c == ToUpper(Peek(s.in))
        t == matchFormat(XLOCALHOST, s, <<>>)
    IN  CASE c = NUL -> NoInput(s)
          [] c = "X" -> [t EXCEPT !.isLocalHost = t.ok]
          [] OTHER   -> Failed([s EXCEPT !.out = writeToBuf(LocalLine, @)])

\* Mutation: the end of the headers is not looked for.
HeaderStepNoEnd(s) ==
    LET c == ToUpper(Peek(s.in))
        t == ReadChar(s)
    IN  CASE c = NUL -> [s |-> NoInput(t), end |-> FALSE]
          [] c = "H" -> [s |-> matchFormat(<<"OST", ":">>, t, <<"H">>), end |-> FALSE]
          [] OTHER   -> [s |-> Failed(t), end |-> FALSE]

\* One turn of the loop of checkHostHeader; the loop goes on while
\* ~ok, ~empty and ~end.
HeaderStep(s) ==
    LET c    == ToUpper(Peek(s.in))
        t    == ReadChar(s)
        lf   == matchFormat(<<LF>>, t, <<CR>>)
        crlf == checkCRLF(lf, CRLF)
    IN  CASE c = NUL -> [s |-> NoInput(t), end |-> FALSE]
          [] c = "H" -> [s |-> matchFormat(<<"OST", ":">>, t, <<"H">>), end |-> FALSE]
          [] c = CR  -> [s |-> Failed(IF lf.ok THEN crlf ELSE lf), end |-> lf.ok /\ crlf.ok]
          [] OTHER   -> [s |-> Failed(t), end |-> FALSE]

-----------------------------------------------------------------------------
(***************************************************************************)
(* checkRequestInner, one turn of its loop per step.                       *)
(***************************************************************************)

\* The switch after the loop.
ErrorOf(s) ==
    CASE s.parserState = "METHOD" ->
            IF s.method = "UNDEFINED_M" THEN "GENERAL_METHOD_ERROR" ELSE "UNSUPPORTED_METHOD_ERROR"
      [] s.parserState = "VERSION"        -> "VERSION_ERROR"
      [] s.parserState = "START_LINE_END" -> "START_LINE_END_ERROR"
      [] s.parserState \in {"URI", "URI_HOST", "HEADERS", "HOST"} -> "HOST_ERROR"
      [] OTHER -> s.state

At(state) == pc = "parsing" /\ p.parserState = state

\* A turn of the loop moves on to one of the at most 12 states that follow or
\* consumes a symbol.  The turns of a call are counted up to one more.
TurnBound == 12 + Reserve + sent
Stay      == turns' = Smaller(turns, TurnBound) + 1 /\ UNCHANGED <<req, sent, caller>>

Go(s, state, next) ==
    /\ p' = [s EXCEPT !.parserState = state, !.next = next]
    /\ UNCHANGED <<pc, calls>>

\* Mutation: a lack of input is reported as an error.
ReturnError(s) ==
    /\ p' = [s EXCEPT !.state = ErrorOf(s)]
    /\ pc' = "returned"
    /\ UNCHANGED calls

Return(s) ==
    /\ p' = [s EXCEPT !.state = IF s.empty THEN @ ELSE ErrorOf(s)]
    /\ pc' = "returned"
    /\ UNCHANGED calls

\* hostCallback(host, port): host is a string, it ends at the first 0.
Found(s) ==
    LET n == CHOOSE k \in 0..HostMax : (\A i \in 1..k : s.host[i] # NUL)
                                       /\ (k < HostMax => s.host[k + 1] = NUL)
    IN  /\ calls' = Append(calls, [host |-> SubSeq(s.host, 1, n), port |-> s.num])
        /\ p' = [s EXCEPT !.parserState = "FINISHED"]
        /\ UNCHANGED pc

SpaceTransition ==
    /\ At("SPACE_TRANSITION")
    /\ LET s == checkSpaces(p) IN IF s.ok THEN Go(s, p.next, p.next) ELSE Return(s)
    /\ Stay

Method ==
    /\ At("METHOD")
    /\ LET s == extractHttpMethod(p)
       IN  IF s.ok THEN Go(s, "SPACE_TRANSITION", "URI") ELSE Return(s)
    /\ Stay

\* What URI and URI_HOST make of the result of their function.
HostOrPath(s) ==
    CASE s.ok -> Found(s)
      [] ~s.ok /\ (s.host[1] # NUL \/ s.empty) -> Return(s)
      [] OTHER -> Go(s, "SPACE_TRANSITION", "VERSION")

Uri     == At("URI") /\ HostOrPath(checkUri(p)) /\ Stay
UriHost == At("URI_HOST") /\ HostOrPath(checkUriForHost(p)) /\ Stay

RelativeUri ==
    /\ At("RELATIVE_URI")
    /\ LET s == cleanRelativeUri(p)
       IN  IF s.ok THEN Go(s, "SPACE_TRANSITION", "VERSION") ELSE Return(s)
    /\ Stay

Version ==
    /\ At("VERSION")
    /\ LET s == extractHttpVersion(p)
       IN  IF s.ok THEN Go(s, "START_LINE_END", p.next) ELSE Return(s)
    /\ Stay

StartLineEnd ==
    /\ At("START_LINE_END")
    /\ LET s == checkStartLineEnd(p)
       IN  IF s.ok THEN Go(s, "LOCALHOST_HEADER_CHECK", p.next) ELSE Return(s)
    /\ Stay

LocalHostHeaderCheck ==
    /\ At("LOCALHOST_HEADER_CHECK")
    /\ LET s == checkLocalHost(p)
       IN  CASE s.ok -> Found(s) [] s.empty -> Return(s) [] OTHER -> Go(s, "HEADERS", p.next)
    /\ Stay

HeadersCase ==
    /\ At("HEADERS")
    /\ LET h == HeaderStep(p)
       IN  CASE h.s.ok                  -> Go(h.s, "SPACE_TRANSITION", "HOST")
             [] h.s.empty \/ h.end      -> Return(h.s)
             [] OTHER                   -> Go(h.s, "HEADERS", p.next)
    /\ Stay

\* A value that starts with a character no host has, such as "[", is tried again
\* and again: nothing was stored, and nothing is read.
Host ==
    /\ At("HOST")
    /\ LET s == extractHost(p)
       IN  CASE s.ok -> Found(s)
             [] ~s.ok /\ (s.host[1] # NUL \/ s.empty) -> Return(s)
             [] OTHER -> Go(s, "HOST", p.next)
    /\ Stay

Finished == At("FINISHED") /\ pc' = "returned" /\ UNCHANGED <<p, calls>> /\ Stay

-----------------------------------------------------------------------------
(***************************************************************************)
(* The caller.                                                             *)
(***************************************************************************)

\* What the parser needs to decide: all of it, without the blank line at the
\* end when the origin is named.
Needed(r) == Len(Text(r)) - (IF Verdict(r) = "OK" THEN 2 ELSE 0)

\* read(2) of n symbols, and the call.  client_read does not call a parser
\* that has finished.
Wake(n) ==
    /\ pc = "idle"
    /\ n \in 1..Smaller(Len(Text(req)) - sent, p.in.room)
    /\ caller \in Cutters \/ sent > 0 \/ n >= Needed(req)
    /\ LET s == [p EXCEPT !.in = Filled(@, SubSeq(Text(req), sent + 1, sent + n))]
       IN  IF caller = "client_read" /\ p.parserState = "FINISHED"
           THEN p' = s /\ pc' = "returned"
           ELSE p' = [s EXCEPT !.empty = FALSE, !.version = "V_1_1"] /\ pc' = "parsing"
    /\ sent' = sent + n
    /\ turns' = 0
    /\ UNCHANGED <<calls, req, caller>>

\* client_read releases the client when the parser fails, and otherwise moves
\* what is left: while (readAndWrite(...)).
Returned ==
    /\ pc = "returned"
    /\ IF p.state # "OK" THEN pc' = "closed" /\ UNCHANGED p
       ELSE /\ pc' = "idle"
            /\ p' = IF caller = "client_read" THEN MoveAll(p) ELSE p
    /\ UNCHANGED <<turns, calls, req, sent, caller>>

Init ==
    /\ p = defaultRequestStruct
    /\ pc = "idle"
    /\ turns = 0
    /\ calls = <<>>
    /\ req \in Requests
    /\ sent = 0
    /\ caller \in Callers

checkRequestInner ==
    \/ SpaceTransition \/ Method \/ Uri \/ UriHost \/ RelativeUri \/ Version
    \/ StartLineEnd \/ LocalHostHeaderCheck \/ HeadersCase \/ Host \/ Finished

Next == checkRequestInner \/ Returned \/ \E n \in 1..Cap : Wake(n)

Spec == Init /\ [][Next]_vars

-----------------------------------------------------------------------------
(***************************************************************************)
(* Properties.                                                             *)
(***************************************************************************)

\* Every field of the parser has a value of its C type.
TypeOK ==
    /\ pc \in {"idle", "parsing", "returned", "closed"}
    /\ p.parserState \in ParserStates /\ p.next \in ParserStates
    /\ p.state \in {"OK"} \cup Errors
    /\ p.method \in {"UNDEFINED_M"} \cup Methods
    /\ p.num \in Nat
    /\ Len(p.host) = HostMax
    /\ p.in.room \in 0..Cap /\ Len(p.in.q) + p.in.room <= Cap + Reserve
    /\ p.out.room \in 0..OutCap /\ Len(p.out.q) + p.out.room = OutCap
    /\ sent \in 0..Len(Text(req))

\* What is pushed back of the host fits in the reserved zone: true of every
\* request whose host, ":" and port are shorter than the zone.
PushBackFits == Len(Authority(req)) <= Reserve

\* However the request is cut and pushed back, the output is always a prefix of
\* what the origin should get: nothing twice, nothing lost, nothing reordered.
\* What does not fit in the output buffer is missing at the end only.
ForwardedInOrder == PushBackFits => Seqs!IsPrefix(p.out.q, Forward(req))

\* When the parser has finished, hostCallback was called once, with the host and
\* the port of the request, and what was copied, what is still to be read and
\* what has not arrived are together what the origin should get.
OriginIsRight ==
    p.parserState = "FINISHED" /\ PushBackFits =>
        /\ calls = <<Origin(req)>>
        /\ Len(Forward(req)) <= OutCap =>
               p.out.q \o p.in.q \o SubSeq(Text(req), sent + 1, Len(Text(req))) = Forward(req)

\* A request is rejected with the error it deserves and only then, wherever it
\* was cut.
RejectionIsRight == p.state # "OK" => p.state = Verdict(req)

\* checkRequest returns to the event loop whatever the request says: the handlers
\* must not hold up the other descriptors (selector.h:21).
NoCallSpins == turns <= TurnBound

\* The Host value starts with a character no host has.
HostStartsBadly(r) == r.host # <<>> /\ Head(r.host) \notin HostChars

\* The parser decides about every request that has arrived and does not wait for
\* input that it already had, except about one whose Host value starts badly:
\* only then may a call go on without end (NoCallSpins says none does).
DecidesInTime ==
    /\ NoCallSpins \/ HostStartsBadly(req)
    /\ pc = "idle" /\ sent = Len(Text(req)) => Verdict(req) = "OK" /\ p.parserState = "FINISHED"
=============================================================================
