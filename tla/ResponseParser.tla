--------------------------- MODULE ResponseParser ---------------------------
(***************************************************************************)
(* proxy_http/src/response_parser/responseParser.c: copies a response to   *)
(* the output, rewrites some of its headers and finds its end, whichever   *)
(* way it is cut into reads.  With a transformation the body goes to a     *)
(* buffer of its own, without its chunks.  remote_read calls the parser    *)
(* after every read until it has finished or failed.                       *)
(*                                                                         *)
(* A response is a record of its parts; Text is what arrives of it,        *)
(* Forward and Decoded what the client and the transformation should get.  *)
(***************************************************************************)
EXTENDS ParserUtils

CONSTANTS
    Responses,   \* the responses that may arrive
    OutCap,      \* bytes of the output buffer
    TransfCap    \* bytes of the transformation's buffer

ASSUME OutAssumption == OutCap \in Nat /\ TransfCap \in Nat

VARIABLES
    p,       \* the parser's ResponseData and its buffers; num is bodyLength
    pc,      \* "idle", "parsing", "returned", "released" or "exited"
    turns,   \* turns of the parser's loops in this call (observed, not code)
    res,     \* the response that arrives
    sent     \* how many of its symbols have arrived

vars == <<p, pc, turns, res, sent>>

ParserStates == {"RES_SPACE_TRANSITION", "RES_VERSION", "STATUS", "RES_HEADERS", "LENGTH_CHECK",
                 "ENCODING_CHECK", "CHUNKED_CHECK", "CONNECTION_CHECK", "TYPE_CHECK",
                 "BODY_NORMAL", "BODY_TRANSFORMATION", "RES_FINISHED"}

NO_BODY_LENGTH == -1
STATUS_OK      == 200

HTTP_1   == <<"H", "TTP", "/1.">>
CONTENT  == <<"C", "ON", "TENT-">>
CHUNKED  == <<"CHUNK", "ED">>
GZIP     == <<"GZ", "IP">>
AddedEncoding   == <<"Transfer-Encoding: chunked", CR, LF>>
AddedConnection == <<"Connection: close", CR, LF>>

\* The headers checkHeaders looks for: Content-X by the letter X.
ContentRest  == [L |-> <<"ENGTH:">>, E |-> <<"NCODING:">>, T |-> <<"YPE:">>]
ContentCheck == [L |-> "LENGTH_CHECK", E |-> "ENCODING_CHECK", T |-> "TYPE_CHECK"]

-----------------------------------------------------------------------------
(***************************************************************************)
(* Responses: what arrives, and what should come of it.                    *)
(***************************************************************************)

Names == [length |-> <<"c", "ON", "TENT-", "L", "ENGTH:">>,
          encoding |-> <<"C", "on", "TENT-", "E", "NCODING:">>,
          type |-> <<"C", "ON", "TENT-", "T", "YPE:">>,
          connection |-> <<"C", "ON", "NECTION:">>,
          chunked |-> <<"t", "RANSFER-ENCODING:">>,
          other |-> <<>>]

LineText(l) == Names[l.name] \o l.gap \o l.value \o CRLF

\* The blanks before a value become one space; Connection is always close.
LineForward(l) ==
    IF l.name = "other" THEN LineText(l)
    ELSE Names[l.name] \o <<SP>> \o (IF l.name = "connection" THEN <<"close">> ELSE l.value) \o CRLF

Concat(ss) == Seqs!FoldLeft(LAMBDA a, s : a \o s, <<>>, ss)
Mapped(ls, Op(_)) == Concat([k \in DOMAIN ls |-> Op(ls[k])])

Has(r, name, value) == \E k \in DOMAIN r.lines : r.lines[k].name = name /\ r.lines[k].value = value
HasLine(r, name)    == \E k \in DOMAIN r.lines : r.lines[k].name = name
IsChunked(r) == Has(r, "chunked", <<"CHUNK", "ed">>)

StartLine(r, gap) == r.version \o gap \o r.status \o r.reason \o CRLF

ChunkText(c) == Numeral(Len(c), 16) \o CRLF \o c \o CRLF
BodyText(r) ==
    IF IsChunked(r) THEN Mapped(r.chunks, ChunkText) \o r.last ELSE Concat(r.chunks)

\* r.extra is what arrives after the end of the response.
Text(r) == StartLine(r, r.gap) \o Mapped(r.lines, LineText) \o CRLF \o BodyText(r) \o r.extra

\* The text of a response is a sequence.
ASSUME ResponseAssumption ==
    \A r \in Responses : /\ Text(r) \in Seq({Text(r)[k] : k \in DOMAIN Text(r)})
                         /\ r.transf \in BOOLEAN

Forward(r) ==
    StartLine(r, <<SP>>) \o Mapped(r.lines, LineForward)
    \o (IF r.transf /\ ~IsChunked(r) THEN AddedEncoding ELSE <<>>)
    \o (IF HasLine(r, "connection") THEN <<>> ELSE AddedConnection)
    \o CRLF \o (IF r.transf THEN <<>> ELSE BodyText(r))

Decoded(r) == IF r.transf THEN Concat(r.chunks) ELSE <<>>

\* The response ends when its origin closes: the parser cannot know.
EndsByClose(r) ==
    ~IsChunked(r) /\ ~HasLine(r, "length") /\ (r.transf \/ r.status = <<"2", "0", "0">>)

Verdict(r) ==
    CASE Matched(HTTP_1, r.version) < 3 \/ r.version[4] \notin {"0", "1"} -> "RES_VERSION_ERROR"
      [] Head(r.status) \notin Digits(10) -> "STATUS_ERROR"
      [] IsChunked(r) /\ r.last # <<"0", CR, LF, CR, LF>> -> "CHUNKS_ERROR"
      [] OTHER -> "RES_OK"

-----------------------------------------------------------------------------
(***************************************************************************)
(* The functions of the parser.  They take p and return it changed, with   *)
(* their own result in ok.                                                 *)
(***************************************************************************)

\* defaultResponseStruct on new buffers.
defaultResponseStruct ==
    [parserState |-> "RES_VERSION", next |-> "RES_VERSION", empty |-> FALSE, ok |-> TRUE,
     state |-> "RES_OK", version |-> "UNDEFINED", status |-> 0, num |-> NO_BODY_LENGTH,
     cEncoding |-> "IDENTITY", isClose |-> FALSE, isChunked |-> FALSE, withTransf |-> FALSE, more |-> FALSE,
     in |-> NewQueue(Cap), out |-> NewQueue(OutCap), transf |-> NewQueue(TransfCap)]

Failed(s)  == [s EXCEPT !.ok = FALSE]
NoInput(s) == [s EXCEPT !.ok = FALSE, !.empty = TRUE]

checkSpaces(s) ==
    LET t == moveThroughSpaces(s)
    IN  IF Peek(t.in) = NUL THEN NoInput(t)
        ELSE [t EXCEPT !.out = Written(@, SP), !.ok = TRUE]

extractHttpVersion(s) ==
    LET t == matchFormat(HTTP_1, s, <<>>)
        c == Peek(t.in)
        u == ReadChar(t)
        v == CASE c = "0" -> "V_1_0" [] c = "1" -> "V_1_1" [] OTHER -> t.version
    IN  CASE t.ok /\ c = NUL -> Starved(u, HTTP_1)
          [] t.ok /\ c # NUL -> [u EXCEPT !.version = v, !.ok = v # "UNDEFINED"]
          [] OTHER           -> [t EXCEPT !.ok = ~t.empty /\ t.version # "UNDEFINED"]

extractStatus(s) ==
    LET t == getNumber(s, <<>>)
    IN  IF t.ok THEN [t EXCEPT !.status = t.num, !.num = s.num] ELSE t

\* checkHeaders after the "C" of a header's name.
ContentOrConnection(s) ==
    LET on   == matchFormat(<<"ON">>, s, <<"C">>)
        tent == matchFormat(<<"TENT-">>, on, <<"C", "ON">>)
        nect == matchFormat(<<"NECTION:">>, tent, <<"C", "ON">>)
        aux  == ToUpper(Peek(tent.in))
        char == ReadChar(tent)
        rest == matchFormat(ContentRest[aux], char, Append(CONTENT, aux))
    IN  CASE ~on.ok             -> on
          [] on.ok /\ ~tent.ok  -> [nect EXCEPT !.next = IF nect.ok THEN "CONNECTION_CHECK" ELSE @]
          [] on.ok /\ tent.ok   ->
                CASE aux = NUL                   -> Starved(char, CONTENT)
                  [] aux \in DOMAIN ContentRest  ->
                        [rest EXCEPT !.next = IF rest.ok THEN ContentCheck[aux] ELSE @]
                  [] OTHER                       -> char

\* checkHeaders after a CR: the blank line is not copied but written anew, after
\* the headers that are added.
EndOfLine(s) ==
    LET lf == matchFormat(<<LF>>, s, <<CR>>)
        cr == Skip(lf, 1)
        added == (IF ~s.isChunked /\ s.withTransf THEN AddedEncoding ELSE <<>>)
                 \o (IF s.isClose THEN <<>> ELSE AddedConnection) \o CRLF
    IN  CASE ~lf.ok                          -> lf
          [] lf.ok /\ Peek(lf.in) = NUL      -> Starved(lf, CRLF)
          [] lf.ok /\ Peek(lf.in) = CR       ->
                CASE Peek(cr.in) = LF  -> [Skip(cr, 1) EXCEPT !.next = "RES_FINISHED",
                                                              !.out = writeToBuf(added, @)]
                  [] Peek(cr.in) = NUL -> Starved(cr, <<CR, LF, CR>>)
                  [] OTHER             -> cr
          [] OTHER                           -> lf

\* Mutation: a line that is not looked for is not read either.
HeaderStepPeeks(s) ==
    LET c == ToUpper(Peek(s.in))
        t == [ReadChar(s) EXCEPT !.next = "RES_HEADERS"]
        m == matchFormat(<<"RANSFER-ENCODING:">>, t, <<"T">>)
    IN  CASE c = NUL -> NoInput(t)
          [] c = "C" -> ContentOrConnection(t)
          [] c = "T" -> [m EXCEPT !.next = IF m.ok THEN "CHUNKED_CHECK" ELSE @]
          [] c = CR  -> EndOfLine(t)
          [] OTHER   -> [s EXCEPT !.next = "RES_HEADERS"]

\* One turn of the loop of checkHeaders: it goes on while next is RES_HEADERS and
\* there is input.
HeaderStep(s) ==
    LET c == ToUpper(Peek(s.in))
        t == [ReadChar(s) EXCEPT !.next = "RES_HEADERS"]
        m == matchFormat(<<"RANSFER-ENCODING:">>, t, <<"T">>)
    IN  CASE c = NUL -> NoInput(t)
          [] c = "C" -> ContentOrConnection(t)
          [] c = "T" -> [m EXCEPT !.next = IF m.ok THEN "CHUNKED_CHECK" ELSE @]
          [] c = CR  -> EndOfLine(t)
          [] OTHER   -> t

checkLength(s)   == getNumber(s, <<>>)
checkEncoding(s) == LET t == matchFormat(GZIP, s, <<>>)
                    IN  [t EXCEPT !.cEncoding = IF t.ok THEN "GZIP" ELSE @]
checkChunked(s)  == LET t == matchFormat(CHUNKED, s, <<>>)
                    IN  [t EXCEPT !.isChunked = @ \/ t.ok]
checkType(s)     == [s EXCEPT !.ok = TRUE]

\* The value is skipped, even over several calls, and close written for it.
checkConnection(s) ==
    LET n == CHOOSE k \in 0..Len(s.in.q) :
                 /\ \A i \in 1..k : s.in.q[i] \notin {CR, NUL}
                 /\ k < Len(s.in.q) => s.in.q[k + 1] \in {CR, NUL}
        t == Skip(s, n)
    IN  IF Peek(t.in) = NUL THEN NoInput(t)
        ELSE [t EXCEPT !.out = Written(@, "close"), !.isClose = TRUE, !.ok = TRUE]

\* Mutation: nothing stands for a chunk whose data was read.
ChunkStepNoStandIn(s, copy) ==
    LET crlf(t) == IF copy THEN checkCRLF(t, <<>>) ELSE simpleCheckCRLF(t, <<>>)
        back(t, read) == [t EXCEPT !.in = writeToBufReverse(read, @)]
        size == IF copy THEN getHexNumber(s, <<>>) ELSE simpleGetHexNumber(s, <<>>)
        line == crlf(size)
        data == writeToTransfBufWithZero(line)
        end  == crlf(data)
    IN  IF ~size.ok THEN size
        ELSE IF ~line.ok
             THEN IF line.empty THEN back(line, Numeral(line.num, 16)) ELSE line
        ELSE IF ~data.ok THEN back(data, Numeral(data.num, 16) \o CRLF)
        ELSE [end EXCEPT !.more = end.ok /\ size.num > 0]

\* Mutation: the whole size of a chunk is pushed back and not what is left of it.
ChunkStepWholeSize(s, copy) ==
    LET crlf(t) == IF copy THEN checkCRLF(t, <<>>) ELSE simpleCheckCRLF(t, <<>>)
        back(t, read) == [t EXCEPT !.in = writeToBufReverse(read, @)]
        size == IF copy THEN getHexNumber(s, <<>>) ELSE simpleGetHexNumber(s, <<>>)
        line == crlf(size)
        data == writeToTransfBufWithZero(line)
        end  == crlf(data)
    IN  IF ~size.ok THEN size
        ELSE IF ~line.ok
             THEN IF line.empty THEN back(line, Numeral(line.num, 16)) ELSE line
        ELSE IF ~data.ok THEN back(data, Numeral(size.num, 16) \o CRLF)
        ELSE IF ~end.ok
             THEN back(end, IF size.num > 0 THEN <<"1", CR, LF, "1">> ELSE <<"0", CR, LF>>)
        ELSE [end EXCEPT !.more = size.num > 0]

\* One turn of the loop of extractChunkedBody (copy), or of
\* extractChunkedBodyTransf, which writes the data only.  When the input ends,
\* what stands for the rest of the chunk is pushed back; once its data was read
\* that is a chunk of a single byte, which will not be copied.
ChunkStep(s, copy) ==
    LET crlf(t) == IF copy THEN checkCRLF(t, <<>>) ELSE simpleCheckCRLF(t, <<>>)
        back(t, read) == [t EXCEPT !.in = writeToBufReverse(read, @)]
        size == IF copy THEN getHexNumber(s, <<>>) ELSE simpleGetHexNumber(s, <<>>)
        line == crlf(size)
        data == writeToTransfBufWithZero(line)
        end  == crlf(data)
    IN  IF ~size.ok THEN size
        ELSE IF ~line.ok
             THEN IF line.empty THEN back(line, Numeral(line.num, 16)) ELSE line
        ELSE IF ~data.ok THEN back(data, Numeral(data.num, 16) \o CRLF)
        ELSE IF ~end.ok
             THEN back(end, IF size.num > 0 THEN <<"1", CR, LF, "1">> ELSE <<"0", CR, LF>>)
        ELSE [end EXCEPT !.more = size.num > 0]

\* extractBody and extractBodyTransf.  Without a length or chunks all that there
\* is is copied, and the end never found.
BodyStep(s, copy) ==
    CASE s.isChunked                -> ChunkStep(s, copy)
      [] ~s.isChunked /\ s.num >= 0 -> writeToTransfBufWithZero(s)
      [] OTHER                      -> Failed(Copied(s, Len(s.in.q), TRUE))

\* The body is written to the buffer of the transformation.
Swapped(s) == [s EXCEPT !.out = s.transf, !.transf = s.out]

-----------------------------------------------------------------------------
(***************************************************************************)
(* checkResponseInner, one turn of its loops per step.                     *)
(***************************************************************************)

\* The switch after the loop.
ErrorOf(s) ==
    CASE s.parserState = "RES_VERSION" -> "RES_VERSION_ERROR"
      [] s.parserState = "STATUS"      -> "STATUS_ERROR"
      [] s.parserState \in {"BODY_NORMAL", "BODY_TRANSFORMATION"} /\ s.isChunked -> "CHUNKS_ERROR"
      [] OTHER -> s.state

At(state) == pc = "parsing" /\ p.parserState = state
Stay      == turns' = turns + 1 /\ UNCHANGED <<res, sent>>

Go(s, state) == p' = [s EXCEPT !.parserState = state] /\ UNCHANGED pc

Return(s) ==
    /\ p' = [s EXCEPT !.state = IF s.empty THEN @ ELSE ErrorOf(s)]
    /\ pc' = "returned"

SpaceTransition ==
    /\ At("RES_SPACE_TRANSITION")
    /\ LET s == checkSpaces(p) IN IF s.ok THEN Go(s, s.next) ELSE Return(s)
    /\ Stay

Version ==
    /\ At("RES_VERSION")
    /\ LET s == extractHttpVersion(p)
       IN  IF s.ok THEN Go([s EXCEPT !.next = "STATUS"], "RES_SPACE_TRANSITION") ELSE Return(s)
    /\ Stay

Status ==
    /\ At("STATUS")
    /\ LET s == extractStatus(p) IN IF s.ok THEN Go(s, "RES_HEADERS") ELSE Return(s)
    /\ Stay

Headers ==
    /\ At("RES_HEADERS")
    /\ LET s == HeaderStep(p)
       IN  CASE s.next = "RES_HEADERS" /\ s.empty  -> Return(s)
             [] s.next = "RES_HEADERS" /\ ~s.empty -> Go(s, "RES_HEADERS")
             [] s.next = "RES_FINISHED" ->
                    Go(s, IF s.withTransf THEN "BODY_TRANSFORMATION" ELSE "BODY_NORMAL")
             [] OTHER -> Go(s, "RES_SPACE_TRANSITION")
    /\ Stay

\* A value that is not the one looked for is left to the headers' loop.
Check(state, s) ==
    /\ At(state)
    /\ IF ~s.ok /\ s.empty THEN Return(s) ELSE Go(s, "RES_HEADERS")
    /\ Stay

LengthCheck     == Check("LENGTH_CHECK", checkLength(p))
EncodingCheck   == Check("ENCODING_CHECK", checkEncoding(p))
ChunkedCheck    == Check("CHUNKED_CHECK", checkChunked(p))
ConnectionCheck == Check("CONNECTION_CHECK", checkConnection(p))
TypeCheck       == Check("TYPE_CHECK", checkType(p))

\* The next chunk, the end of the body, or a lack of input or an error.
Body(s) ==
    CASE s.more             -> Go([s EXCEPT !.more = FALSE], p.parserState)
      [] ~s.more /\ s.ok    -> Go(s, "RES_FINISHED")
      [] ~s.more /\ ~s.ok   -> Return(s)

BodyNormal ==
    /\ At("BODY_NORMAL")
    /\ IF ~p.isChunked /\ p.num < 0 /\ p.status # STATUS_OK
       THEN Return([NoInput(p) EXCEPT !.parserState = "RES_FINISHED"])
       ELSE Body(BodyStep(p, TRUE))
    /\ Stay

BodyTransformation ==
    At("BODY_TRANSFORMATION") /\ Body(Swapped(BodyStep(Swapped(p), FALSE))) /\ Stay

Finished == At("RES_FINISHED") /\ pc' = "returned" /\ UNCHANGED p /\ Stay

-----------------------------------------------------------------------------
(***************************************************************************)
(* The caller, remote_read.                                                *)
(***************************************************************************)

\* read(2) of n symbols, and the call.
Wake(n) ==
    /\ pc = "idle"
    /\ n \in 1..Smaller(Len(Text(res)) - sent, p.in.room)
    /\ p' = [p EXCEPT !.in = Filled(@, SubSeq(Text(res), sent + 1, sent + n)), !.empty = FALSE]
    /\ pc' = "parsing"
    /\ sent' = sent + n
    /\ turns' = 0
    /\ UNCHANGED res

\* exit(42) when the parser fails; the origin is released when it has finished.
Returned ==
    /\ pc = "returned"
    /\ pc' = CASE p.state # "RES_OK" -> "exited"
               [] p.state = "RES_OK" /\ p.parserState = "RES_FINISHED" -> "released"
               [] OTHER -> "idle"
    /\ UNCHANGED <<p, turns, res, sent>>

Init ==
    /\ res \in Responses
    /\ p = [defaultResponseStruct EXCEPT !.withTransf = res.transf]
    /\ pc = "idle"
    /\ turns = 0
    /\ sent = 0

checkResponseInner ==
    \/ SpaceTransition \/ Version \/ Status \/ Headers
    \/ LengthCheck \/ EncodingCheck \/ ChunkedCheck \/ ConnectionCheck \/ TypeCheck
    \/ BodyNormal \/ BodyTransformation \/ Finished

Next == checkResponseInner \/ Returned \/ \E n \in 1..Cap : Wake(n)

Spec == Init /\ [][Next]_vars

-----------------------------------------------------------------------------
(***************************************************************************)
(* Properties.                                                             *)
(***************************************************************************)

\* Every field of the parser has a value of its C type.
TypeOK ==
    /\ pc \in {"idle", "parsing", "returned", "released", "exited"}
    /\ p.parserState \in ParserStates /\ p.next \in ParserStates
    /\ p.state \in {"RES_OK", "RES_VERSION_ERROR", "STATUS_ERROR", "CHUNKS_ERROR"}
    /\ p.num \in Int /\ p.num >= NO_BODY_LENGTH
    /\ p.status \in Nat
    /\ p.in.room \in 0..Cap /\ Len(p.in.q) + p.in.room <= Cap + Reserve
    /\ p.out.room \in 0..OutCap /\ Len(p.out.q) + p.out.room = OutCap
    /\ p.transf.room \in 0..TransfCap /\ Len(p.transf.q) + p.transf.room = TransfCap
    /\ sent \in 0..Len(Text(res))

\* However the response is cut and pushed back, the client and the transformation
\* get prefixes of what they should: no byte of a header, of a chunk or of the
\* stand-ins for a chunk is copied twice or lost.
ForwardedInOrder ==
    Seqs!IsPrefix(p.out.q, Forward(res)) /\ Seqs!IsPrefix(p.transf.q, Decoded(res))

\* The parser finishes exactly at the end of the response: everything before it
\* was copied and nothing after it was read.
EndIsRight ==
    p.parserState = "RES_FINISHED" =>
        /\ p.in.q \o SubSeq(Text(res), sent + 1, Len(Text(res))) = res.extra
        /\ Len(Forward(res)) <= OutCap => p.out.q = Forward(res)
        /\ Len(Decoded(res)) <= TransfCap => p.transf.q = Decoded(res)

\* The process exits only because of a response that is malformed, wherever it
\* was cut.
RejectionIsRight == p.state # "RES_OK" => p.state = Verdict(res)

\* Every call returns, however the response is malformed and wherever it was cut:
\* a turn of the loops reads a symbol or moves on to one of the next 3 states, and
\* what was pushed back by earlier calls never adds more than the reserved zone.
EveryCallReturns == turns <= 3 * (Reserve + sent) + 4

\* A response that has arrived is finished or rejected, unless only the close of
\* the connection ends it; then all of it was copied.
DecidesInTime ==
    pc = "idle" /\ sent = Len(Text(res)) =>
        /\ EndsByClose(res)
        /\ p.in.q = <<>>
        /\ Len(Forward(res)) <= OutCap => p.out.q = Forward(res)
=============================================================================
