---------------------------- MODULE ParserUtils ----------------------------
(***************************************************************************)
(* proxy_http/src/myParserUtils: what the two parsers read their input     *)
(* with.  A parser may be called when only a part of a token has arrived.  *)
(* What it has matched so far is then pushed back into the reserved zone   *)
(* in front of its input, to be matched again by the next call; what is    *)
(* read from the reserved zone was copied to the output before and is not  *)
(* copied again.                                                           *)
(*                                                                         *)
(* Every function takes a record and returns it changed.  Its fields:      *)
(*                                                                         *)
(*     in, out   the input and the output buffer, queues of QueueOps       *)
(*     empty     isBufferEmpty: the parser stopped for want of input       *)
(*     ok        the value the function returned                           *)
(*     num       the number read by getNumber and the functions like it    *)
(*                                                                         *)
(* and those of the parser that calls.  The bytes of a message are symbols *)
(* (strings): a literal such as "HTTP" is cut into two or three, so that   *)
(* it can arrive in pieces.  A byte 0 is the symbol NUL, which the code    *)
(* takes for an empty buffer when it peeks.                                *)
(***************************************************************************)
EXTENDS QueueOps, Integers

Seqs == INSTANCE SequencesExt

CONSTANTS
    Cap,      \* bytes above the reserved zone of the input buffer
    Reserve   \* bytes of the reserved zone

ASSUME BufferAssumption == Cap \in Nat /\ Reserve \in Nat

NUL   == "NUL"     \* the byte 0, and what buffer_peek says of an empty buffer
CR    == "CR"
LF    == "LF"
SP    == " "
TAB   == "TAB"
CRLF  == <<CR, LF>>
Blank == {SP, TAB}

\* toupper and tolower on the symbols that have another case.
UpperOf == [g |-> "G", et |-> "ET", h |-> "H", ttp |-> "TTP", ost |-> "OST", x |-> "X",
            b |-> "B", c |-> "C", on |-> "ON", t |-> "T", ed |-> "ED"]
ToUpper(c) == IF c \in DOMAIN UpperOf THEN UpperOf[c] ELSE c
ToLower(c) == IF \E l \in DOMAIN UpperOf : UpperOf[l] = c
              THEN CHOOSE l \in DOMAIN UpperOf : UpperOf[l] = c
              ELSE c

Smaller(m, n) == IF m < n THEN m ELSE n
Larger(m, n)  == IF m < n THEN n ELSE m
LastOf(S)     == CHOOSE m \in S : \A n \in S : n <= m

\* How many of the leading symbols of s are in S.
Run(s, S) == CHOOSE n \in 0..Len(s) :
                 (\A k \in 1..n : s[k] \in S) /\ (n < Len(s) => s[n + 1] \notin S)

-----------------------------------------------------------------------------
(***************************************************************************)
(* Buffers.                                                                *)
(***************************************************************************)

Peek(b) == IF CanRead(b) THEN Head(b.q) ELSE NUL

\* How many of the unread bytes are in the reserved zone: is_reserved holds
\* for the next byte while there are some.
Reserved(b) == Larger(0, Len(b.q) + b.room - Cap)

\* Mutation: writeToBuf does not look for room.
WriteToBufUnchecked(s, b) == Filled(b, s)

\* writeToBuf: what does not fit is dropped without notice.
writeToBuf(s, b) == Filled(b, SubSeq(s, 1, Smaller(Len(s), b.room)))

\* writeToBufReverse and writePrefix: the last symbol first, so that it is the
\* first ones of s that are dropped when there is no memory left in front.
writeToBufReverse(s, b) ==
    LET n == Smaller(Len(s), Cap + Reserve - b.room - Len(b.q))
    IN  [b EXCEPT !.q = SubSeq(s, Len(s) - n + 1, Len(s)) \o @]

\* k calls of buffer_read.
Skip(p, k) == [p EXCEPT !.in = Advanced(@, k, Cap)]

\* What is left of s without the bytes 0.
NonZero(s) ==
    LET kept[k \in 0..Len(s)] ==
            IF k = 0 THEN <<>>
            ELSE IF s[k] = NUL THEN kept[k - 1] ELSE Append(kept[k - 1], s[k])
    IN  kept[Len(s)]

\* Mutation: readAndWrite does not ask is_reserved.
CopiedAgain(p, k, zero) ==
    LET all == SubSeq(p.in.q, 1, k)
    IN  [Skip(p, k) EXCEPT !.out = writeToBuf(IF zero THEN all ELSE NonZero(all), @)]

\* k calls of readAndWrite or readAndWriteWithZero (zero): what comes from the
\* reserved zone is not written again, and a byte 0 only by the latter.
Copied(p, k, zero) ==
    LET fresh == SubSeq(p.in.q, Smaller(Reserved(p.in), k) + 1, k)
    IN  [Skip(p, k) EXCEPT !.out = writeToBuf(IF zero THEN fresh ELSE NonZero(fresh), @)]

readAndWrite(p, k) == Copied(p, k, FALSE)

\* READ_UP_CHAR, where a byte 0 and an empty buffer look alike: the byte 0 is read.
ReadChar(p) == readAndWrite(p, Smaller(1, Len(p.in.q)))

\* while (readAndWrite(...)): up to the first byte 0, which is read too.
MoveAll(p) ==
    readAndWrite(p, CHOOSE n \in 0..Len(p.in.q) :
                        /\ \A k \in 1..(n - 1) : p.in.q[k] # NUL
                        /\ n = Len(p.in.q) \/ (n > 0 /\ p.in.q[n] = NUL))

moveThroughSpaces(p) == Skip(p, Run(p.in.q, Blank))

\* *quantity is p.num; readAndWriteWithZero sets bEmpty when it finds nothing.
writeToTransfBufWithZero(p) ==
    LET n == Smaller(p.num, Len(p.in.q))
    IN  [Copied(p, n, TRUE) EXCEPT !.num = @ - n, !.ok = (n = p.num),
                                    !.empty = @ \/ n < p.num]

-----------------------------------------------------------------------------
(***************************************************************************)
(* Tokens.                                                                 *)
(***************************************************************************)

\* How much of fmt the input starts with, in any case.
Matched(fmt, q) ==
    CHOOSE n \in 0..Smaller(Len(fmt), Len(q)) :
        /\ \A k \in 1..n : ToUpper(q[k]) = fmt[k]
        /\ n < Smaller(Len(fmt), Len(q)) => ToUpper(q[n + 1]) # fmt[n + 1]

\* The input ended within a token: what was read of it goes back.
Starved(p, read) ==
    [p EXCEPT !.in = writeToBufReverse(read, @), !.empty = TRUE, !.ok = FALSE]

\* Mutation: matchFormat pushes back what it has read itself and not the prefix.
MatchEndNoPrefix(fmt, n, p, prefix) ==
    IF n < Len(fmt) /\ Peek(p.in) = NUL
    THEN Starved(p, SubSeq(fmt, 1, n))
    ELSE [p EXCEPT !.ok = (n = Len(fmt))]

\* matchFormat and simpleMatchFormat after n symbols of fmt were read.
MatchEnd(fmt, n, p, prefix) ==
    IF n < Len(fmt) /\ Peek(p.in) = NUL
    THEN Starved(p, prefix \o SubSeq(fmt, 1, n))
    ELSE [p EXCEPT !.ok = (n = Len(fmt))]

matchFormat(fmt, p, prefix) ==
    LET n == Matched(fmt, p.in.q) IN MatchEnd(fmt, n, readAndWrite(p, n), prefix)

simpleMatchFormat(fmt, p, prefix) ==
    LET n == Matched(fmt, p.in.q) IN MatchEnd(fmt, n, Skip(p, n), prefix)

\* checkLF is matchFormat(<<LF>>, ...).
checkCRLF(p, prefix)       == matchFormat(CRLF, p, prefix)
simpleCheckCRLF(p, prefix) == simpleMatchFormat(CRLF, p, prefix)

Digit == <<"0", "1", "2", "3", "4", "5", "6", "7", "8", "9", "A", "B", "C", "D", "E", "F">>
Digits(base) == {Digit[k] : k \in 1..base} \cup (IF base = 16 THEN {"b", "c"} ELSE {})

hexCharToDec(c) == (CHOOSE k \in 1..16 : Digit[k] = ToUpper(c)) - 1

\* writeDecToBufReverse and writeHexToBufReverse: the digits of a number; 0 has one.
Numeral(n, base) ==
    LET digits[k \in 0..n] ==
            IF k < base THEN <<Digit[k + 1]>>
            ELSE Append(digits[k \div base], Digit[(k % base) + 1])
    IN  digits[n]

\* What the digits s stand for.
Value(s, base) ==
    LET value[k \in 0..Len(s)] ==
            IF k = 0 THEN 0 ELSE base * value[k - 1] + hexCharToDec(s[k])
    IN  value[Len(s)]

\* getNumber and getHexNumber (copy = TRUE), simpleGetHexNumber.  *number is
\* assigned only when something follows the digits.
ReadNumber(p, base, prefix, copy) ==
    LET n == Run(p.in.q, Digits(base))
        v == Value(SubSeq(p.in.q, 1, n), base)
        t == IF copy THEN readAndWrite(p, n) ELSE Skip(p, n)
    IN  IF Peek(p.in) # NUL /\ n = 0 THEN [p EXCEPT !.ok = FALSE]
        ELSE IF Peek(t.in) = NUL THEN Starved(t, prefix \o Numeral(v, base))
        ELSE [t EXCEPT !.num = v, !.ok = TRUE]

getNumber(p, prefix)          == ReadNumber(p, 10, prefix, TRUE)
getHexNumber(p, prefix)       == ReadNumber(p, 16, prefix, TRUE)
simpleGetHexNumber(p, prefix) == ReadNumber(p, 16, prefix, FALSE)
=============================================================================
