------------------------------- MODULE Logger -------------------------------
(***************************************************************************)
(* proxy_http/src/logger: the handlers hand their messages to log_send,    *)
(* which stores them in a buffer; the selector writes the buffer into a    *)
(* pipe whenever the pipe has room, and a thread reads the pipe byte by    *)
(* byte and hands whole lines to syslog.  A message is a sequence of       *)
(* bytes, all of them the number of the message, and ends with a byte 0.   *)
(*                                                                         *)
(* The pipe is blocking: the main thread stays in write(2) until all of    *)
(* the buffer is in the pipe, and nothing else runs in it meanwhile.       *)
(***************************************************************************)
EXTENDS QueueOps

CONSTANTS
    LogCap,      \* bytes of the log buffer, 8192
    CacheMax,    \* bytes after which the thread ends a line, 2046
    PipeCap,     \* bytes of the pipe
    Lengths,     \* lengths of the messages
    MaxSends     \* bound: number of messages

ASSUME LoggerAssumption ==
    /\ LogCap \in Nat /\ PipeCap \in Nat \ {0} /\ CacheMax \in Nat \ {0} /\ MaxSends \in Nat
    /\ \A len \in Lengths : len \in 0..(2 * CacheMax - 1)

VARIABLES
    buf,      \* logbuf, a queue without a reserved zone
    watched,  \* the interest in writefd: OP_WRITE or OP_NOOP
    main,     \* the main thread: "loop", in "writing", "aborted" or "closed"
    written,  \* what write(2) has put into the pipe so far
    pipe,     \* bytes in the pipe
    thread,   \* log_thread: "reading" or "ended"
    cache,    \* its cache up to position
    lines,    \* the lines handed to syslog
    sends,    \* calls of log_send
    due       \* observed: the lines of the messages stored in logbuf, as they were stored

vars == <<buf, watched, main, written, pipe, thread, cache, lines, sends, due>>

-----------------------------------------------------------------------------

\* log_start and the registration of writefd in main.
Init ==
    /\ buf = NewQueue(LogCap)
    /\ watched = TRUE
    /\ main = "loop"
    /\ written = 0
    /\ pipe = <<>>
    /\ thread = "reading"
    /\ cache = <<>>
    /\ lines = <<>>
    /\ sends = 0
    /\ due = <<>>

\* Mutation: no space is left for the 0.
KeptWhole(m) == IF Len(m) > buf.room THEN SubSeq(m, 1, buf.room) ELSE m

\* What log_send keeps of a message: the last byte of the space is for the 0.
\* Without any space nothing is stored; the 0 before the space is written again.
Kept(m) == IF Len(m) > buf.room THEN SubSeq(m, 1, buf.room - 1) ELSE m

\* The lines syslog should get for a message: one, or two when the thread's cache is too small.
LinesOf(m) ==
    IF Len(m) < CacheMax THEN <<m>>
    ELSE <<SubSeq(m, 1, CacheMax), SubSeq(m, CacheMax + 1, Len(m))>>

\* Mutation: log_send does not ask to be told of room in the pipe.
LogSendUnwatched(len) ==
    /\ main = "loop"
    /\ sends < MaxSends
    /\ LET m == [k \in 1..len |-> sends + 1]
       IN  \/ /\ len = buf.room
              /\ main' = "aborted"
              /\ UNCHANGED <<buf, due>>
           \/ /\ len # buf.room
              /\ IF buf.room = 0 THEN UNCHANGED <<buf, due>>
                 ELSE buf' = Filled(buf, Append(Kept(m), 0)) /\ due' = due \o LinesOf(Kept(m))
              /\ UNCHANGED main
    /\ sends' = sends + 1
    /\ UNCHANGED <<watched, written, pipe, thread, cache, lines>>

\* log_sendf and log_send, in a handler of the main thread.  A message that is
\* exactly as long as the space is followed by its 0 one byte past the buffer,
\* and the assertion of buffer_write_adv ends the process.
LogSend(len) ==
    /\ main = "loop"
    /\ sends < MaxSends
    /\ LET m == [k \in 1..len |-> sends + 1]
       IN  \/ /\ len = buf.room
              /\ main' = "aborted"
              /\ UNCHANGED <<buf, watched, due>>
           \/ /\ len # buf.room
              /\ IF buf.room = 0 THEN UNCHANGED <<buf, due>>
                 ELSE buf' = Filled(buf, Append(Kept(m), 0)) /\ due' = due \o LinesOf(Kept(m))
              /\ watched' = TRUE
              /\ UNCHANGED main
    /\ sends' = sends + 1
    /\ UNCHANGED <<written, pipe, thread, cache, lines>>

\* log_write, when the selector finds room in the pipe.
LogWrite ==
    /\ main = "loop" /\ watched /\ Len(pipe) < PipeCap
    /\ \/ CanRead(buf) /\ main' = "writing" /\ UNCHANGED watched
       \/ ~CanRead(buf) /\ watched' = FALSE /\ UNCHANGED main
    /\ UNCHANGED <<buf, written, pipe, thread, cache, lines, sends, due>>

\* write(2) moves a byte, and waits while the pipe is full.
WriteByte ==
    /\ main = "writing" /\ written < Len(buf.q) /\ Len(pipe) < PipeCap
    /\ pipe' = Append(pipe, buf.q[written + 1])
    /\ written' = written + 1
    /\ UNCHANGED <<buf, watched, main, thread, cache, lines, sends, due>>

\* write(2) returns; buffer_read_adv.
WriteReturns ==
    /\ main = "writing" /\ written = Len(buf.q)
    /\ buf' = Advanced(buf, written, LogCap)
    /\ written' = 0
    /\ main' = "loop"
    /\ UNCHANGED <<watched, pipe, thread, cache, lines, sends, due>>

\* log_close, when the selector is destroyed: what is buffered is lost.
LogClose ==
    /\ main = "loop"
    /\ main' = "closed"
    /\ UNCHANGED <<buf, watched, written, pipe, thread, cache, lines, sends, due>>

\* Mutation: the cache is not restarted at the end of a line.
LogThreadKeepsCache ==
    /\ thread = "reading" /\ pipe # <<>>
    /\ LET c == Head(pipe)
           s == Append(cache, c)
       IN  IF c = 0 \/ Len(s) = CacheMax
           THEN /\ lines' = Append(lines, IF c = 0 THEN cache ELSE s)
                /\ cache' = IF c = 0 THEN <<>> ELSE <<c>>
           ELSE cache' = s /\ UNCHANGED lines
    /\ pipe' = Tail(pipe)
    /\ UNCHANGED <<buf, watched, main, written, thread, sends, due>>

\* Mutation: a line that fills the cache is not ended.
LogThreadFills ==
    /\ thread = "reading" /\ pipe # <<>>
    /\ LET c == Head(pipe)
           s == Append(cache, c)
       IN  IF c = 0
           THEN lines' = Append(lines, cache) /\ cache' = <<>>
           ELSE Len(s) < CacheMax /\ cache' = s /\ UNCHANGED lines
    /\ pipe' = Tail(pipe)
    /\ UNCHANGED <<buf, watched, main, written, thread, sends, due>>

\* One turn of log_thread.  The line is the string in the cache, up to its 0.  What
\* follows a line that fills the cache is 0 from the first memset on, and taken to
\* be 0 before it, where the code leaves the array uninitialised.
LogThread ==
    /\ thread = "reading" /\ pipe # <<>>
    /\ LET c == Head(pipe)
           s == Append(cache, c)
       IN  IF c = 0 \/ Len(s) = CacheMax
           THEN /\ lines' = Append(lines, IF c = 0 THEN cache ELSE s)
                /\ cache' = <<>>
           ELSE cache' = s /\ UNCHANGED lines
    /\ pipe' = Tail(pipe)
    /\ UNCHANGED <<buf, watched, main, written, thread, sends, due>>

\* read(2) returns 0: the pipe is closed and empty.
ThreadEnds ==
    /\ thread = "reading" /\ pipe = <<>> /\ main = "closed"
    /\ thread' = "ended"
    /\ UNCHANGED <<buf, watched, main, written, pipe, cache, lines, sends, due>>

Writing == LogWrite \/ WriteByte \/ WriteReturns
Reading == LogThread \/ ThreadEnds

Next == Writing \/ Reading \/ LogClose \/ \E len \in Lengths : LogSend(len)

\* The main loop calls the handlers of the descriptors that are ready, write(2)
\* goes on when the pipe has room, and the thread is scheduled.  Nothing obliges
\* the proxy to log or to end.
Spec == Init /\ [][Next]_vars /\ WF_vars(Writing) /\ WF_vars(Reading)

-----------------------------------------------------------------------------
(***************************************************************************)
(* Properties.                                                             *)
(***************************************************************************)

\* Every variable has a value of its type.
TypeOK ==
    /\ buf \in [q : Seq(0..MaxSends), room : 0..LogCap] /\ Len(buf.q) + buf.room <= LogCap
    /\ watched \in BOOLEAN
    /\ main \in {"loop", "writing", "aborted", "closed"}
    /\ written \in 0..Len(buf.q)
    /\ pipe \in Seq(0..MaxSends) /\ Len(pipe) <= PipeCap
    /\ cache \in Seq(0..MaxSends) /\ Len(cache) < CacheMax
    /\ lines \in Seq(Seq(0..MaxSends)) /\ due \in Seq(Seq(0..MaxSends))
    /\ thread \in {"reading", "ended"}
    /\ sends \in 0..MaxSends

\* syslog gets the messages in the order they were sent, each on lines of its
\* own: truncation, a full pipe and a full cache never join two messages, nor
\* drop or repeat a part of one.
LinesInOrder == \A k \in DOMAIN lines : k \in DOMAIN due /\ lines[k] = due[k]

\* The event loop never stays in log_write: however full the pipe was when it
\* began to write, the thread makes room for all of it without its help.
LoopComesBack == main = "writing" ~> main = "loop"

\* Every message that was stored is logged, unless the proxy ends before.
Logged == <>[](main \in {"aborted", "closed"} \/ lines = due)
=============================================================================
