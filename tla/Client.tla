-------------------------------- MODULE Client --------------------------------
(***************************************************************************)
(* One proxied connection, from the moment listen_read_handler registered  *)
(* it: the handlers of proxy_http/src/client (client_handlers.c,           *)
(* remote_handlers.c, client.c) run by the selector's loop, with the       *)
(* resolver thread, the user agent and the origin around them.             *)
(*                                                                         *)
(* Bytes are abstracted to units, the pieces of a message the handlers and *)
(* the parsers treat differently.  A unit is its position in the message   *)
(* that is being proxied; 0 is a header the proxy adds itself.  A message  *)
(* is cut into segments between units, never inside one.                   *)
(*                                                                         *)
(* shouldTransform is always false (client.c:49), so that the              *)
(* transformation branches of the handlers are never taken.                *)
(***************************************************************************)
EXTENDS SelectorOps, QueueOps

CONSTANTS
    Requests,       \* the requests a user agent may send
    Responses,      \* the responses an origin may send
    Surroundings,   \* the usable sizes of a buffer, buffers_size - 255, in units,
                    \* and what may go wrong around the proxy
    Cl              \* the client, the data of both of its descriptors

\* "line": start line of a request in origin form, up to the first header
\* "host": the end of the host, in the start line or in the Host header
\* "data": anything after the host;  "nul": the byte 0, after the host
\* "bad":  something requestParser rejects
RequestUnits == {"line", "host", "data", "nul", "bad"}

\* "head": status line and headers;  "data": part of the body
\* "last": the end of a body with a length, or of a chunked one
\* "bare": status line and headers of a response that is not 200 and announces
\*         no body
\* "bad":  something responseParser rejects
ResponseUnits == {"head", "data", "last", "bare", "bad"}

AllFaults == {"segments", "client_close", "client_reset", "unresolved",
              "no_socket", "connect_error", "connect_now", "refused",
              "origin_close", "origin_reset"}

ASSUME ClientAssumption ==
    /\ Requests \subseteq Seq(RequestUnits)
    /\ Responses \subseteq Seq(ResponseUnits)
    /\ Surroundings \subseteq [cap : Nat, faults : SUBSET AllFaults]
    /\ 4 <= ITEMS_MAX_SIZE

\* What the units stand for: a message has one start line, which comes first, and
\* one end, which comes last.
ASSUME MessageAssumption ==
    /\ \A m \in Requests : \A i \in 2..Len(m) : m[i] # "line"
    /\ \A m \in Responses :
          /\ \A i \in 2..Len(m) : m[i] \notin {"head", "bare"}
          /\ \A i \in 1..(Len(m) - 1) : m[i] \notin {"last", "bare"}

VARIABLES
    \* struct client_cdt
    state,              \* client_state_t
    request_complete,
    reqState,           \* req_data.parserState: "SEARCH" until the host is found
    resState,           \* res_data.parserState
    preReq, postReq, preRes, postRes,   \* the I/O buffers
    origin_fd,
    resolved,           \* host.resolved # NULL
    freed,              \* client_free_resources has freed the buffers
    \* the rest of the process
    sel,                \* the selector
    open,               \* which of the connection's two sockets are open
    slave,              \* what the current iteration still has to visit
    pc,                 \* where the main thread is in selector_select
    resolver,           \* the thread of request_resolv_blocking
    inst,               \* the metric of concurrent connections
    proxy,              \* whether the process runs
    \* the user agent and the origin
    request, response,  \* what they are going to send
    reqSent, resSent,   \* how much of it they sent
    cnet, onet,         \* what their sockets have received and not read
    cpeer, opeer,       \* the state of the connections, seen from the proxy
    gotO, gotC,         \* what the origin and the user agent received
    \* the surroundings of this connection, which it does not change
    cap,                \* the room of its buffers: 0 if buffers_size is at most 255
    faults              \* what may go wrong

bufVars  == <<preReq, postReq, preRes, postRes>>
cdtVars  == <<state, request_complete, reqState, resState, bufVars, origin_fd, freed>>
procVars == <<sel, open, inst, proxy>>
loopVars == <<slave, pc>>
jobVars  == <<resolver, resolved>>
uaVars   == <<request, reqSent, cnet, cpeer, gotC>>
orVars   == <<response, resSent, onet, opeer, gotO>>
given    == <<cap, faults>>
vars     == <<cdtVars, procVars, loopVars, jobVars, uaVars, orVars, given>>

client_fd == 2
NoFd == -1
OriginFds == {1, 3}     \* the origin's descriptor may be below or above client_fd

Peer == {"none", "connecting", "open", "closed", "reset", "broken"}

Units(m) == 0..Len(m)

QueueType(b, m) == b.q \in Seq(Units(m)) /\ b.room \in 0..cap

TypeOK ==
    /\ state \in {"NO_ORIGIN", "SEND_REQ", "READ_RESP", "CLI_ERROR"}
    /\ request_complete \in BOOLEAN
    /\ reqState \in {"SEARCH", "FINISHED"} /\ resState \in {"PARSING", "FINISHED"}
    /\ QueueType(preReq, request) /\ QueueType(postReq, request)
    /\ QueueType(preRes, response) /\ QueueType(postRes, response)
    /\ origin_fd \in OriginFds \cup {NoFd}
    /\ resolved \in BOOLEAN /\ freed \in BOOLEAN
    /\ SelectorType(sel, {Cl})
    /\ open \subseteq OriginFds \cup {client_fd}
    /\ slave \subseteq (FD \X {"read", "write"})
    /\ pc \in {"select", "iterate", "notify"}
    /\ resolver \in {"none", "running", "queued", "done"}
    /\ inst \in 0..1
    /\ proxy \in {"up", "exit", "killed"}
    /\ request \in Requests /\ response \in Responses
    /\ reqSent \in Units(request) /\ resSent \in Units(response)
    /\ cnet \in Seq(Units(request)) /\ onet \in Seq(Units(response))
    /\ cpeer \in Peer /\ opeer \in Peer
    /\ gotO \in Seq(Units(request)) /\ gotC \in Seq(Units(response))
    /\ [cap |-> cap, faults |-> faults] \in Surroundings

\* listen_read_handler and client_new.  request_complete is not initialised.
Init ==
    /\ \E s \in Surroundings : cap = s.cap /\ faults = s.faults
    /\ state = "NO_ORIGIN"
    /\ request_complete \in BOOLEAN
    /\ reqState = "SEARCH" /\ resState = "PARSING"
    /\ preReq = NewQueue(cap) /\ postReq = NewQueue(cap)
    /\ preRes = NewQueue(cap) /\ postRes = NewQueue(cap)
    /\ origin_fd = NoFd
    /\ resolved = FALSE /\ freed = FALSE
    /\ sel = selector_register(selector_new, client_fd, "client", OP_READ, Cl)
    /\ open = {client_fd}
    /\ slave = {} /\ pc = "select"
    /\ resolver = "none"
    /\ inst = 1
    /\ proxy = "up"
    /\ request \in Requests /\ response \in Responses
    /\ reqSent = 0 /\ resSent = 0
    /\ cnet = <<>> /\ onet = <<>>
    /\ cpeer = "open" /\ opeer = "none"
    /\ gotO = <<>> /\ gotC = <<>>

Registered == ITEM_USED(sel, client_fd)

-----------------------------------------------------------------------------
(* The parsers. *)

Shorter(m, k) == IF m < k THEN m ELSE k

\* Mutation: buffer_write does not look for room.
WrittenUnchecked(b, s) == Filled(b, s)

\* A run of buffer_write calls: what does not fit is dropped.
WrittenAll(b, s) == Filled(b, SubSeq(s, 1, Shorter(b.room, Len(s))))

\* The position of the first unit of s that is one of the given kinds, or the end.
FirstOf(s, m, kinds) ==
    LET hits == {i \in 1..Len(s) : m[s[i]] \in kinds}
    IN  IF hits = {} THEN Len(s) ELSE CHOOSE i \in hits : \A j \in hits : i <= j

\* s with the header the proxy adds after each unit of the given kinds.
WithHeader(s, m, kinds) ==
    LET at == {i \in 1..Len(s) : m[s[i]] \in kinds}
    IN  IF at = {} THEN s
        ELSE LET i == CHOOSE i \in at : \A j \in at : i <= j
             IN  SubSeq(s, 1, i) \o <<0>> \o SubSeq(s, i + 1, Len(s))

\* checkRequest: the units up to the host are consumed and copied, X-LOCALHOST
\* is added after the start line of a request in origin form.
CheckRequest(ps, pre, post) ==
    IF ps = "FINISHED" \/ pre.q = <<>>
    THEN [ps |-> ps, ok |-> TRUE, pre |-> pre, post |-> post]
    ELSE LET k    == FirstOf(pre.q, request, {"host", "bad"})
             last == request[pre.q[k]]
             used == SubSeq(pre.q, 1, k)
         IN  [ps   |-> IF last = "host" THEN "FINISHED" ELSE "SEARCH",
              ok   |-> last # "bad",
              pre  |-> Advanced(pre, k, cap),
              post |-> WrittenAll(post, WithHeader(used, request, {"line"}))]

\* while (readAndWrite(pre, post)): copies up to a byte 0, which is consumed.
Drained(pre, post) ==
    IF pre.q = <<>> THEN [pre |-> pre, post |-> post]
    ELSE LET k    == FirstOf(pre.q, request, {"nul"})
             kept == IF request[pre.q[k]] = "nul" THEN k - 1 ELSE k
         IN  [pre  |-> Advanced(pre, k, cap),
              post |-> WrittenAll(post, SubSeq(pre.q, 1, kept))]

\* checkResponse: consumes up to the end of the response, or all there is, and
\* adds "Connection: close" to the headers.
CheckResponse(pre, post) ==
    LET k    == FirstOf(pre.q, response, {"last", "bare", "bad"})
        last == response[pre.q[k]]
        used == SubSeq(pre.q, 1, k)
    IN  [rs   |-> IF last \in {"last", "bare"} THEN "FINISHED" ELSE "PARSING",
         ok   |-> last # "bad",
         pre  |-> Advanced(pre, k, cap),
         post |-> WrittenAll(post, WithHeader(used, response, {"head", "bare"}))]

-----------------------------------------------------------------------------
(* The kernel's sockets: what read(2) and write(2) do, by the state of the  *)
(* connection.  A peer that closed answers data with a reset; after an      *)
(* error has been reported, writing raises SIGPIPE, which nothing ignores.  *)

Readable(net, peer) == net # <<>> \/ peer \in {"closed", "reset", "broken"}
Writable(peer) == peer \notin {"none", "connecting"}

\* What read(2) returns into a buffer with some room; <<>> at end of file.
ReadUnits(net, room) == SubSeq(net, 1, Shorter(room, Len(net)))
Unread(net, room) == SubSeq(net, Shorter(room, Len(net)) + 1, Len(net))
AfterError(peer) == IF peer = "reset" THEN "broken" ELSE peer

-----------------------------------------------------------------------------
(* Releasing the descriptors. *)

SetInterest(fd, i) == sel' = selector_set_interest(sel, fd, i)

\* Mutation: the origin is left registered when the client is released.
ReleaseClientOnly ==
    /\ sel' = Unregistered(sel, client_fd)
    /\ open' = open \ {client_fd}
    /\ origin_fd' = NoFd
    /\ inst' = inst - 1
    /\ freed' = TRUE

\* Mutation: client_close does not update the metric.
ReleaseClientUncounted ==
    /\ sel' = Unregistered(Unregistered(sel, origin_fd), client_fd)
    /\ open' = open \ {client_fd, origin_fd}
    /\ origin_fd' = NoFd
    /\ freed' = TRUE
    /\ UNCHANGED inst

\* selector_unregister_fd(client_fd) with client_close and client_free_resources.
ReleaseClient ==
    /\ sel' = Unregistered(Unregistered(sel, origin_fd), client_fd)
    /\ open' = open \ {client_fd, origin_fd}
    /\ origin_fd' = NoFd
    /\ inst' = inst - 1
    /\ freed' = TRUE

\* selector_unregister_fd(origin_fd) with remote_close, after the client has been
\* asked to be told when it can be written.
ReleaseOrigin ==
    /\ sel' = selector_set_interest(Unregistered(sel, origin_fd), client_fd, OP_WRITE)
    /\ open' = open \ {origin_fd}
    /\ origin_fd' = NoFd

-----------------------------------------------------------------------------
(* client_read *)

\* No room: stop reading from the client.
ClientReadFull ==
    /\ state \in {"NO_ORIGIN", "SEND_REQ"}
    /\ ~CanWrite(preReq)
    /\ SetInterest(client_fd, OP_NOOP)
    /\ UNCHANGED <<cdtVars, jobVars, open, inst, proxy, uaVars, orVars>>

\* NO_ORIGIN, data or end of file: parse until the host is found, which starts
\* the resolver thread (client_set_host), and copy what is left.
ClientReadParse ==
    LET pre1   == Filled(preReq, ReadUnits(cnet, preReq.room))
        parsed == CheckRequest(reqState, pre1, postReq)
        rest   == Drained(parsed.pre, parsed.post)
        found  == reqState # "FINISHED" /\ parsed.ps = "FINISHED"
    IN  /\ state = "NO_ORIGIN"
        /\ CanWrite(preReq)
        /\ cpeer # "reset"
        /\ cnet' = Unread(cnet, preReq.room)
        /\ reqState' = parsed.ps
        /\ request_complete' = IF reqState = "FINISHED" THEN request_complete ELSE found
        /\ resolver' = IF found THEN "running" ELSE resolver
        /\ \/ /\ ~parsed.ok
              /\ preReq' = parsed.pre /\ postReq' = parsed.post
              /\ ReleaseClient
           \/ /\ parsed.ok
              /\ preReq' = rest.pre /\ postReq' = rest.post
              /\ UNCHANGED <<sel, open, origin_fd, inst, freed>>
        /\ UNCHANGED <<state, resState, preRes, postRes, resolved, proxy,
                       request, reqSent, cpeer, gotC, orVars>>

\* NO_ORIGIN, read error: the client is released, and then the handler goes on
\* with the buffers it has just freed.
ClientReadError ==
    LET rest == Drained(preReq, postReq)
    IN  /\ state = "NO_ORIGIN"
        /\ CanWrite(preReq)
        /\ cpeer = "reset"
        /\ cpeer' = AfterError(cpeer)
        /\ ReleaseClient
        /\ preReq' = rest.pre /\ postReq' = rest.post
        /\ request_complete' = IF reqState = "FINISHED" THEN request_complete ELSE FALSE
        /\ UNCHANGED <<state, reqState, resState, preRes, postRes, jobVars, proxy,
                       request, reqSent, cnet, gotC, orVars>>

\* SEND_REQ: whatever read(2) returned, copy it.  Then the state becomes the
\* error code of the request parser, which is OK, that is NO_ORIGIN.
ClientReadMore ==
    LET pre1 == Filled(preReq, ReadUnits(cnet, preReq.room))
        rest == Drained(pre1, postReq)
    IN  /\ state = "SEND_REQ"
        /\ CanWrite(preReq)
        /\ cnet' = Unread(cnet, preReq.room)
        /\ cpeer' = AfterError(cpeer)
        /\ preReq' = rest.pre /\ postReq' = rest.post
        /\ request_complete' = TRUE
        /\ state' = "NO_ORIGIN"
        /\ SetInterest(origin_fd, OP_WRITE)
        /\ UNCHANGED <<reqState, resState, preRes, postRes, origin_fd, freed, jobVars,
                       open, inst, proxy, request, reqSent, gotC, orVars>>

ClientReadIgnored ==
    /\ state \in {"READ_RESP", "CLI_ERROR"}
    /\ UNCHANGED <<cdtVars, jobVars, procVars, uaVars, orVars>>

client_read ==
    \/ ClientReadFull \/ ClientReadParse \/ ClientReadError
    \/ ClientReadMore \/ ClientReadIgnored

-----------------------------------------------------------------------------
(* client_write *)

\* Mutation: a partial write does not advance the buffer.
ClientWriteRepeats ==
    /\ state = "READ_RESP"
    /\ CanRead(postRes)
    /\ cpeer = "open"
    /\ \E k \in 1..Len(postRes.q) :
          /\ postRes' = IF k < Len(postRes.q) THEN postRes ELSE Advanced(postRes, k, cap)
          /\ gotC' = gotC \o SubSeq(postRes.q, 1, k)
    /\ SetInterest(origin_fd, OP_READ)
    /\ UNCHANGED <<state, request_complete, reqState, resState, preReq, postReq, preRes,
                   origin_fd, freed, jobVars, open, inst, proxy,
                   request, reqSent, cnet, cpeer, orVars>>

\* write(2) on the client's socket takes k units of the response.
ClientWriteSome ==
    /\ state = "READ_RESP"
    /\ CanRead(postRes)
    /\ cpeer \in {"open", "closed"}
    /\ \E k \in 1..Len(postRes.q) :
          /\ postRes' = Advanced(postRes, k, cap)
          /\ gotC' = IF cpeer = "open" THEN gotC \o SubSeq(postRes.q, 1, k) ELSE gotC
    /\ cpeer' = IF cpeer = "closed" THEN "broken" ELSE cpeer
    /\ SetInterest(origin_fd, OP_READ)
    /\ UNCHANGED <<state, request_complete, reqState, resState, preReq, postReq, preRes,
                   origin_fd, freed, jobVars, open, inst, proxy,
                   request, reqSent, cnet, orVars>>

ClientWriteError ==
    /\ state = "READ_RESP"
    /\ CanRead(postRes)
    /\ cpeer = "reset"
    /\ cpeer' = AfterError(cpeer)
    /\ ReleaseClient
    /\ UNCHANGED <<state, request_complete, reqState, resState, bufVars, jobVars,
                   proxy, request, reqSent, cnet, gotC, orVars>>

ClientWriteSigpipe ==
    /\ state = "READ_RESP"
    /\ CanRead(postRes)
    /\ cpeer = "broken"
    /\ proxy' = "killed"
    /\ UNCHANGED <<cdtVars, jobVars, sel, open, inst, uaVars, orVars>>

\* Mutation: the client is released as soon as the response is finished.
ClientWriteFinishedEarly ==
    /\ state = "READ_RESP"
    /\ resState = "FINISHED" \/ (~CanRead(postRes) /\ origin_fd = NoFd)
    /\ ReleaseClient
    /\ UNCHANGED <<state, request_complete, reqState, resState, bufVars, jobVars,
                   proxy, uaVars, orVars>>

\* Everything has been sent and the origin is gone: the connection is finished.
ClientWriteFinished ==
    /\ state = "READ_RESP"
    /\ ~CanRead(postRes)
    /\ origin_fd = NoFd
    /\ ReleaseClient
    /\ UNCHANGED <<state, request_complete, reqState, resState, bufVars, jobVars,
                   proxy, uaVars, orVars>>

ClientWriteIgnored ==
    /\ state # "READ_RESP" \/ (~CanRead(postRes) /\ origin_fd # NoFd)
    /\ UNCHANGED <<cdtVars, jobVars, procVars, uaVars, orVars>>

client_write ==
    \/ ClientWriteSome \/ ClientWriteError \/ ClientWriteSigpipe
    \/ ClientWriteFinished \/ ClientWriteIgnored

-----------------------------------------------------------------------------
(* client_block: the resolver thread has reported. *)

BlockUnresolved ==
    /\ ~resolved
    /\ ReleaseClient
    /\ UNCHANGED <<state, request_complete, reqState, resState, bufVars, proxy,
                   uaVars, orVars>>

BlockNoSocket ==
    /\ resolved /\ "no_socket" \in faults
    /\ state' = "CLI_ERROR"
    /\ UNCHANGED <<request_complete, reqState, resState, bufVars, origin_fd, freed,
                   procVars, uaVars, orVars>>

\* The usual case, EINPROGRESS: the origin is registered for writing.
BlockConnecting ==
    /\ resolved
    /\ state' = "SEND_REQ"
    /\ \E fd \in OriginFds :
          /\ origin_fd' = fd
          /\ open' = open \cup {fd}
          /\ sel' = selector_register(selector_set_interest(sel, client_fd, OP_NOOP),
                                      fd, "remote", OP_WRITE, Cl)
    /\ opeer' = "connecting"
    /\ UNCHANGED <<request_complete, reqState, resState, bufVars, freed, inst, proxy,
                   uaVars, response, resSent, onet, gotO>>

\* connect(2) succeeds or fails at once: the origin is not registered.
BlockConnected ==
    /\ resolved
    /\ state' = "SEND_REQ"
    /\ \E fd \in OriginFds : origin_fd' = fd /\ open' = open \cup {fd}
    /\ \/ "connect_now" \in faults /\ opeer' = "open"
       \/ "connect_error" \in faults /\ opeer' = "none"
    /\ UNCHANGED <<request_complete, reqState, resState, bufVars, freed, sel, inst, proxy,
                   uaVars, response, resSent, onet, gotO>>

client_block == BlockUnresolved \/ BlockNoSocket \/ BlockConnecting \/ BlockConnected

-----------------------------------------------------------------------------
(* remote_write *)

\* write(2) on the origin's socket takes k units of the request.
RemoteWriteSome ==
    /\ state = "SEND_REQ"
    /\ CanRead(postReq)
    /\ opeer \in {"open", "closed"}
    /\ \E k \in 1..Len(postReq.q) :
          /\ postReq' = Advanced(postReq, k, cap)
          /\ gotO' = IF opeer = "open" THEN gotO \o SubSeq(postReq.q, 1, k) ELSE gotO
    /\ opeer' = IF opeer = "closed" THEN "broken" ELSE opeer
    /\ SetInterest(client_fd, OP_READ)
    /\ UNCHANGED <<state, request_complete, reqState, resState, preReq, preRes, postRes,
                   origin_fd, freed, jobVars, open, inst, proxy,
                   uaVars, response, resSent, onet>>

RemoteWriteError ==
    /\ state = "SEND_REQ"
    /\ CanRead(postReq)
    /\ opeer = "reset"
    /\ opeer' = AfterError(opeer)
    /\ ReleaseOrigin
    /\ UNCHANGED <<state, request_complete, reqState, resState, bufVars, freed, jobVars,
                   inst, proxy, uaVars, response, resSent, onet, gotO>>

RemoteWriteSigpipe ==
    /\ state = "SEND_REQ"
    /\ CanRead(postReq)
    /\ opeer = "broken"
    /\ proxy' = "killed"
    /\ UNCHANGED <<cdtVars, jobVars, sel, open, inst, uaVars, orVars>>

\* Mutation: reading the response starts while part of the request is buffered.
RemoteWriteDoneEarly ==
    /\ state = "SEND_REQ"
    /\ state' = "READ_RESP" /\ SetInterest(origin_fd, OP_READ)
    /\ UNCHANGED <<request_complete, reqState, resState, bufVars, origin_fd, freed, jobVars,
                   open, inst, proxy, uaVars, orVars>>

\* Mutation: the origin is not asked for its answer.
RemoteWriteDoneNoRead ==
    /\ state = "SEND_REQ"
    /\ ~CanRead(postReq)
    /\ IF request_complete
       THEN state' = "READ_RESP" /\ UNCHANGED sel
       ELSE SetInterest(origin_fd, OP_NOOP) /\ UNCHANGED state
    /\ UNCHANGED <<request_complete, reqState, resState, bufVars, origin_fd, freed, jobVars,
                   open, inst, proxy, uaVars, orVars>>

\* The buffer is empty: read the response if the request is complete, otherwise
\* stop writing.
RemoteWriteDone ==
    /\ state = "SEND_REQ"
    /\ ~CanRead(postReq)
    /\ IF request_complete
       THEN state' = "READ_RESP" /\ SetInterest(origin_fd, OP_READ)
       ELSE SetInterest(origin_fd, OP_NOOP) /\ UNCHANGED state
    /\ UNCHANGED <<request_complete, reqState, resState, bufVars, origin_fd, freed, jobVars,
                   open, inst, proxy, uaVars, orVars>>

RemoteWriteIgnored ==
    /\ state # "SEND_REQ"
    /\ UNCHANGED <<cdtVars, jobVars, procVars, uaVars, orVars>>

remote_write ==
    \/ RemoteWriteSome \/ RemoteWriteError \/ RemoteWriteSigpipe
    \/ RemoteWriteDone \/ RemoteWriteIgnored

-----------------------------------------------------------------------------
(* remote_read *)

\* Data: parse it into the client's buffer.  A response the parser rejects ends
\* the process with exit(42); a finished one releases the origin.
RemoteReadParse ==
    LET pre1   == Filled(preRes, ReadUnits(onet, preRes.room))
        parsed == CheckResponse(pre1, postRes)
    IN  /\ state = "READ_RESP"
        /\ CanWrite(preRes)
        /\ onet # <<>>
        /\ onet' = Unread(onet, preRes.room)
        /\ preRes' = parsed.pre /\ postRes' = parsed.post
        /\ resState' = parsed.rs
        /\ \/ /\ ~parsed.ok
              /\ proxy' = "exit"
              /\ UNCHANGED <<sel, open, origin_fd>>
           \/ /\ parsed.ok /\ parsed.rs = "FINISHED"
              /\ ReleaseOrigin
              /\ UNCHANGED proxy
           \/ /\ parsed.ok /\ parsed.rs # "FINISHED"
              /\ SetInterest(client_fd, OP_WRITE)
              /\ UNCHANGED <<open, origin_fd, proxy>>
        /\ UNCHANGED <<state, request_complete, reqState, preReq, postReq, freed, jobVars,
                       inst, uaVars, response, resSent, opeer, gotO>>

\* Mutation: a read error on the origin releases it, and the client is not told.
RemoteReadErrorSilent ==
    /\ state = "READ_RESP"
    /\ CanWrite(preRes)
    /\ onet = <<>> /\ opeer = "reset"
    /\ opeer' = AfterError(opeer)
    /\ sel' = Unregistered(sel, origin_fd)
    /\ open' = open \ {origin_fd}
    /\ origin_fd' = NoFd
    /\ UNCHANGED <<state, request_complete, reqState, resState, bufVars, freed, jobVars,
                   inst, proxy, uaVars, response, resSent, onet, gotO>>

RemoteReadError ==
    /\ state = "READ_RESP"
    /\ CanWrite(preRes)
    /\ onet = <<>> /\ opeer = "reset"
    /\ opeer' = AfterError(opeer)
    /\ ReleaseOrigin
    /\ UNCHANGED <<state, request_complete, reqState, resState, bufVars, freed, jobVars,
                   inst, proxy, uaVars, response, resSent, onet, gotO>>

\* End of file: nothing is done, and the origin stays registered for reading.
\* The same in any other state.  With no room, stop reading from the origin.
RemoteReadNothing ==
    /\ state # "READ_RESP" \/ ~CanWrite(preRes) \/ (onet = <<>> /\ opeer # "reset")
    /\ sel' = IF state = "READ_RESP" /\ ~CanWrite(preRes)
              THEN selector_set_interest(sel, origin_fd, OP_NOOP)
              ELSE sel
    /\ UNCHANGED <<cdtVars, jobVars, open, inst, proxy, uaVars, orVars>>

remote_read == RemoteReadParse \/ RemoteReadError \/ RemoteReadNothing

-----------------------------------------------------------------------------
(* The main thread: one turn of selector_select.  Selector.tla has its      *)
(* details; here the steps that matter to one connection are kept.          *)

SocketReady(fd, op) ==
    LET net  == IF fd = client_fd THEN cnet ELSE onet
        peer == IF fd = client_fd THEN cpeer ELSE opeer
    IN  IF op = "read" THEN Readable(net, peer) ELSE Writable(peer)

ReadySet ==
    {fdop \in (sel.master_r \X {"read"}) \cup (sel.master_w \X {"write"}) :
        SocketReady(fdop[1], fdop[2])}

Select ==
    /\ pc = "select"
    /\ ReadySet # {}
    /\ slave' = ReadySet
    /\ pc' = "iterate"
    /\ UNCHANGED <<cdtVars, jobVars, procVars, uaVars, orVars>>

\* The resolver's signal interrupts pselect.
Interrupted ==
    /\ pc = "select"
    /\ resolver = "queued"
    /\ pc' = "notify"
    /\ UNCHANGED <<cdtVars, jobVars, procVars, slave, uaVars, orVars>>

\* handle_iteration goes up the descriptors and reads before it writes.
Before(x, y) == x[1] < y[1] \/ (x[1] = y[1] /\ x[2] = "read" /\ y[2] = "write")

Due(fd, op) == ITEM_USED(sel, fd) /\ op \in sel.fds[fd].interest

Handler(fd, op) ==
    \/ fd = client_fd /\ op = "read"  /\ client_read
    \/ fd = client_fd /\ op = "write" /\ client_write
    \/ fd # client_fd /\ op = "read"  /\ remote_read
    \/ fd # client_fd /\ op = "write" /\ remote_write

Dispatch ==
    /\ pc = "iterate"
    /\ \E x \in slave :
          /\ \A y \in slave \ {x} : Before(x, y)
          /\ slave' = slave \ {x}
          /\ pc' = IF slave = {x} THEN "notify" ELSE "iterate"
          /\ \/ Due(x[1], x[2]) /\ Handler(x[1], x[2])
             \/ ~Due(x[1], x[2]) /\ UNCHANGED <<cdtVars, jobVars, procVars, uaVars, orVars>>

\* Mutation: the result is handed over whether its descriptor is used or not.
NotifyUnchecked ==
    /\ pc = "notify"
    /\ pc' = "select"
    /\ UNCHANGED slave
    /\ \/ /\ resolver = "queued"
          /\ resolver' = "done" /\ UNCHANGED resolved
          /\ client_block
       \/ /\ resolver # "queued"
          /\ UNCHANGED <<jobVars, cdtVars, procVars, uaVars, orVars>>

\* handle_block_notifications
Notify ==
    /\ pc = "notify"
    /\ pc' = "select"
    /\ UNCHANGED slave
    /\ \/ /\ resolver = "queued" /\ Registered
          /\ resolver' = "done" /\ UNCHANGED resolved
          /\ client_block
       \/ /\ resolver = "queued" /\ ~Registered
          /\ resolver' = "done"
          /\ UNCHANGED <<resolved, cdtVars, procVars, uaVars, orVars>>
       \/ /\ resolver # "queued"
          /\ UNCHANGED <<jobVars, cdtVars, procVars, uaVars, orVars>>

-----------------------------------------------------------------------------
(* The resolver thread, the user agent and the origin. *)

\* request_resolv_blocking: getaddrinfo returned, selector_notify_block.
ResolverReports ==
    /\ proxy = "up"
    /\ resolver = "running"
    /\ resolver' = "queued"
    /\ resolved' \in {TRUE} \cup {r \in {FALSE} : "unresolved" \in faults}
    /\ UNCHANGED <<given, cdtVars, procVars, loopVars, uaVars, orVars>>

ClientOpen == proxy = "up" /\ cpeer = "open" /\ client_fd \in open
OriginOpen == proxy = "up" /\ opeer = "open" /\ origin_fd # NoFd

\* The user agent sends its request at once, or a unit at a time.
UaSends ==
    /\ ClientOpen
    /\ reqSent < Len(request)
    /\ reqSent' = IF "segments" \in faults THEN reqSent + 1 ELSE Len(request)
    /\ cnet' = cnet \o [i \in 1..(reqSent' - reqSent) |-> reqSent + i]
    /\ UNCHANGED <<given, cdtVars, procVars, loopVars, jobVars, request, cpeer, gotC, orVars>>

UaCloses ==
    /\ ClientOpen /\ "client_close" \in faults
    /\ cpeer' = "closed"
    /\ UNCHANGED <<given, cdtVars, procVars, loopVars, jobVars, request, reqSent, cnet, gotC, orVars>>

UaResets ==
    /\ ClientOpen /\ "client_reset" \in faults
    /\ cpeer' = "reset" /\ cnet' = <<>>
    /\ UNCHANGED <<given, cdtVars, procVars, loopVars, jobVars, request, reqSent, gotC, orVars>>

OriginAccepts ==
    /\ proxy = "up" /\ opeer = "connecting" /\ origin_fd # NoFd
    /\ opeer' \in {"open"} \cup {p \in {"reset"} : "refused" \in faults}
    /\ UNCHANGED <<given, cdtVars, procVars, loopVars, jobVars, uaVars, response, resSent, onet, gotO>>

\* The origin answers a unit at a time once it has received something.
OriginSends ==
    /\ OriginOpen
    /\ gotO # <<>>
    /\ resSent < Len(response)
    /\ resSent' = resSent + 1
    /\ onet' = Append(onet, resSent + 1)
    /\ UNCHANGED <<given, cdtVars, procVars, loopVars, jobVars, uaVars, response, opeer, gotO>>

\* It may close once it has sent all it had to send.
OriginCloses ==
    /\ OriginOpen /\ "origin_close" \in faults
    /\ resSent = Len(response)
    /\ opeer' = "closed"
    /\ UNCHANGED <<given, cdtVars, procVars, loopVars, jobVars, uaVars, response, resSent, onet, gotO>>

OriginResets ==
    /\ OriginOpen /\ "origin_reset" \in faults
    /\ opeer' = "reset" /\ onet' = <<>>
    /\ UNCHANGED <<given, cdtVars, procVars, loopVars, jobVars, uaVars, response, resSent, gotO>>

MainStep ==
    /\ proxy = "up"
    /\ Select \/ Interrupted \/ Dispatch \/ Notify
    /\ UNCHANGED given

\* The connection has been released, or the process has ended.
Ended == ~Registered \/ proxy # "up"

Next ==
    \/ MainStep
    \/ ResolverReports
    \/ UaSends \/ UaCloses \/ UaResets
    \/ OriginAccepts \/ OriginSends \/ OriginCloses \/ OriginResets
    \/ Ended /\ UNCHANGED vars

\* The main thread and the resolver run; the peers do what they still have to
\* do, and an origin that closes at the end of its response does close.
Fairness ==
    /\ WF_vars(MainStep)
    /\ WF_vars(ResolverReports)
    /\ WF_vars(UaSends)
    /\ WF_vars(OriginAccepts)
    /\ WF_vars(OriginSends)
    /\ WF_vars(OriginCloses)

Spec == Init /\ [][Next]_vars /\ Fairness

-----------------------------------------------------------------------------
(* Safety. *)

\* Every registered descriptor is open and is one the client still knows, so
\* that pselect never waits on a closed one; and when the client is released
\* neither its socket nor its origin's stays open or registered, whichever of the
\* handlers released it and in whatever state.
DescriptorsMatch ==
    /\ \A fd \in FD : ITEM_USED(sel, fd) => fd \in open \cap {client_fd, origin_fd}
    /\ open \subseteq {client_fd, origin_fd}
    /\ ~Registered => open = {} /\ origin_fd = NoFd

\* client_close runs exactly once for a connection, although client_read may ask
\* for it twice: the metric of concurrent connections counts the registered ones.
InstCountsRegistered == inst = IF Registered THEN 1 ELSE 0

\* The units of s that a peer sent, without the headers the proxy added, are in
\* the order in which it sent them and none is there twice.
Ordered(s) == \A i, j \in DOMAIN s : i < j /\ s[i] # 0 /\ s[j] # 0 => s[i] < s[j]

\* What is in flight between the two sockets never gets out of order and no part
\* of it is duplicated, through partial reads and writes, buffers that fill up,
\* parsing and the copy that follows it.  (Parts may be missing, see below.)
InOrder ==
    /\ Ordered(gotO \o postReq.q \o preReq.q \o cnet)
    /\ Ordered(gotC \o postRes.q \o preRes.q \o onet)

\* The response is only read once the buffered request has been handed to the
\* origin, and the decision to start reading it never rests on the value that
\* client_new left uninitialised in request_complete.
RequestBeforeResponse ==
    /\ state \in {"SEND_REQ", "READ_RESP"} => request_complete /\ reqState = "FINISHED"
    /\ state = "READ_RESP" => ~CanRead(postReq)

\* No wake-up is lost: whenever the next step of a connection is to write to a
\* peer or to read the response, the descriptor it needs is registered with that
\* interest, although interests are set by the handlers of the other descriptor.
NextStepIsWatched ==
    Registered /\ proxy = "up" =>
      /\ state = "READ_RESP" /\ (CanRead(postRes) \/ origin_fd = NoFd)
            => client_fd \in sel.master_w
      /\ state = "READ_RESP" /\ origin_fd # NoFd => origin_fd \in sel.master_r
      /\ state = "SEND_REQ" /\ origin_fd # NoFd /\ ITEM_USED(sel, origin_fd)
            => origin_fd \in sel.master_w

\* A request or a response as the proxy should pass it on.
Whole(m) == [i \in 1..Len(m) |-> i]
ForwardedRequest == WithHeader(Whole(request), request, {"line"})
ForwardedResponse == WithHeader(Whole(response), response, {"head", "bare"})

\* Peers that behave: both messages are whole, without a byte 0 in the request,
\* the response says where it ends, and each fits in a buffer with the header the
\* proxy adds to it.
WellBehaved ==
    /\ faults \subseteq {"unresolved"}
    /\ \A i \in 1..Len(request) : request[i] # "nul"
    /\ \A i \in 1..Len(response) : response[i] # "bad"
    /\ response # <<>> /\ response[Len(response)] \in {"last", "bare"}
    /\ Len(ForwardedRequest) <= cap /\ Len(ForwardedResponse) <= cap

\* With peers that behave, when a connection to the origin was made, the client
\* is released only after the origin received the whole request and the user
\* agent the whole response, each with the header the proxy adds.
DeliveredBeforeRelease ==
    WellBehaved /\ ~Registered /\ resolved =>
        gotO = ForwardedRequest /\ gotC = ForwardedResponse

\* A released client stays as it was left: readiness found before the release,
\* the other descriptor's handler and a resolver thread that reports late never
\* make a handler use its freed buffers, open an origin for it or release it again.
ReleasedIsLeftAlone ==
    [][freed => UNCHANGED <<cdtVars, sel, open, inst>>]_vars

-----------------------------------------------------------------------------
(* Liveness. *)

\* With peers that behave, every connection is released in the end: answered,
\* or rejected by the request parser, or its name not resolved.
Released == WellBehaved => <>(~Registered)

-----------------------------------------------------------------------------
(* What the documents say and the code does not do. *)

\* docs/client.md: "NO_ORIGIN: Cuando aun no se realizo la conexion al origin".
NoOriginMeansNone == state = "NO_ORIGIN" => origin_fd = NoFd

\* responseParser.c: "Caso en que no tengo ni length o chunked. Corto por cierre
\* de conexion": a response that its origin ends by closing is finished then.
OriginCloseEnds == opeer = "closed" ~> ~Registered

=============================================================================
