---------------------------- MODULE ClientProofs ----------------------------
(***************************************************************************)
(* For every request, response, size of the buffers and combination of     *)
(* faults, and whatever the order in which the handlers, the resolver      *)
(* thread and the peers take their steps, a connection keeps its           *)
(* descriptors, its buffers and the selector's table in step.              *)
(***************************************************************************)
EXTENDS ClientDataProofs

-----------------------------------------------------------------------------
(* The inductive invariant. *)

\* What the connection does not change.
Given ==
    /\ request \in Requests /\ response \in Responses
    /\ [cap |-> cap, faults |-> faults] \in Surroundings

\* The types of what the other parts say nothing of.
Types ==
    /\ resState \in {"PARSING", "FINISHED"}
    /\ QueueType(preReq, request) /\ QueueType(postReq, request)
    /\ QueueType(preRes, response) /\ QueueType(postRes, response)
    /\ resolved \in BOOLEAN /\ proxy \in {"up", "exit", "killed"}
    /\ reqSent \in Units(request) /\ resSent \in Units(response)
    /\ cnet \in Seq(Units(request)) /\ onet \in Seq(Units(response))
    /\ cpeer \in Peer /\ opeer \in Peer
    /\ gotO \in Seq(Units(request)) /\ gotC \in Seq(Units(response))

Loop == slave \subseteq (FD \X {"read", "write"}) /\ pc \in {"select", "iterate", "notify"}

\* The table, the sockets and the record of the client agree: which sockets are
\* open is a matter of what client_close and remote_close have released.
Table ==
    /\ SelectorType(sel, {Cl}) /\ Consistent(sel)
    /\ origin_fd \in OriginFds \cup {NoFd}
    /\ freed \in BOOLEAN
    /\ Registered <=> ~freed
    /\ open = IF freed THEN {} ELSE {client_fd, origin_fd} \ {NoFd}
    /\ \A fd \in FD : ITEM_USED(sel, fd) => fd \in open
    /\ freed => origin_fd = NoFd
    /\ inst = IF freed THEN 0 ELSE 1

\* The resolver thread is started when the request parser finishes, once, and
\* the connection leaves NO_ORIGIN only when the thread has reported.
Job ==
    /\ state \in {"NO_ORIGIN", "SEND_REQ", "READ_RESP", "CLI_ERROR"}
    /\ request_complete \in BOOLEAN
    /\ reqState \in {"SEARCH", "FINISHED"}
    /\ resolver \in {"none", "running", "queued", "done"}
    /\ reqState = "FINISHED" <=> resolver # "none"
    /\ resolver # "none" => request_complete /\ cap > 0
    /\ resolver # "done" => state = "NO_ORIGIN" /\ origin_fd = NoFd

\* What a state says of the buffers and of the interests: the response's buffers
\* are empty before it is read and the request's is empty from then on, and as
\* long as there is an origin to read from there is space to read into.
Watch ==
    /\ state = "READ_RESP" => postReq.q = <<>>
    /\ state # "READ_RESP" => postRes.q = <<>>
    /\ proxy = "up" /\ (resolver # "done" \/ origin_fd # NoFd) => preRes.room = cap
    /\ proxy = "up" /\ ~freed =>
          /\ state = "READ_RESP" /\ (postRes.q # <<>> \/ origin_fd = NoFd)
                => "write" \in sel.fds[client_fd].interest
          /\ state = "READ_RESP" /\ origin_fd # NoFd => Due(origin_fd, "read")
          /\ state = "SEND_REQ" /\ origin_fd # NoFd /\ ITEM_USED(sel, origin_fd)
                => "write" \in sel.fds[origin_fd].interest

Flows ==
    /\ Flow(gotO, postReq.q, preReq.q, cnet, reqSent)
    /\ Flow(gotC, postRes.q, preRes.q, onet, resSent)

Core == Given /\ Types /\ Table /\ Job /\ Watch /\ Flows

Inv == Core /\ Loop

\* The descriptors are different and within the table.
LEMMA Fds ==
    /\ client_fd \in FD /\ OriginFds \subseteq FD /\ NoFd \notin FD
    /\ client_fd \notin OriginFds /\ NoFd \notin OriginFds /\ client_fd # NoFd
BY ClientAssumption, SelectorAssumption DEF client_fd, OriginFds, NoFd, FD

\* The numbers a connection is given.
LEMMA Sizes ==
    ASSUME Given
    PROVE  cap \in Nat /\ Len(request) \in Nat /\ Len(response) \in Nat
<1>1. [cap |-> cap, faults |-> faults] \in [cap : Nat, faults : SUBSET AllFaults]
  BY ClientAssumption DEF Given
<1>2. cap \in Nat
  BY <1>1
<1>3. request \in Seq(RequestUnits) /\ response \in Seq(ResponseUnits)
  BY ClientAssumption DEF Given
<1>4. QED BY <1>2, <1>3, LenProperties

\* The interests the handlers set.
LEMMA Ops ==
    /\ OP_NOOP \in Interest /\ OP_READ \in Interest /\ OP_WRITE \in Interest
    /\ "read" \in OP_READ /\ "write" \in OP_WRITE
BY DEF OP_NOOP, OP_READ, OP_WRITE, Interest

\* The invariant is strong enough: types.
LEMMA CoreTypes == Inv => TypeOK
BY DEF Inv, Core, Given, Types, Table, Job, Loop, TypeOK, OriginFds, client_fd, NoFd

-----------------------------------------------------------------------------
(* What the operations on the table do to it. *)

\* selector_set_interest.
LEMMA InterestTable ==
    ASSUME Table, NEW fd, NEW i \in Interest, SetInterest(fd, i),
           UNCHANGED <<open, origin_fd, freed, inst>>
    PROVE  /\ Table'
           /\ \A g \in FD : /\ ITEM_USED(sel', g) <=> ITEM_USED(sel, g)
                            /\ sel'.fds[g].interest = IF g = fd /\ ITEM_USED(sel, fd) THEN i
                                                      ELSE sel.fds[g].interest
<1>1. /\ SelectorType(sel', {Cl}) /\ Consistent(sel')
      /\ \A g \in FD : /\ ITEM_USED(sel', g) <=> ITEM_USED(sel, g)
                       /\ sel'.fds[g].interest = IF g = fd /\ ITEM_USED(sel, fd) THEN i
                                                 ELSE sel.fds[g].interest
  BY SetInterestTable DEF Table, SetInterest
<1>2. Registered' <=> Registered
  BY <1>1, Fds DEF Registered
<1>3. QED BY <1>1, <1>2 DEF Table

\* client_close: nothing stays registered nor open.
LEMMA ReleaseClientTable ==
    ASSUME Table, ~freed, ReleaseClient
    PROVE  Table' /\ freed' /\ origin_fd' = NoFd
<1> DEFINE mid == Unregistered(sel, origin_fd)
<1>1. /\ SelectorType(mid, {Cl}) /\ Consistent(mid)
      /\ \A g \in FD : ITEM_USED(mid, g) <=> ITEM_USED(sel, g) /\ g # origin_fd
  BY UnregisterTable DEF Table
<1>2. sel' = Unregistered(mid, client_fd)
  BY DEF ReleaseClient
<1> HIDE DEF mid
<1>3. /\ SelectorType(sel', {Cl}) /\ Consistent(sel')
      /\ \A g \in FD : ITEM_USED(sel', g) <=> ITEM_USED(mid, g) /\ g # client_fd
  BY <1>1, <1>2, UnregisterTable
<1>4. \A g \in FD : ~ITEM_USED(sel', g)
  BY <1>1, <1>3 DEF Table
<1>5. freed' = TRUE /\ origin_fd' = NoFd /\ inst' = 0 /\ open' = {}
  BY DEF ReleaseClient, Table
<1>6. ~Registered'
  BY <1>4, Fds DEF Registered
<1>7. QED BY <1>3, <1>4, <1>5, <1>6 DEF Table

\* remote_close: the client stays, and is asked to be told when it can be written.
LEMMA ReleaseOriginTable ==
    ASSUME Table, ~freed, ReleaseOrigin, UNCHANGED <<freed, inst>>
    PROVE  /\ Table' /\ origin_fd' = NoFd /\ ~freed'
           /\ "write" \in sel'.fds[client_fd].interest
<1> DEFINE mid == Unregistered(sel, origin_fd)
<1>1. /\ SelectorType(mid, {Cl}) /\ Consistent(mid)
      /\ \A g \in FD : ITEM_USED(mid, g) <=> ITEM_USED(sel, g) /\ g # origin_fd
  BY UnregisterTable DEF Table
<1>2. sel' = selector_set_interest(mid, client_fd, OP_WRITE)
  BY DEF ReleaseOrigin
<1> HIDE DEF mid
<1>3. /\ SelectorType(sel', {Cl}) /\ Consistent(sel')
      /\ \A g \in FD : /\ ITEM_USED(sel', g) <=> ITEM_USED(mid, g)
                       /\ sel'.fds[g].interest = IF g = client_fd /\ ITEM_USED(mid, client_fd)
                                                 THEN OP_WRITE ELSE mid.fds[g].interest
  BY <1>1, <1>2, Ops, SetInterestTable
<1>4. \A g \in FD : ITEM_USED(sel', g) <=> ITEM_USED(sel, g) /\ g # origin_fd
  BY <1>1, <1>3
<1>5. client_fd # origin_fd
  BY Fds DEF Table
<1>6. Registered' /\ ITEM_USED(mid, client_fd)
  BY <1>1, <1>4, <1>5, Fds DEF Registered, Table
<1>7. origin_fd' = NoFd /\ freed' = FALSE /\ inst' = 1 /\ open' = {client_fd}
  BY <1>5, Fds DEF ReleaseOrigin, Table
<1>8. \A fd \in FD : ITEM_USED(sel', fd) => fd \in open'
  BY <1>4, <1>7 DEF Table
<1>9. {client_fd, origin_fd'} \ {NoFd} = {client_fd}
  BY <1>7, Fds
<1>10. Table'
  BY <1>3, <1>6, <1>7, <1>8, <1>9 DEF Table
<1>11. QED BY <1>3, <1>6, <1>7, <1>10, Fds, Ops

\* client_block registers the new origin for writing.
LEMMA ConnectingTable ==
    ASSUME Table, ~freed, origin_fd = NoFd, NEW fd \in OriginFds,
           origin_fd' = fd, open' = open \cup {fd},
           sel' = selector_register(selector_set_interest(sel, client_fd, OP_NOOP),
                                    fd, "remote", OP_WRITE, Cl),
           UNCHANGED <<freed, inst>>
    PROVE  Table' /\ "write" \in sel'.fds[origin_fd'].interest
<1> DEFINE mid == selector_set_interest(sel, client_fd, OP_NOOP)
<1>1. /\ SelectorType(mid, {Cl}) /\ Consistent(mid)
      /\ \A g \in FD : ITEM_USED(mid, g) <=> ITEM_USED(sel, g)
  BY Ops, SetInterestTable DEF Table
<1>2. sel' = selector_register(mid, fd, "remote", OP_WRITE, Cl)
  OBVIOUS
<1> HIDE DEF mid
<1>3. open = {client_fd} /\ fd \in FD /\ fd # client_fd /\ fd # NoFd
  BY Fds DEF Table
<1>4. ~ITEM_USED(mid, fd)
  BY <1>1, <1>3 DEF Table
<1>5. "remote" \in Handlers /\ Cl \in {Cl} \cup {NoData}
  BY DEF Handlers
<1>6. /\ SelectorType(sel', {Cl}) /\ Consistent(sel')
      /\ \A g \in FD : g # fd => sel'.fds[g] = mid.fds[g]
      /\ sel'.fds[fd] = [used |-> TRUE, interest |-> OP_WRITE, handler |-> "remote", data |-> Cl]
  BY <1>1, <1>2, <1>3, <1>4, <1>5, Ops, RegisterTable
<1>7. \A g \in FD : ITEM_USED(sel', g) <=> ITEM_USED(sel, g) \/ g = fd
  BY <1>1, <1>3, <1>6 DEF ITEM_USED
<1>8. Registered'
  BY <1>7, Fds DEF Registered, Table
<1>9. open' = {client_fd, origin_fd'} \ {NoFd} /\ origin_fd' \in OriginFds \cup {NoFd}
  BY <1>3, Fds
<1>10. \A g \in FD : ITEM_USED(sel', g) => g \in open'
  BY <1>7 DEF Table
<1>11. sel'.fds[origin_fd'].interest = OP_WRITE
  BY <1>6
<1>12. Table'
  BY <1>6, <1>8, <1>9, <1>10 DEF Table
<1>13. QED BY <1>11, <1>12, Ops

\* connect(2) returns at once: the origin is open and not registered.
LEMMA ConnectedTable ==
    ASSUME Table, ~freed, origin_fd = NoFd, NEW fd \in OriginFds,
           origin_fd' = fd, open' = open \cup {fd}, UNCHANGED <<sel, freed, inst>>
    PROVE  Table' /\ ~ITEM_USED(sel', origin_fd')
<1>1. open = {client_fd} /\ fd \in FD /\ fd # client_fd /\ fd # NoFd
  BY Fds DEF Table
<1>2. ~ITEM_USED(sel, fd)
  BY <1>1 DEF Table
<1>3. open' = {client_fd, origin_fd'} \ {NoFd} /\ origin_fd' \in OriginFds \cup {NoFd}
  BY <1>1, Fds
<1>4. Registered' <=> Registered
  BY DEF Registered
<1>5. QED BY <1>2, <1>3, <1>4 DEF Table

-----------------------------------------------------------------------------
(* The handlers, each called for a client that is registered. *)

Handling == Core /\ ~freed /\ proxy = "up" /\ UNCHANGED given

\* What remains when no unit moves.
LEMMA UnitsKept ==
    ASSUME Core, UNCHANGED <<given, request, response, resState, bufVars, reqSent, resSent>>,
           UNCHANGED <<cnet, onet, gotO, gotC>>,
           resolved' \in BOOLEAN, proxy' \in {"up", "exit", "killed"},
           cpeer' \in Peer, opeer' \in Peer
    PROVE  Given' /\ Types' /\ Flows'
<1>1. Given' /\ Types'
  BY DEF Core, Given, Types, given, bufVars, QueueType, Units
<1>2. Flows'
  BY DEF Core, Flows, bufVars
<1>3. QED BY <1>1, <1>2

\* Reporting an error leaves the connection in one of its states.
LEMMA AfterErrorPeer == ASSUME NEW p \in Peer PROVE AfterError(p) \in Peer
BY DEF AfterError, Peer

\* Nothing changes but where the loop is.
LEMMA KeptStep ==
    ASSUME Core, UNCHANGED <<given, cdtVars, jobVars, procVars, uaVars, orVars>>
    PROVE  Core'
<1>1. Given' /\ Types' /\ Flows'
  BY UnitsKept DEF Core, Types, cdtVars, jobVars, procVars, uaVars, orVars
<1>2. Table'
  BY DEF Core, Table, Registered, cdtVars, procVars
<1>3. Job' /\ Watch'
  BY DEF Core, Job, Watch, Due, cdtVars, procVars, jobVars, bufVars, given
<1>4. QED BY <1>1, <1>2, <1>3 DEF Core

\* client_read, no room: only the interest of the client changes.
LEMMA ClientReadFullStep == ASSUME Handling, ClientReadFull PROVE Core'
<1>0. Core
  BY DEF Handling
<1>1. Given' /\ Types' /\ Flows'
  BY <1>0, UnitsKept DEF Handling, Core, Types, ClientReadFull, cdtVars, jobVars, uaVars, orVars
<1>2. /\ Table'
      /\ \A g \in FD : /\ ITEM_USED(sel', g) <=> ITEM_USED(sel, g)
                       /\ g # client_fd => sel'.fds[g].interest = sel.fds[g].interest
  BY <1>0, Ops, InterestTable DEF Core, ClientReadFull, cdtVars
<1>3. Job'
  BY <1>0 DEF Handling, Core, Job, ClientReadFull, cdtVars, jobVars, given
<1>4. origin_fd' = origin_fd /\ (origin_fd # NoFd => origin_fd \in FD /\ origin_fd # client_fd)
  BY <1>0, Fds DEF Core, Table, ClientReadFull, cdtVars
<1>5. Watch'
  BY <1>0, <1>2, <1>4 DEF Handling, Core, Watch, Due, ClientReadFull, cdtVars, jobVars, bufVars, given
<1>6. QED BY <1>1, <1>2, <1>3, <1>5 DEF Core

\* client_write, a failing write(2): the client is released.
LEMMA ClientWriteErrorStep == ASSUME Handling, ClientWriteError PROVE Core'
<1>0. Core
  BY DEF Handling
<1>1. Given' /\ Types' /\ Flows'
  BY <1>0, UnitsKept, AfterErrorPeer DEF Handling, Core, Types, ClientWriteError, jobVars, orVars
<1>2. Table' /\ freed' /\ origin_fd' = NoFd
  BY <1>0, ReleaseClientTable DEF Handling, Core, ClientWriteError
<1>3. Job' /\ Watch'
  BY <1>0, <1>2 DEF Handling, Core, Job, Watch, ClientWriteError, jobVars, bufVars, given
<1>4. QED BY <1>1, <1>2, <1>3 DEF Core

\* client_write, everything sent: the client is released.
LEMMA ClientWriteFinishedStep == ASSUME Handling, ClientWriteFinished PROVE Core'
<1>0. Core
  BY DEF Handling
<1>1. Given' /\ Types' /\ Flows'
  BY <1>0, UnitsKept DEF Handling, Core, Types, ClientWriteFinished, jobVars, uaVars, orVars
<1>2. Table' /\ freed' /\ origin_fd' = NoFd
  BY <1>0, ReleaseClientTable DEF Handling, Core, ClientWriteFinished
<1>3. Job' /\ Watch'
  BY <1>0, <1>2 DEF Handling, Core, Job, Watch, ClientWriteFinished, jobVars, bufVars, given
<1>4. QED BY <1>1, <1>2, <1>3 DEF Core

\* SIGPIPE ends the process and leaves everything as it is.
LEMMA SigpipeStep ==
    ASSUME Handling, ClientWriteSigpipe \/ RemoteWriteSigpipe
    PROVE  Core'
<1>0. Core
  BY DEF Handling
<1>1. proxy' = "killed" /\ UNCHANGED <<cdtVars, jobVars, sel, open, inst, uaVars, orVars>>
  BY DEF ClientWriteSigpipe, RemoteWriteSigpipe
<1>2. Given' /\ Types' /\ Flows'
  BY <1>0, <1>1, UnitsKept DEF Handling, Core, Types, cdtVars, jobVars, uaVars, orVars
<1>3. Table'
  BY <1>0, <1>1 DEF Core, Table, Registered, cdtVars
<1>4. Job' /\ Watch'
  BY <1>0, <1>1 DEF Handling, Core, Job, Watch, cdtVars, jobVars, bufVars, given
<1>5. QED BY <1>2, <1>3, <1>4 DEF Core

\* client_block, when the thread's report is handed over.
Reported == Handling /\ resolver = "queued" /\ resolver' = "done" /\ UNCHANGED resolved

\* client_block: the client is released, or is left with an origin.
LEMMA BlockStep == ASSUME Reported, client_block PROVE Core'
<1>0. Core /\ Handling
  BY DEF Reported, Handling
<1>1. origin_fd = NoFd /\ state = "NO_ORIGIN" /\ postRes.q = <<>> /\ preRes.room = cap
  BY <1>0 DEF Reported, Handling, Core, Job, Watch
<1>2. CASE BlockUnresolved
  <2>1. Given' /\ Types' /\ Flows'
    BY <1>0, <1>2, UnitsKept DEF Reported, Handling, Core, Types, BlockUnresolved, uaVars, orVars
  <2>2. Table' /\ freed' /\ origin_fd' = NoFd
    BY <1>0, <1>2, ReleaseClientTable DEF Handling, Core, BlockUnresolved
  <2>3. Job' /\ Watch'
    BY <1>0, <1>1, <1>2, <2>2 DEF Reported, Handling, Core, Job, Watch, BlockUnresolved, bufVars, given
  <2>4. QED BY <2>1, <2>2, <2>3 DEF Core
<1>3. CASE BlockNoSocket
  <2>1. Given' /\ Types' /\ Flows'
    BY <1>0, <1>3, UnitsKept DEF Reported, Handling, Core, Types, BlockNoSocket, uaVars, orVars, procVars
  <2>2. Table'
    BY <1>0, <1>3 DEF Core, Table, Registered, BlockNoSocket, procVars
  <2>3. Job' /\ Watch'
    BY <1>0, <1>1, <1>3 DEF Reported, Handling, Core, Job, Watch, BlockNoSocket, bufVars, given, procVars
  <2>4. QED BY <2>1, <2>2, <2>3 DEF Core
<1>4. CASE BlockConnecting
  <2>1. Given' /\ Types' /\ Flows'
    BY <1>0, <1>4, UnitsKept DEF Reported, Handling, Core, Types, BlockConnecting, uaVars, Peer
  <2>2. Table' /\ "write" \in sel'.fds[origin_fd'].interest
    BY <1>0, <1>1, <1>4, ConnectingTable DEF Handling, Core, BlockConnecting
  <2>3. Job' /\ Watch'
    BY <1>0, <1>1, <1>4, <2>2 DEF Reported, Handling, Core, Job, Watch, BlockConnecting, bufVars, given
  <2>4. QED BY <2>1, <2>2, <2>3 DEF Core
<1>5. CASE BlockConnected
  <2>1. Given' /\ Types' /\ Flows'
    BY <1>0, <1>5, UnitsKept DEF Reported, Handling, Core, Types, BlockConnected, uaVars, Peer
  <2>2. Table' /\ ~ITEM_USED(sel', origin_fd')
    BY <1>0, <1>1, <1>5, ConnectedTable DEF Handling, Core, BlockConnected
  <2>3. Job' /\ Watch'
    BY <1>0, <1>1, <1>5, <2>2 DEF Reported, Handling, Core, Job, Watch, BlockConnected, bufVars, given
  <2>4. QED BY <2>1, <2>2, <2>3 DEF Core
<1>6. QED BY <1>2, <1>3, <1>4, <1>5 DEF client_block

\* The handlers of the origin's descriptor, which is used.
Remote == Handling /\ origin_fd # NoFd /\ ITEM_USED(sel, origin_fd)

\* Until the origin is released there is one and the thread has reported.
LEMMA RemoteFacts ==
    ASSUME Remote
    PROVE  /\ Core /\ origin_fd \in FD /\ origin_fd # client_fd /\ resolver = "done"
           /\ request_complete /\ cap > 0 /\ preRes.room = cap
BY Fds DEF Remote, Handling, Core, Table, Job, Watch

\* The origin is released, by remote_write or remote_read.
LEMMA RemoteErrorStep == ASSUME Remote, RemoteWriteError \/ RemoteReadError PROVE Core'
<1>0. Core /\ resolver = "done" /\ UNCHANGED given /\ ~freed
  BY RemoteFacts DEF Remote, Handling
<1>1. /\ ReleaseOrigin /\ opeer' = AfterError(opeer)
      /\ UNCHANGED <<state, request_complete, reqState, resState, bufVars, freed, jobVars>>
      /\ UNCHANGED <<inst, proxy, uaVars, response, resSent, onet, gotO>>
  BY DEF RemoteWriteError, RemoteReadError
<1>2. Given' /\ Types' /\ Flows'
  BY <1>0, <1>1, UnitsKept, AfterErrorPeer DEF Core, Types, uaVars, jobVars
<1>3. Table' /\ origin_fd' = NoFd /\ "write" \in sel'.fds[client_fd].interest
  BY <1>0, <1>1, ReleaseOriginTable DEF Core
<1>4. Job' /\ Watch'
  BY <1>0, <1>1, <1>3 DEF Core, Job, Watch, bufVars, given, jobVars
<1>5. QED BY <1>2, <1>3, <1>4 DEF Core

\* remote_write, the request written: the response is watched for.
LEMMA RemoteWriteDoneStep == ASSUME Remote, RemoteWriteDone PROVE Core'
<1>0. /\ Core /\ resolver = "done" /\ request_complete /\ UNCHANGED given /\ ~freed
      /\ origin_fd \in FD /\ origin_fd # client_fd /\ ITEM_USED(sel, origin_fd)
      /\ state = "SEND_REQ" /\ postRes.q = <<>> /\ preRes.room = cap /\ postReq.q = <<>>
  BY RemoteFacts DEF Remote, Handling, Core, Watch, RemoteWriteDone, CanRead
<1>1. /\ state' = "READ_RESP" /\ SetInterest(origin_fd, OP_READ)
      /\ UNCHANGED <<request_complete, reqState, resState, bufVars, origin_fd, freed, jobVars>>
      /\ UNCHANGED <<open, inst, proxy, uaVars, orVars>>
  BY <1>0 DEF RemoteWriteDone
<1>2. Given' /\ Types' /\ Flows'
  BY <1>0, <1>1, UnitsKept DEF Core, Types, uaVars, orVars, jobVars
<1>3. /\ Table' /\ ITEM_USED(sel', origin_fd) /\ sel'.fds[origin_fd].interest = OP_READ
  BY <1>0, <1>1, Ops, InterestTable DEF Core
<1>4. Job'
  BY <1>0, <1>1 DEF Core, Job, given, jobVars
<1>5. Due(origin_fd, "read")' /\ origin_fd' # NoFd
  BY <1>0, <1>1, <1>3, Ops, Fds DEF Due
<1>6. Watch'
  BY <1>0, <1>1, <1>5 DEF Watch, bufVars, given
<1>7. QED BY <1>2, <1>3, <1>4, <1>6 DEF Core

\* remote_read, no data: nothing changes, there is always room.
LEMMA RemoteReadNothingStep == ASSUME Remote, RemoteReadNothing PROVE Core'
<1>0. Core /\ UNCHANGED given /\ cap > 0 /\ preRes.room = cap
  BY RemoteFacts DEF Remote, Handling
<1>1. CanWrite(preRes)
  BY <1>0 DEF CanWrite
<1>2. UNCHANGED <<cdtVars, jobVars, procVars, uaVars, orVars>>
  BY <1>1 DEF RemoteReadNothing, procVars
<1>3. QED BY <1>0, <1>2, KeptStep

-----------------------------------------------------------------------------
(* The handlers that move units. *)

\* The bounds of the units.
LEMMA UnitBounds ==
    ASSUME Core
    PROVE  /\ Units(request) = 0..Len(request) /\ Units(response) = 0..Len(response)
           /\ cap \in Nat /\ Len(request) \in Nat /\ Len(response) \in Nat
           /\ cnet \in Seq(0..Len(request)) /\ onet \in Seq(0..Len(response))
           /\ gotO \in Seq(0..Len(request)) /\ gotC \in Seq(0..Len(response))
           /\ preReq.q \in Seq(0..Len(request)) /\ postReq.q \in Seq(0..Len(request))
           /\ preRes.q \in Seq(0..Len(response)) /\ postRes.q \in Seq(0..Len(response))
           /\ preReq.room \in Nat /\ preRes.room \in Nat
           /\ preReq.room <= cap
<1>1. cap \in Nat /\ Len(request) \in Nat /\ Len(response) \in Nat
  BY Sizes DEF Core
<1>2. QED BY <1>1 DEF Core, Types, QueueType, Units

\* read(2) on the client's socket.
LEMMA ReadRequest ==
    ASSUME Core
    PROVE  LET pre1 == Filled(preReq, ReadUnits(cnet, preReq.room))
               net1 == Unread(cnet, preReq.room)
           IN  /\ QueueType(pre1, request) /\ net1 \in Seq(Units(request))
               /\ Flow(gotO, postReq.q, pre1.q, net1, reqSent)
<1> DEFINE r == ReadUnits(cnet, preReq.room)
           k == Shorter(preReq.room, Len(cnet))
<1>1. /\ k \in 0..Len(cnet) /\ r = SubSeq(cnet, 1, k) /\ r \in Seq(Units(request))
      /\ Unread(cnet, preReq.room) = SubSeq(cnet, k + 1, Len(cnet))
      /\ Unread(cnet, preReq.room) \in Seq(Units(request)) /\ Len(r) <= preReq.room
  BY UnitBounds, ReadTypes DEF Core, Types
<1> HIDE DEF r, k
<1>2. QueueType(Filled(preReq, r), request) /\ Filled(preReq, r).q = preReq.q \o r
  BY <1>1, UnitBounds, FilledType DEF Core, Types
<1>3. Flow(gotO, postReq.q, preReq.q, cnet, reqSent)
  BY DEF Core, Flows
<1>4. Flow(gotO, postReq.q, preReq.q \o SubSeq(cnet, 1, k), SubSeq(cnet, k + 1, Len(cnet)), reqSent)
  BY <1>1, <1>3, UnitBounds, FlowRead
<1>5. QED BY <1>1, <1>2, <1>4 DEF r

\* read(2) on the origin's socket.
LEMMA ReadResponse ==
    ASSUME Core, onet # <<>>, CanWrite(preRes)
    PROVE  LET pre1 == Filled(preRes, ReadUnits(onet, preRes.room))
               net1 == Unread(onet, preRes.room)
           IN  /\ QueueType(pre1, response) /\ net1 \in Seq(Units(response))
               /\ Flow(gotC, postRes.q, pre1.q, net1, resSent)
               /\ pre1.q # <<>>
<1> DEFINE r == ReadUnits(onet, preRes.room)
           k == Shorter(preRes.room, Len(onet))
<1>1. /\ k \in 0..Len(onet) /\ r = SubSeq(onet, 1, k) /\ r \in Seq(Units(response))
      /\ Unread(onet, preRes.room) = SubSeq(onet, k + 1, Len(onet))
      /\ Unread(onet, preRes.room) \in Seq(Units(response))
      /\ Len(r) = k /\ k <= preRes.room
  BY UnitBounds, ReadTypes DEF Core, Types
<1>2. k > 0
  <2>1. Len(onet) \in Nat \ {0}
    BY UnitBounds, EmptySeq
  <2>2. preRes.room \in Nat /\ preRes.room > 0
    BY UnitBounds DEF CanWrite
  <2>3. QED BY <2>1, <2>2 DEF Shorter
<1> HIDE DEF r, k
<1>3. QueueType(Filled(preRes, r), response) /\ Filled(preRes, r).q = preRes.q \o r
  BY <1>1, UnitBounds, FilledType DEF Core, Types
<1>4. preRes.q \o r # <<>>
  <2>1. r # <<>>
    BY <1>1, <1>2, EmptySeq
  <2>2. preRes.q \in Seq(Units(response)) /\ r \in Seq(Units(response))
    BY <1>1, UnitBounds
  <2>3. (preRes.q \o r = <<>>) <=> (preRes.q = <<>> /\ r = <<>>)
    BY <2>2, ConcatEqualIffEmpty
  <2>4. QED BY <2>1, <2>3
<1>5. Flow(gotC, postRes.q, preRes.q, onet, resSent)
  BY DEF Core, Flows
<1>6. Flow(gotC, postRes.q, preRes.q \o SubSeq(onet, 1, k), SubSeq(onet, k + 1, Len(onet)), resSent)
  BY <1>1, <1>5, UnitBounds, FlowRead
<1>7. QED BY <1>1, <1>3, <1>4, <1>6 DEF r

\* SEND_REQ: the client sent more of its request.
LEMMA ClientReadMoreStep == ASSUME Handling, ClientReadMore PROVE Core'
<1> DEFINE pre1 == Filled(preReq, ReadUnits(cnet, preReq.room))
           rest == Drained(pre1, postReq)
<1>0. Core /\ UNCHANGED given
  BY DEF Handling
<1>1. /\ QueueType(pre1, request) /\ Unread(cnet, preReq.room) \in Seq(Units(request))
      /\ Flow(gotO, postReq.q, pre1.q, Unread(cnet, preReq.room), reqSent)
  BY <1>0, ReadRequest
<1>2. /\ cnet' = Unread(cnet, preReq.room) /\ cpeer' = AfterError(cpeer)
      /\ preReq' = rest.pre /\ postReq' = rest.post
      /\ state = "SEND_REQ" /\ state' = "NO_ORIGIN" /\ request_complete' = TRUE
      /\ SetInterest(origin_fd, OP_WRITE)
      /\ UNCHANGED <<reqState, resState, preRes, postRes, origin_fd, freed, jobVars>>
      /\ UNCHANGED <<open, inst, proxy, request, reqSent, gotC, orVars>>
  BY DEF ClientReadMore
<1> HIDE DEF pre1
<1>3. Moved(pre1, postReq, rest.pre, rest.post, request)
  BY <1>0, <1>1, FlowPair, UnitBounds, DrainedMoves DEF Core, Types
<1> HIDE DEF rest
<1>4. Flow(gotO, rest.post.q, rest.pre.q, Unread(cnet, preReq.room), reqSent)
  BY <1>1, <1>3, FlowMove
<1>5. Given' /\ Flows'
  BY <1>0, <1>2, <1>4 DEF Core, Given, Flows, orVars, given
<1>6. cpeer' \in Peer
  BY <1>0, <1>2, AfterErrorPeer DEF Core, Types
<1>7. Types'
  BY <1>0, <1>1, <1>2, <1>3, <1>6 DEF Core, Types, Moved, QueueType, orVars, jobVars, given, Units
<1>8. Table'
  BY <1>0, <1>2, Ops, InterestTable DEF Core
<1>9. Job' /\ Watch'
  BY <1>0, <1>2 DEF Core, Job, Watch, jobVars, given
<1>10. QED BY <1>5, <1>7, <1>8, <1>9 DEF Core

\* NO_ORIGIN, read error: the handler goes on with the buffers it released.
LEMMA ClientReadErrorStep == ASSUME Handling, ClientReadError PROVE Core'
<1> DEFINE rest == Drained(preReq, postReq)
<1>0. Core /\ UNCHANGED given /\ ~freed
  BY DEF Handling
<1>1. /\ cpeer' = AfterError(cpeer) /\ ReleaseClient
      /\ preReq' = rest.pre /\ postReq' = rest.post
      /\ state = "NO_ORIGIN"
      /\ request_complete' = IF reqState = "FINISHED" THEN request_complete ELSE FALSE
      /\ UNCHANGED <<state, reqState, resState, preRes, postRes, jobVars, proxy>>
      /\ UNCHANGED <<request, reqSent, cnet, gotC, orVars>>
  BY DEF ClientReadError
<1>2. Flow(gotO, postReq.q, preReq.q, cnet, reqSent)
  BY <1>0 DEF Core, Flows
<1>3. Moved(preReq, postReq, rest.pre, rest.post, request)
  BY <1>0, <1>2, FlowPair, UnitBounds, DrainedMoves DEF Core, Types
<1> HIDE DEF rest
<1>4. Flow(gotO, rest.post.q, rest.pre.q, cnet, reqSent)
  BY <1>2, <1>3, FlowMove
<1>5. Given' /\ Flows'
  BY <1>0, <1>1, <1>4 DEF Core, Given, Flows, orVars, given
<1>6. cpeer' \in Peer
  BY <1>0, <1>1, AfterErrorPeer DEF Core, Types
<1>7. Types'
  BY <1>0, <1>1, <1>3, <1>6 DEF Core, Types, Moved, QueueType, orVars, jobVars, given, Units
<1>8. Table' /\ freed' /\ origin_fd' = NoFd
  BY <1>0, <1>1, ReleaseClientTable DEF Core
<1>9. Job' /\ Watch'
  BY <1>0, <1>1, <1>8 DEF Core, Job, Watch, jobVars, given
<1>10. QED BY <1>5, <1>7, <1>8, <1>9 DEF Core

\* NO_ORIGIN: parse, start the resolver thread once the host is known, copy.
LEMMA ClientReadParseStep == ASSUME Handling, ClientReadParse PROVE Core'
<1> DEFINE pre1   == Filled(preReq, ReadUnits(cnet, preReq.room))
           net1   == Unread(cnet, preReq.room)
           parsed == CheckRequest(reqState, pre1, postReq)
           rest   == Drained(parsed.pre, parsed.post)
           found  == reqState # "FINISHED" /\ parsed.ps = "FINISHED"
<1>0. Core /\ UNCHANGED given /\ ~freed
  BY DEF Handling
<1>1. QueueType(pre1, request) /\ net1 \in Seq(Units(request)) /\ Flow(gotO, postReq.q, pre1.q, net1, reqSent)
  BY <1>0, ReadRequest
<1>2. /\ state = "NO_ORIGIN" /\ CanWrite(preReq) /\ cnet' = net1
      /\ reqState' = parsed.ps
      /\ request_complete' = IF reqState = "FINISHED" THEN request_complete ELSE found
      /\ resolver' = IF found THEN "running" ELSE resolver
      /\ \/ ~parsed.ok /\ preReq' = parsed.pre /\ postReq' = parsed.post /\ ReleaseClient
         \/ /\ parsed.ok /\ preReq' = rest.pre /\ postReq' = rest.post
            /\ UNCHANGED <<sel, open, origin_fd, inst, freed>>
      /\ UNCHANGED <<state, resState, preRes, postRes, resolved, proxy>>
      /\ UNCHANGED <<request, reqSent, cpeer, gotC, orVars>>
  BY DEF ClientReadParse
<1> HIDE DEF pre1, net1
<1>3. Pair(postReq, pre1)
  BY <1>1, FlowPair
<1>4. /\ Moved(pre1, postReq, parsed.pre, parsed.post, request)
      /\ parsed.ps \in {"SEARCH", "FINISHED"}
      /\ reqState = "FINISHED" => parsed.ps = "FINISHED" /\ parsed.ok
      /\ ~parsed.ok => parsed.ps = "SEARCH"
  BY <1>0, <1>1, <1>3, UnitBounds, CheckRequestMoves DEF Core, Types, Job
<1> HIDE DEF parsed
<1>5. Moved(parsed.pre, parsed.post, rest.pre, rest.post, request)
  BY <1>0, <1>4, UnitBounds, DrainedMoves DEF Moved
<1> HIDE DEF rest
<1>6. Moved(pre1, postReq, preReq', postReq', request)
  BY <1>2, <1>4, <1>5, MovedTwice
<1>7. Flow(gotO, postReq'.q, preReq'.q, net1, reqSent)
  BY <1>1, <1>6, FlowMove
<1>8. Given' /\ Flows'
  BY <1>0, <1>2, <1>7 DEF Core, Given, Flows, orVars, given
<1>9. Types'
  BY <1>0, <1>1, <1>2, <1>6 DEF Core, Types, Moved, QueueType, orVars, given, Units
<1>10. Table'
  <2>1. CASE ~parsed.ok
    BY <1>0, <1>2, <2>1, ReleaseClientTable DEF Core
  <2>2. CASE parsed.ok
    BY <1>0, <1>2, <2>2 DEF Core, Table, Registered
  <2>3. QED BY <2>1, <2>2
<1>11. origin_fd' = origin_fd \/ (origin_fd' = NoFd /\ freed')
  BY <1>2 DEF ReleaseClient
<1>12. cap > 0
  BY <1>0, <1>2, UnitBounds DEF CanWrite
<1>13. Job'
  BY <1>0, <1>2, <1>4, <1>11, <1>12 DEF Core, Job, given
<1>14. Watch'
  BY <1>0, <1>2, <1>4, <1>11 DEF Core, Job, Watch, given
<1>15. QED BY <1>8, <1>9, <1>10, <1>13, <1>14 DEF Core

\* write(2) on the client's socket.
LEMMA ClientWriteSomeStep == ASSUME Handling, ClientWriteSome PROVE Core'
<1>0. Core /\ UNCHANGED given /\ ~freed /\ proxy = "up"
  BY DEF Handling
<1>1. PICK k \in 1..Len(postRes.q) :
         /\ postRes' = Advanced(postRes, k, cap)
         /\ gotC' = IF cpeer = "open" THEN gotC \o SubSeq(postRes.q, 1, k) ELSE gotC
  BY DEF ClientWriteSome
<1>2. /\ state = "READ_RESP" /\ postRes.q # <<>>
      /\ cpeer' = (IF cpeer = "closed" THEN "broken" ELSE cpeer)
      /\ SetInterest(origin_fd, OP_READ)
      /\ UNCHANGED <<state, request_complete, reqState, resState, preReq, postReq, preRes>>
      /\ UNCHANGED <<origin_fd, freed, jobVars, open, inst, proxy, request, reqSent, cnet, orVars>>
  BY DEF ClientWriteSome, CanRead
<1>3. k \in 0..Len(postRes.q)
  BY <1>0, UnitBounds, LenProperties
<1>4. QueueType(postRes', response) /\ postRes'.q = SubSeq(postRes.q, k + 1, Len(postRes.q))
  BY <1>0, <1>1, <1>3, UnitBounds, AdvancedType DEF Core, Types
<1>5. SubSeq(postRes.q, 1, k) \in Seq(Units(response))
  BY <1>0, <1>3, UnitBounds, Cut
<1>6. gotC' \in Seq(Units(response))
  <2>1. gotC \in Seq(Units(response)) /\ gotC \o SubSeq(postRes.q, 1, k) \in Seq(Units(response))
    BY <1>0, <1>5, ConcatProperties DEF Core, Types
  <2>2. QED BY <1>1, <2>1
<1>7. Flow(gotC, postRes.q, preRes.q, onet, resSent)
  BY <1>0 DEF Core, Flows
<1>8. Flow(gotC', postRes'.q, preRes.q, onet, resSent)
  BY <1>0, <1>1, <1>3, <1>4, <1>7, UnitBounds, FlowWrite
<1>9. Given' /\ Flows'
  BY <1>0, <1>2, <1>8 DEF Core, Given, Flows, orVars, given
<1>10. Types'
  BY <1>0, <1>2, <1>4, <1>6 DEF Core, Types, QueueType, orVars, jobVars, given, Units, Peer
<1>11. /\ Table'
       /\ \A g \in FD : /\ ITEM_USED(sel', g) <=> ITEM_USED(sel, g)
                        /\ sel'.fds[g].interest = IF g = origin_fd /\ ITEM_USED(sel, origin_fd)
                                                  THEN OP_READ ELSE sel.fds[g].interest
  BY <1>0, <1>2, Ops, InterestTable DEF Core
<1>12. Job'
  BY <1>0, <1>2 DEF Core, Job, given, jobVars
<1>13. "write" \in sel'.fds[client_fd].interest
  <2>1. origin_fd # client_fd /\ client_fd \in FD
    BY <1>0, Fds DEF Core, Table
  <2>2. QED BY <1>0, <1>2, <1>11, <2>1 DEF Core, Watch
<1>14. origin_fd # NoFd => Due(origin_fd, "read")'
  <2>1. origin_fd # NoFd => origin_fd \in FD /\ ITEM_USED(sel, origin_fd)
    BY <1>0, <1>2, Fds DEF Core, Table, Watch, Due
  <2>2. QED BY <1>2, <1>11, <2>1, Ops DEF Due
<1>15. Watch'
  BY <1>0, <1>2, <1>13, <1>14 DEF Core, Watch, jobVars, given
<1>16. QED BY <1>9, <1>10, <1>11, <1>12, <1>15 DEF Core

\* write(2) on the origin's socket.
LEMMA RemoteWriteSomeStep == ASSUME Remote, RemoteWriteSome PROVE Core'
<1>0. /\ Core /\ UNCHANGED given /\ ~freed /\ proxy = "up"
      /\ origin_fd \in FD /\ origin_fd # client_fd
  BY RemoteFacts DEF Remote, Handling
<1>1. PICK k \in 1..Len(postReq.q) :
         /\ postReq' = Advanced(postReq, k, cap)
         /\ gotO' = IF opeer = "open" THEN gotO \o SubSeq(postReq.q, 1, k) ELSE gotO
  BY DEF RemoteWriteSome
<1>2. /\ state = "SEND_REQ"
      /\ opeer' = (IF opeer = "closed" THEN "broken" ELSE opeer)
      /\ SetInterest(client_fd, OP_READ)
      /\ UNCHANGED <<state, request_complete, reqState, resState, preReq, preRes, postRes>>
      /\ UNCHANGED <<origin_fd, freed, jobVars, open, inst, proxy, uaVars, response, resSent, onet>>
  BY DEF RemoteWriteSome
<1>3. k \in 0..Len(postReq.q)
  BY <1>0, UnitBounds, LenProperties
<1>4. QueueType(postReq', request) /\ postReq'.q = SubSeq(postReq.q, k + 1, Len(postReq.q))
  BY <1>0, <1>1, <1>3, UnitBounds, AdvancedType DEF Core, Types
<1>5. SubSeq(postReq.q, 1, k) \in Seq(Units(request))
  BY <1>0, <1>3, UnitBounds, Cut
<1>6. gotO' \in Seq(Units(request))
  <2>1. gotO \in Seq(Units(request)) /\ gotO \o SubSeq(postReq.q, 1, k) \in Seq(Units(request))
    BY <1>0, <1>5, ConcatProperties DEF Core, Types
  <2>2. QED BY <1>1, <2>1
<1>7. Flow(gotO, postReq.q, preReq.q, cnet, reqSent)
  BY <1>0 DEF Core, Flows
<1>8. Flow(gotO', postReq'.q, preReq.q, cnet, reqSent)
  BY <1>0, <1>1, <1>3, <1>4, <1>7, UnitBounds, FlowWrite
<1>9. Given' /\ Flows'
  BY <1>0, <1>2, <1>8 DEF Core, Given, Flows, uaVars, given
<1>10. Types'
  BY <1>0, <1>2, <1>4, <1>6 DEF Core, Types, QueueType, uaVars, jobVars, given, Units, Peer
<1>11. /\ Table'
       /\ \A g \in FD : /\ ITEM_USED(sel', g) <=> ITEM_USED(sel, g)
                        /\ g # client_fd => sel'.fds[g].interest = sel.fds[g].interest
  BY <1>0, <1>2, Ops, InterestTable DEF Core
<1>12. Job' /\ Watch'
  BY <1>0, <1>2, <1>11 DEF Core, Job, Watch, jobVars, given
<1>13. QED BY <1>9, <1>10, <1>11, <1>12 DEF Core

\* remote_read with data.
LEMMA RemoteReadParseStep == ASSUME Remote, RemoteReadParse PROVE Core'
<1> DEFINE pre1   == Filled(preRes, ReadUnits(onet, preRes.room))
           net1   == Unread(onet, preRes.room)
           parsed == CheckResponse(pre1, postRes)
<1>0. /\ Core /\ UNCHANGED given /\ ~freed /\ proxy = "up" /\ resolver = "done"
      /\ origin_fd \in FD /\ origin_fd # client_fd
  BY RemoteFacts DEF Remote, Handling
<1>1. /\ QueueType(pre1, response) /\ net1 \in Seq(Units(response))
      /\ Flow(gotC, postRes.q, pre1.q, net1, resSent) /\ pre1.q # <<>>
  BY <1>0, ReadResponse DEF RemoteReadParse
<1>2. /\ state = "READ_RESP" /\ onet' = net1
      /\ preRes' = parsed.pre /\ postRes' = parsed.post /\ resState' = parsed.rs
      /\ \/ ~parsed.ok /\ proxy' = "exit" /\ UNCHANGED <<sel, open, origin_fd>>
         \/ parsed.ok /\ parsed.rs = "FINISHED" /\ ReleaseOrigin /\ UNCHANGED proxy
         \/ /\ parsed.ok /\ parsed.rs # "FINISHED"
            /\ SetInterest(client_fd, OP_WRITE) /\ UNCHANGED <<open, origin_fd, proxy>>
      /\ UNCHANGED <<state, request_complete, reqState, preReq, postReq, freed, jobVars>>
      /\ UNCHANGED <<inst, uaVars, response, resSent, opeer, gotO>>
  BY DEF RemoteReadParse
<1> HIDE DEF pre1, net1
<1>3. Pair(postRes, pre1)
  BY <1>1, FlowPair
<1>4. /\ Moved(pre1, postRes, parsed.pre, parsed.post, response)
      /\ parsed.rs \in {"PARSING", "FINISHED"}
      /\ parsed.ok /\ parsed.rs # "FINISHED" => parsed.pre.room = cap
  BY <1>0, <1>1, <1>3, UnitBounds, CheckResponseMoves DEF Core, Types
<1> HIDE DEF parsed
<1>5. Flow(gotC, postRes'.q, preRes'.q, net1, resSent)
  BY <1>1, <1>2, <1>4, FlowMove
<1>6. Given' /\ Flows'
  BY <1>0, <1>2, <1>5 DEF Core, Given, Flows, uaVars, given
<1>7. Types'
  BY <1>0, <1>1, <1>2, <1>4 DEF Core, Types, Moved, QueueType, uaVars, jobVars, given, Units
<1>8. CASE ~parsed.ok
  <2>1. Table'
    BY <1>0, <1>2, <1>8 DEF Core, Table, Registered
  <2>2. Job' /\ Watch'
    BY <1>0, <1>2, <1>8 DEF Core, Job, Watch, jobVars, given
  <2>3. QED BY <1>6, <1>7, <2>1, <2>2 DEF Core
<1>9. CASE parsed.ok /\ parsed.rs = "FINISHED"
  <2>1. Table' /\ origin_fd' = NoFd /\ "write" \in sel'.fds[client_fd].interest
    BY <1>0, <1>2, <1>9, ReleaseOriginTable DEF Core
  <2>2. Job' /\ Watch'
    BY <1>0, <1>2, <1>9, <2>1 DEF Core, Job, Watch, jobVars, given
  <2>3. QED BY <1>6, <1>7, <2>1, <2>2 DEF Core
<1>10. CASE parsed.ok /\ parsed.rs # "FINISHED"
  <2>1. /\ Table'
        /\ \A g \in FD : /\ ITEM_USED(sel', g) <=> ITEM_USED(sel, g)
                         /\ sel'.fds[g].interest = IF g = client_fd /\ ITEM_USED(sel, client_fd)
                                                   THEN OP_WRITE ELSE sel.fds[g].interest
    BY <1>0, <1>2, <1>10, Ops, InterestTable DEF Core
  <2>2. "write" \in sel'.fds[client_fd].interest
    BY <1>0, <2>1, Ops, Fds DEF Core, Table, Registered
  <2>3. Due(origin_fd, "read")'
    BY <1>0, <1>2, <1>10, <2>1, Fds DEF Core, Watch, Due
  <2>4. Job' /\ Watch'
    BY <1>0, <1>2, <1>4, <1>10, <2>2, <2>3 DEF Core, Job, Watch, jobVars, given
  <2>5. QED BY <1>6, <1>7, <2>1, <2>4 DEF Core
<1>11. QED BY <1>8, <1>9, <1>10

-----------------------------------------------------------------------------
(* The resolver thread and the peers. *)

\* What they may change: the proxy's own state is left alone.
Outside == Core /\ UNCHANGED <<given, cdtVars, procVars, loopVars, request, response>>

\* What the steps of the peers leave alone.
LEMMA OutsideKept == ASSUME Outside, UNCHANGED jobVars PROVE Given' /\ Table' /\ Job' /\ Watch'
<1>1. Table'
  BY DEF Outside, Core, Table, Registered, cdtVars, procVars
<1>2. Given' /\ Job' /\ Watch'
  BY DEF Outside, Core, Given, Job, Watch, Due, cdtVars, procVars, jobVars, bufVars, given
<1>3. QED BY <1>1, <1>2

\* The resolver thread reports.
LEMMA ResolverStep == ASSUME Core, ResolverReports PROVE Core'
<1>1. /\ resolver = "running" /\ resolver' = "queued" /\ resolved' \in BOOLEAN
      /\ UNCHANGED <<given, cdtVars, procVars, loopVars, uaVars, orVars>>
  BY DEF ResolverReports
<1>2. Given' /\ Types' /\ Flows'
  BY <1>1, UnitsKept DEF Core, Types, cdtVars, procVars, uaVars, orVars
<1>3. Table'
  BY <1>1 DEF Core, Table, Registered, cdtVars, procVars
<1>4. Job' /\ Watch'
  BY <1>1 DEF Core, Job, Watch, Due, cdtVars, procVars, bufVars, given
<1>5. QED BY <1>2, <1>3, <1>4 DEF Core

\* The steps of a peer that send nothing and drop nothing.
LEMMA PeerStep ==
    ASSUME Core, UaCloses \/ OriginAccepts \/ OriginCloses
    PROVE  Core'
<1>1. /\ UNCHANGED <<given, cdtVars, procVars, loopVars, jobVars, request, response>>
      /\ UNCHANGED <<reqSent, cnet, gotC, resSent, onet, gotO>>
      /\ cpeer' \in Peer /\ opeer' \in Peer
  BY DEF Core, Types, UaCloses, OriginAccepts, OriginCloses, uaVars, orVars, Peer
<1>2. Given' /\ Types' /\ Flows'
  BY <1>1, UnitsKept DEF Core, Types, cdtVars, procVars, jobVars
<1>3. Table' /\ Job' /\ Watch'
  BY <1>1, OutsideKept DEF Outside
<1>4. QED BY <1>2, <1>3 DEF Core

\* The user agent resets its connection: what was not read is lost.
LEMMA UaResetsStep == ASSUME Core, UaResets PROVE Core'
<1>1. /\ UNCHANGED <<given, cdtVars, procVars, loopVars, jobVars, request, reqSent, gotC, orVars>>
      /\ cpeer' \in Peer /\ cnet' = <<>>
  BY DEF UaResets, Peer
<1>2. Given' /\ Table' /\ Job' /\ Watch'
  BY <1>1, OutsideKept DEF Outside, orVars
<1>3. Flow(gotO, postReq.q, preReq.q, <<>>, reqSent)
  BY FlowReset DEF Core, Flows
<1>4. Flows'
  BY <1>1, <1>3 DEF Core, Flows, orVars, cdtVars, bufVars
<1>5. Types'
  BY <1>1 DEF Core, Types, QueueType, Units, cdtVars, bufVars, procVars, jobVars, orVars, given
<1>6. QED BY <1>2, <1>4, <1>5 DEF Core

\* The origin resets its connection: what was not read is lost.
LEMMA OriginResetsStep == ASSUME Core, OriginResets PROVE Core'
<1>1. /\ UNCHANGED <<given, cdtVars, procVars, loopVars, jobVars, uaVars, response, resSent, gotO>>
      /\ opeer' \in Peer /\ onet' = <<>>
  BY DEF OriginResets, Peer
<1>2. Given' /\ Table' /\ Job' /\ Watch'
  BY <1>1, OutsideKept DEF Outside, uaVars
<1>3. Flow(gotC, postRes.q, preRes.q, <<>>, resSent)
  BY FlowReset DEF Core, Flows
<1>4. Flows'
  BY <1>1, <1>3 DEF Core, Flows, uaVars, cdtVars, bufVars
<1>5. Types'
  BY <1>1 DEF Core, Types, QueueType, Units, cdtVars, bufVars, procVars, jobVars, uaVars, given
<1>6. QED BY <1>2, <1>4, <1>5 DEF Core

\* The user agent sends: the new units follow the ones already sent.
LEMMA UaSendsStep == ASSUME Core, UaSends PROVE Core'
<1> DEFINE L == Len(request)
           e == [i \in 1..(reqSent' - reqSent) |-> reqSent + i]
<1>1. /\ UNCHANGED <<given, cdtVars, procVars, loopVars, jobVars, request, cpeer, gotC, orVars>>
      /\ reqSent < L /\ cnet' = cnet \o e
      /\ reqSent' = IF "segments" \in faults THEN reqSent + 1 ELSE L
  BY DEF UaSends
<1>2. L \in Nat /\ reqSent \in Nat /\ cnet \in Seq(0..L) /\ Units(request) = 0..L
  BY UnitBounds DEF Core, Types
<1> HIDE DEF L
<1>3. reqSent' \in reqSent..L /\ reqSent' \in 0..L
  BY <1>1, <1>2
<1>5. e \in Seq(0..L) /\ Len(e) = reqSent' - reqSent /\ \A i \in 1..Len(e) : e[i] = reqSent + i
  BY <1>2, <1>3, Interval
<1> HIDE DEF e
<1>6. cnet \o e \in Seq(0..L)
  BY <1>2, <1>5, ConcatProperties
<1>7. Flow(gotO, postReq.q, preReq.q, cnet, reqSent)
  BY DEF Core, Flows
<1>8. Flow(gotO, postReq.q, preReq.q, cnet \o e, reqSent')
  BY <1>2, <1>3, <1>5, <1>7, FlowSend
<1>9. Given' /\ Table' /\ Job' /\ Watch'
  BY <1>1, OutsideKept DEF Outside, orVars
<1>10. Flows'
  BY <1>1, <1>8 DEF Core, Flows, orVars, cdtVars, bufVars
<1>11. Types'
  BY <1>1, <1>2, <1>3, <1>6 DEF Core, Types, QueueType, Units, L, cdtVars, bufVars, procVars,
                                jobVars, orVars, given
<1>12. QED BY <1>9, <1>10, <1>11 DEF Core

\* The origin sends: the new unit follows the ones already sent.
LEMMA OriginSendsStep == ASSUME Core, OriginSends PROVE Core'
<1> DEFINE L == Len(response)
           e == <<resSent + 1>>
<1>1. /\ UNCHANGED <<given, cdtVars, procVars, loopVars, jobVars, uaVars, response, opeer, gotO>>
      /\ resSent < L /\ onet' = Append(onet, resSent + 1) /\ resSent' = resSent + 1
  BY DEF OriginSends
<1>2. L \in Nat /\ resSent \in Nat /\ onet \in Seq(0..L) /\ Units(response) = 0..L
  BY UnitBounds DEF Core, Types
<1> HIDE DEF L
<1>3. resSent' \in resSent..L /\ resSent + 1 \in 0..L /\ resSent' \in 0..L
  BY <1>1, <1>2
<1>4. /\ e \in Seq(0..L) /\ Len(e) = 1 /\ e[1] = resSent + 1
  BY <1>3
<1>5. onet' = onet \o e /\ onet' \in Seq(0..L)
  BY <1>1, <1>2, <1>3, <1>4, AppendIsConcat, ConcatProperties
<1> HIDE DEF e
<1>6. Len(e) = resSent' - resSent /\ \A i \in 1..Len(e) : e[i] = resSent + i
  BY <1>1, <1>2, <1>4
<1>7. Flow(gotC, postRes.q, preRes.q, onet, resSent)
  BY DEF Core, Flows
<1>8. Flow(gotC, postRes.q, preRes.q, onet', resSent')
  BY <1>2, <1>3, <1>4, <1>5, <1>6, <1>7, FlowSend
<1>9. Given' /\ Table' /\ Job' /\ Watch'
  BY <1>1, OutsideKept DEF Outside, uaVars
<1>10. Flows'
  BY <1>1, <1>8 DEF Core, Flows, uaVars, cdtVars, bufVars
<1>11. Types'
  BY <1>1, <1>2, <1>3, <1>5 DEF Core, Types, QueueType, Units, L, cdtVars, bufVars, procVars,
                                jobVars, uaVars, given
<1>12. QED BY <1>9, <1>10, <1>11 DEF Core

-----------------------------------------------------------------------------
(* The invariant. *)

\* listen_read_handler and client_new set it up.
LEMMA InitInv == Init => Inv
<1> SUFFICES ASSUME Init PROVE Inv
  OBVIOUS
<1>1. PICK s \in Surroundings : cap = s.cap /\ faults = s.faults
  BY DEF Init
<1>2. s \in [cap : Nat, faults : SUBSET AllFaults]
  BY ClientAssumption
<1>3. [cap |-> cap, faults |-> faults] = s
  BY <1>1, <1>2
<1>4. Given
  BY <1>3 DEF Init, Given
<1>5. cap \in Nat /\ Len(request) \in Nat /\ Len(response) \in Nat
  BY <1>4, Sizes
<1>6. /\ preReq.q = <<>> /\ postReq.q = <<>> /\ preRes.q = <<>> /\ postRes.q = <<>>
      /\ preReq.room = cap /\ postReq.room = cap /\ preRes.room = cap /\ postRes.room = cap
  BY DEF Init, NewQueue
<1>7. Types
  <2>1. cap \in 0..cap /\ 0 \in Units(request) /\ 0 \in Units(response)
    BY <1>5 DEF Units
  <2>2. <<>> \in Seq(Units(request)) /\ <<>> \in Seq(Units(response))
    BY EmptySeq
  <2>3. /\ QueueType(preReq, request) /\ QueueType(postReq, request)
        /\ QueueType(preRes, response) /\ QueueType(postRes, response)
    BY <1>6, <2>1, <2>2 DEF QueueType
  <2>4. QED BY <2>1, <2>2, <2>3 DEF Init, Types, Peer
<1>8. SelectorType(selector_new, {Cl}) /\ Consistent(selector_new) /\ \A g \in FD : ~ITEM_USED(selector_new, g)
  BY NewTable
<1>9. "client" \in Handlers /\ Cl \in {Cl} \cup {NoData}
  BY DEF Handlers
<1>10. /\ SelectorType(sel, {Cl}) /\ Consistent(sel)
       /\ \A g \in FD : g # client_fd => sel.fds[g] = selector_new.fds[g]
       /\ sel.fds[client_fd] = [used |-> TRUE, interest |-> OP_READ, handler |-> "client", data |-> Cl]
  BY <1>8, <1>9, Fds, Ops, RegisterTable DEF Init
<1>11. Registered /\ \A g \in FD : ITEM_USED(sel, g) => g = client_fd
  BY <1>8, <1>10 DEF ITEM_USED, Registered
<1>12. Table
  BY <1>10, <1>11, Fds DEF Init, Table
<1>13. Job /\ Watch /\ Loop
  BY <1>6 DEF Init, Job, Watch, Loop
<1>14. Flows
  BY <1>6, FlowEmpty DEF Init, Flows
<1>15. QED BY <1>4, <1>7, <1>12, <1>13, <1>14 DEF Inv, Core

\* Whatever handler handle_iteration calls, the client is registered; and if it
\* calls one of the origin's, the origin is.
LEMMA DueIsRegistered ==
    ASSUME Core, NEW fd \in FD, NEW op, Due(fd, op)
    PROVE  ~freed /\ (fd = client_fd \/ (fd = origin_fd /\ fd # NoFd /\ ITEM_USED(sel, origin_fd)))
<1>1. fd \in open
  BY DEF Core, Table, Due
<1>2. QED BY <1>1, Fds DEF Core, Table, Due

\* handle_iteration visits one descriptor.
LEMMA DispatchStep == ASSUME Inv, proxy = "up", UNCHANGED given, Dispatch PROVE Inv'
<1>0. Core
  BY DEF Inv
<1>1. PICK x \in slave :
         /\ slave' = slave \ {x}
         /\ pc' = IF slave = {x} THEN "notify" ELSE "iterate"
         /\ \/ Due(x[1], x[2]) /\ Handler(x[1], x[2])
            \/ ~Due(x[1], x[2]) /\ UNCHANGED <<cdtVars, jobVars, procVars, uaVars, orVars>>
  BY DEF Dispatch
<1>2. Loop' /\ x[1] \in FD
  BY <1>1 DEF Inv, Loop
<1>3. CASE ~Due(x[1], x[2]) /\ UNCHANGED <<cdtVars, jobVars, procVars, uaVars, orVars>>
  BY <1>0, <1>2, <1>3, KeptStep DEF Inv
<1>4. CASE Due(x[1], x[2]) /\ Handler(x[1], x[2])
  <2>1. /\ Handling
        /\ x[1] # client_fd => Remote
    BY <1>0, <1>2, <1>4, DueIsRegistered DEF Handling, Remote
  <2>2. CASE x[1] = client_fd /\ client_read
    <3>1. ClientReadIgnored => Core'
      BY <1>0, KeptStep DEF ClientReadIgnored
    <3>2. QED
      BY <1>2, <2>1, <2>2, <3>1, ClientReadFullStep, ClientReadParseStep, ClientReadErrorStep,
         ClientReadMoreStep DEF client_read, Inv
  <2>3. CASE x[1] = client_fd /\ client_write
    <3>1. ClientWriteIgnored => Core'
      BY <1>0, KeptStep DEF ClientWriteIgnored
    <3>2. QED
      BY <1>2, <2>1, <2>3, <3>1, ClientWriteSomeStep, ClientWriteErrorStep, SigpipeStep,
         ClientWriteFinishedStep DEF client_write, Inv
  <2>4. CASE x[1] # client_fd /\ remote_read
    BY <1>2, <2>1, <2>4, RemoteReadParseStep, RemoteErrorStep, RemoteReadNothingStep
       DEF remote_read, Inv
  <2>5. CASE x[1] # client_fd /\ remote_write
    <3>1. RemoteWriteIgnored => Core'
      BY <1>0, KeptStep DEF RemoteWriteIgnored
    <3>2. QED
      BY <1>2, <2>1, <2>5, <3>1, RemoteWriteSomeStep, RemoteErrorStep, SigpipeStep,
         RemoteWriteDoneStep DEF remote_write, Inv
  <2>6. QED BY <1>4, <2>2, <2>3, <2>4, <2>5 DEF Handler
<1>5. QED BY <1>1, <1>3, <1>4

\* handle_block_notifications: a report for a released client changes nothing of it.
LEMMA NotifyStep == ASSUME Inv, proxy = "up", UNCHANGED given, Notify PROVE Inv'
<1>0. Core /\ pc' = "select" /\ slave' = slave
  BY DEF Inv, Notify
<1>1. Loop'
  BY <1>0 DEF Inv, Loop
<1>2. CASE resolver = "queued" /\ Registered /\ resolver' = "done" /\ UNCHANGED resolved /\ client_block
  <2>1. Reported
    BY <1>0, <1>2 DEF Reported, Handling, Core, Table
  <2>2. QED BY <1>1, <1>2, <2>1, BlockStep DEF Inv
<1>3. CASE /\ resolver = "queued" /\ ~Registered /\ resolver' = "done"
           /\ UNCHANGED <<resolved, cdtVars, procVars, uaVars, orVars>>
  <2>1. Given' /\ Types' /\ Flows'
    BY <1>0, <1>3, UnitsKept DEF Core, Types, cdtVars, procVars, uaVars, orVars
  <2>2. Table'
    BY <1>0, <1>3 DEF Core, Table, Registered, cdtVars, procVars
  <2>3. Job' /\ Watch'
    BY <1>0, <1>3 DEF Core, Table, Job, Watch, Due, cdtVars, procVars, bufVars, given
  <2>4. QED BY <1>1, <2>1, <2>2, <2>3 DEF Inv, Core
<1>4. CASE resolver # "queued" /\ UNCHANGED <<jobVars, cdtVars, procVars, uaVars, orVars>>
  BY <1>0, <1>1, <1>4, KeptStep DEF Inv
<1>5. QED BY <1>2, <1>3, <1>4 DEF Notify

\* Every step preserves the invariant.
LEMMA NextInv == Inv /\ [Next]_vars => Inv'
<1> SUFFICES ASSUME Inv, [Next]_vars PROVE Inv'
  OBVIOUS
<1>0. Core
  BY DEF Inv
<1>1. CASE MainStep
  <2>0. proxy = "up" /\ UNCHANGED given
    BY <1>1 DEF MainStep
  <2>1. CASE Select
    <3>1. Core'
      BY <1>0, <2>0, <2>1, KeptStep DEF Select
    <3>2. sel.master_r \subseteq FD /\ sel.master_w \subseteq FD
      BY <1>0, TableShape DEF Core, Table
    <3>3. Loop'
      BY <2>1, <3>2 DEF Select, Loop, ReadySet
    <3>4. QED BY <3>1, <3>3 DEF Inv
  <2>2. CASE Interrupted
    <3>1. Core'
      BY <1>0, <2>0, <2>2, KeptStep DEF Interrupted
    <3>2. Loop'
      BY <2>2 DEF Interrupted, Inv, Loop
    <3>3. QED BY <3>1, <3>2 DEF Inv
  <2>3. CASE Dispatch
    BY <2>0, <2>3, DispatchStep
  <2>4. CASE Notify
    BY <2>0, <2>4, NotifyStep
  <2>5. QED BY <1>1, <2>1, <2>2, <2>3, <2>4 DEF MainStep
<1>2. CASE ResolverReports
  BY <1>0, <1>2, ResolverStep DEF Inv, Loop, ResolverReports, loopVars
<1>3. CASE UaSends
  BY <1>0, <1>3, UaSendsStep DEF Inv, Loop, UaSends, loopVars
<1>4. CASE UaResets
  BY <1>0, <1>4, UaResetsStep DEF Inv, Loop, UaResets, loopVars
<1>5. CASE OriginSends
  BY <1>0, <1>5, OriginSendsStep DEF Inv, Loop, OriginSends, loopVars
<1>6. CASE OriginResets
  BY <1>0, <1>6, OriginResetsStep DEF Inv, Loop, OriginResets, loopVars
<1>7. CASE UaCloses \/ OriginAccepts \/ OriginCloses
  BY <1>0, <1>7, PeerStep DEF Inv, Loop, UaCloses, OriginAccepts, OriginCloses, loopVars
<1>8. CASE UNCHANGED vars
  BY <1>0, <1>8, KeptStep DEF Inv, Loop, vars, loopVars
<1>9. QED
  BY <1>1, <1>2, <1>3, <1>4, <1>5, <1>6, <1>7, <1>8 DEF Next

-----------------------------------------------------------------------------
(* Delivery, when the peers behave. *)

Fresh(b) == b.q = <<>> /\ b.room = cap

\* Nobody closes or resets a connection.
Quiet == cpeer = "open" /\ opeer \in {"none", "connecting", "open"}

\* The request is sent at once, read at once and passed on at once: until then
\* its buffers are as client_new left them, and once the host is found all of it
\* is in the buffer for the origin or on its way there.
ReqSide ==
    /\ reqState = "FINISHED" => gotO \o postReq.q = Passed(request, {"line"}, Len(request))
    /\ ~freed => /\ Fresh(preReq)
                 /\ reqState = "FINISHED" => reqSent = Len(request) /\ cnet = <<>>
                 /\ reqState = "SEARCH" =>
                       /\ gotO = <<>>
                       /\ \/ reqSent = 0 /\ cnet = <<>> /\ Fresh(postReq)
                          \/ reqSent = Len(request) /\ cnet = Span(0, Len(request)) /\ Fresh(postReq)
                          \/ reqSent = Len(request) /\ cnet = <<>>

\* What the user agent has of the response, and what is in the buffer for it, are
\* the units that were read with the header; the room for the others is there,
\* and the parser finishes with the last one.
ResSide ==
    LET n == resSent - Len(onet)
    IN  /\ Fresh(preRes)
        /\ n \in 0..resSent /\ onet = Span(n, resSent)
        /\ gotC \o postRes.q = Passed(response, {"head", "bare"}, n)
        /\ cap <= postRes.room + Len(gotC) + Len(postRes.q)
        /\ resState = "FINISHED" <=> n = Len(response)

\* The origin is released when the response is finished, and the client when it
\* was rejected, when its name was not resolved, or when all has been sent.
Finish ==
    /\ resolver \in {"none", "running"} => ~resolved
    /\ state = "READ_RESP" /\ origin_fd = NoFd => resState = "FINISHED"
    /\ freed => \/ resolver = "none"
                \/ /\ resolver = "done"
                   /\ resolved => state = "READ_RESP" /\ origin_fd = NoFd /\ postRes.q = <<>>

Good == WellBehaved /\ Quiet /\ ReqSide /\ ResSide /\ Finish

Delivery == WellBehaved => Good

\* What peers that behave send, and how it is passed on.
LEMMA Messages ==
    ASSUME Core, WellBehaved
    PROVE  /\ ForwardedRequest = Passed(request, {"line"}, Len(request))
           /\ ForwardedResponse = Passed(response, {"head", "bare"}, Len(response))
           /\ Len(ForwardedRequest) <= cap /\ Len(ForwardedResponse) <= cap
           /\ Len(request) <= cap /\ Len(response) <= cap /\ Len(response) # 0
           /\ \A i \in 2..Len(request) : request[i] # "line"
           /\ \A i \in 2..Len(response) : response[i] \notin {"head", "bare"}
           /\ \A i \in 1..(Len(response) - 1) : response[i] \notin {"last", "bare"}
<1>1. cap \in Nat /\ Len(request) \in Nat /\ Len(response) \in Nat
  BY UnitBounds
<1>2. /\ \A i \in 2..Len(request) : request[i] # "line"
      /\ \A i \in 2..Len(response) : response[i] \notin {"head", "bare"}
      /\ \A i \in 1..(Len(response) - 1) : response[i] \notin {"last", "bare"}
  BY MessageAssumption DEF Core, Given
<1> DEFINE K == {"line"}  R == {"head", "bare"}
<1>3. ASSUME NEW L \in Nat, NEW m, NEW kinds, Len(m) = L, \A i \in 2..L : m[i] \notin kinds
      PROVE  WithHeader(Whole(m), m, kinds) = Passed(m, kinds, L) /\ L <= Len(Passed(m, kinds, L))
  <2>1. L \in 0..L /\ 0 \in 0..L
    OBVIOUS
  <2>2. Whole(m) = Span(0, L)
    BY <1>3, WholeSpan
  <2>3. WithHeader(Span(0, L), m, kinds) = Passed(m, kinds, L)
    BY <1>3, <2>1, HeaderOnSpan
  <2>4. Passed(m, kinds, L) \in Seq(0..L) /\ L <= Len(Passed(m, kinds, L))
    <3>1. Passed(m, kinds, L) \in Seq(0..L)
      BY <2>1, PassedSeq
    <3>2. L <= Len(Passed(m, kinds, L))
      BY <2>1, PassedGrows, Zenon
    <3>3. QED BY <3>1, <3>2
  <2>5. QED BY <2>2, <2>3, <2>4
<1>4. \A i \in 2..Len(request) : request[i] \notin K
  BY <1>2
<1>5. \A i \in 2..Len(response) : response[i] \notin R
  BY <1>2
<1> HIDE DEF K, R
<1>6. /\ WithHeader(Whole(request), request, K) = Passed(request, K, Len(request))
      /\ Len(request) <= Len(Passed(request, K, Len(request)))
  BY ONLY <1>1, <1>3, <1>4
<1>7. /\ WithHeader(Whole(response), response, R) = Passed(response, R, Len(response))
      /\ Len(response) <= Len(Passed(response, R, Len(response)))
  BY ONLY <1>1, <1>3, <1>5
<1>8. /\ ForwardedRequest = Passed(request, {"line"}, Len(request))
      /\ ForwardedResponse = Passed(response, {"head", "bare"}, Len(response))
  BY <1>6, <1>7 DEF ForwardedRequest, ForwardedResponse, K, R
<1>9. Len(ForwardedRequest) <= cap /\ Len(ForwardedResponse) <= cap
  BY DEF WellBehaved
<1>10. Len(request) <= cap /\ Len(response) <= cap
  <2>1. Len(request) <= Len(ForwardedRequest) /\ Len(response) <= Len(ForwardedResponse)
    BY <1>6, <1>7, <1>8 DEF K, R
  <2>2. Len(ForwardedRequest) \in Nat /\ Len(ForwardedResponse) \in Nat
    <3>1. Len(request) \in 0..Len(request) /\ Len(response) \in 0..Len(response)
      BY <1>1
    <3>2. /\ Passed(request, {"line"}, Len(request)) \in Seq(0..Len(request))
          /\ Passed(response, {"head", "bare"}, Len(response)) \in Seq(0..Len(response))
      BY <1>1, <3>1, PassedSeq
    <3>3. QED BY <1>8, <3>2, LenProperties
  <2>3. QED BY <1>1, <1>9, <2>1, <2>2
<1>11. Len(response) # 0
  <2>1. response \in Seq(ResponseUnits)
    BY ClientAssumption DEF Core, Given
  <2>2. QED BY <2>1, EmptySeq DEF WellBehaved
<1>12. QED BY <1>2, <1>8, <1>9, <1>10, <1>11

\* What a step leaves alone of either side.
LEMMA ReqKept ==
    ASSUME ReqSide, ~freed' => ~freed,
           UNCHANGED <<cap, request, reqState, gotO, preReq, postReq, reqSent, cnet>>
    PROVE  ReqSide'
BY DEF ReqSide, Fresh

LEMMA ResKept ==
    ASSUME ResSide, UNCHANGED <<cap, response, resState, gotC, preRes, postRes, resSent, onet>>
    PROVE  ResSide'
BY DEF ResSide, Fresh

\* The messages and the surroundings stay as they are.
LEMMA BehavedKept ==
    ASSUME WellBehaved, UNCHANGED <<given, request, response>>
    PROVE  WellBehaved'
BY DEF WellBehaved, ForwardedRequest, ForwardedResponse, given

\* A step that moves no unit, releases nothing and hears of no thread.
LEMMA GoodKept ==
    ASSUME Good, UNCHANGED <<given, request, response, cpeer, opeer, reqState, resState, bufVars>>,
           UNCHANGED <<gotO, gotC, reqSent, resSent, cnet, onet, freed, resolver, resolved, state, origin_fd>>
    PROVE  Good'
<1>1. WellBehaved' /\ ReqSide' /\ ResSide'
  BY BehavedKept, ReqKept, ResKept DEF Good, bufVars, given
<1>2. Quiet' /\ Finish'
  BY DEF Good, Quiet, Finish, bufVars
<1>3. QED BY <1>1, <1>2 DEF Good

\* The faults that could disturb it do not happen.
LEMMA NoFaults ==
    ASSUME WellBehaved
    PROVE  /\ "segments" \notin faults /\ "client_close" \notin faults /\ "client_reset" \notin faults
           /\ "no_socket" \notin faults /\ "connect_now" \notin faults /\ "connect_error" \notin faults
           /\ "refused" \notin faults /\ "origin_close" \notin faults /\ "origin_reset" \notin faults
BY DEF WellBehaved

\* client_read in NO_ORIGIN: the request that arrived at once is parsed at once.
LEMMA GoodReadParse == ASSUME Handling, Good, ClientReadParse PROVE Good'
<1> DEFINE pre1   == Filled(preReq, ReadUnits(cnet, preReq.room))
           net1   == Unread(cnet, preReq.room)
           parsed == CheckRequest(reqState, pre1, postReq)
           rest   == Drained(parsed.pre, parsed.post)
           found  == reqState # "FINISHED" /\ parsed.ps = "FINISHED"
           L      == Len(request)
           P      == Passed(request, {"line"}, L)
<1>0. Core /\ UNCHANGED given /\ ~freed /\ WellBehaved /\ Quiet /\ ReqSide /\ ResSide /\ Finish
  BY DEF Handling, Good
<1>1. /\ state = "NO_ORIGIN" /\ cnet' = net1 /\ reqState' = parsed.ps
      /\ resolver' = IF found THEN "running" ELSE resolver
      /\ \/ ~parsed.ok /\ preReq' = parsed.pre /\ postReq' = parsed.post /\ ReleaseClient
         \/ /\ parsed.ok /\ preReq' = rest.pre /\ postReq' = rest.post
            /\ UNCHANGED <<sel, open, origin_fd, inst, freed>>
      /\ UNCHANGED <<state, resState, preRes, postRes, resolved, proxy>>
      /\ UNCHANGED <<request, reqSent, cpeer, gotC, response, resSent, onet, opeer, gotO>>
  BY DEF ClientReadParse, orVars
<1>2. WellBehaved' /\ Quiet' /\ ResSide'
  BY <1>0, <1>1, BehavedKept, ResKept DEF Quiet, given
<1>3. /\ cap \in Nat /\ L \in Nat /\ L <= cap /\ cnet \in Seq(0..L) /\ Fresh(preReq)
      /\ gotO \in Seq(0..L) /\ postReq.q \in Seq(0..L)
  BY <1>0, UnitBounds, Messages DEF ReqSide
<1>4. CASE cnet = <<>>
  <2>1. pre1.q = <<>> /\ pre1.room = cap /\ net1 = <<>>
    <3>1. ReadUnits(cnet, preReq.room) = <<>> /\ net1 = <<>>
      <4>1. Len(<<>>) = 0 /\ Shorter(preReq.room, 0) = 0
        BY <1>3 DEF Shorter, Fresh
      <4>2. SubSeq(<<>>, 1, 0) = <<>> /\ SubSeq(<<>>, 0 + 1, 0) = <<>>
        BY SubSeqEmpty
      <4>3. QED BY <1>4, <4>1, <4>2 DEF ReadUnits, Unread
    <3>2. <<>> \o <<>> = <<>> /\ Len(<<>>) = 0
      BY EmptySeq, ConcatEmptySeq
    <3>3. QED BY <1>3, <3>1, <3>2 DEF Filled, Fresh
  <2> HIDE DEF pre1, net1
  <2>2. parsed = [ps |-> reqState, ok |-> TRUE, pre |-> pre1, post |-> postReq]
    BY <2>1 DEF CheckRequest
  <2>3. rest = [pre |-> pre1, post |-> postReq]
    BY <2>1, <2>2 DEF Drained
  <2>4. parsed.ok /\ parsed.ps = reqState /\ rest.pre = pre1 /\ rest.post = postReq /\ ~found
    BY <2>2, <2>3
  <2> HIDE DEF parsed, rest, found
  <2>5. /\ cnet' = cnet /\ reqState' = reqState /\ postReq' = postReq /\ resolver' = resolver
        /\ preReq'.q = <<>> /\ preReq'.room = cap /\ UNCHANGED <<origin_fd, freed>>
    BY <1>1, <1>4, <2>1, <2>4
  <2>6. ReqSide'
    BY <1>0, <1>1, <2>5 DEF ReqSide, Fresh, given
  <2>7. Finish'
    BY <1>0, <1>1, <2>5 DEF Finish
  <2>8. QED BY <1>2, <2>6, <2>7 DEF Good
<1>5. CASE cnet # <<>>
  <2>1. /\ reqState = "SEARCH" /\ gotO = <<>> /\ reqSent = L /\ cnet = Span(0, L)
        /\ postReq.q = <<>> /\ postReq.room = cap
    BY <1>0, <1>5 DEF ReqSide, Fresh, Core, Job
  <2>2. L # 0 /\ Len(cnet) = L
    <3>1. 0 \in 0..L /\ L \in 0..L /\ L - 0 = L
      BY <1>3
    <3>2. Span(0, L) \in Seq(0..L) /\ Len(Span(0, L)) = L - 0
      BY <1>3, <3>1, SpanSeq
    <3>3. QED BY <1>5, <2>1, <3>1, <3>2, EmptySeq
  <2>3. pre1.q = Span(0, L) /\ net1 = <<>>
    <3>1. Shorter(preReq.room, Len(cnet)) = L
      BY <1>3, <2>2 DEF Shorter, Fresh
    <3>2. SubSeq(cnet, 1, L) = cnet
      BY <1>3, <2>2, SubSeqFull
    <3>3. SubSeq(cnet, L + 1, L) = <<>>
      BY <1>3, SubSeqEmpty
    <3>4. ReadUnits(cnet, preReq.room) = cnet /\ net1 = <<>>
      BY <2>2, <3>1, <3>2, <3>3 DEF ReadUnits, Unread
    <3>5. <<>> \o cnet = cnet
      BY <1>3, ConcatEmptySeq
    <3>6. QED BY <1>3, <2>1, <3>4, <3>5 DEF Filled, Fresh
  <2> HIDE DEF pre1, net1
  <2>4. /\ \A i \in 2..L : request[i] # "line"
        /\ \A i \in 1..L : request[i] # "nul"
        /\ Len(P) <= cap /\ L \in Nat \ {0}
    BY <1>0, <1>3, <2>2, Messages DEF WellBehaved
  <2>5. rest.pre.q = <<>> /\ rest.pre.room = cap /\ rest.post.q = P
    <3>1. LET r == CheckRequest("SEARCH", pre1, postReq)
              d == Drained(r.pre, r.post)
          IN  d.pre.q = <<>> /\ d.pre.room = cap /\ d.post.q = Passed(request, {"line"}, L)
      BY <1>3, <2>1, <2>3, <2>4, RequestPasses
    <3>2. QED BY <2>1, <3>1
  <2>6. QueueType(pre1, request) /\ Flow(gotO, postReq.q, pre1.q, net1, reqSent)
    BY <1>0, ReadRequest DEF pre1, net1
  <2>7. /\ parsed.ps \in {"SEARCH", "FINISHED"}
        /\ ~parsed.ok => parsed.ps = "SEARCH"
    BY <1>0, <2>6, FlowPair, UnitBounds, CheckRequestMoves DEF Core, Types, Job
  <2> HIDE DEF parsed, rest
  <2>8. resolver = "none" /\ ~resolved
    BY <1>0, <2>1 DEF Core, Job, Finish
  <2>9. CASE ~parsed.ok
    <3>1. freed' = TRUE /\ reqState' = "SEARCH" /\ resolver' = "none"
      BY <1>1, <2>7, <2>8, <2>9 DEF ReleaseClient
    <3>2. ReqSide'
      BY <3>1 DEF ReqSide
    <3>3. Finish'
      BY <1>1, <2>8, <3>1 DEF Finish
    <3>4. QED BY <1>2, <3>2, <3>3 DEF Good
  <2>10. CASE parsed.ok
    <3>1. /\ freed' = freed /\ preReq'.q = <<>> /\ preReq'.room = cap /\ postReq'.q = P
          /\ reqSent' = L /\ cnet' = <<>> /\ gotO' = <<>> /\ Len(request') = L /\ request' = request
      BY <1>1, <2>1, <2>3, <2>5, <2>10
    <3>2. <<>> \o P = P
      <4>1. L \in 0..L
        BY <1>3
      <4>2. P \in Seq(0..L)
        BY <1>3, <4>1, PassedSeq
      <4>3. QED BY <4>2, ConcatEmptySeq
    <3>3. ReqSide'
      BY <1>0, <3>1, <3>2 DEF ReqSide, Fresh, given
    <3>4. Finish'
      BY <1>0, <1>1, <2>8, <3>1 DEF Finish
    <3>5. QED BY <1>2, <3>3, <3>4 DEF Good
  <2>11. QED BY <2>9, <2>10
<1>6. QED BY <1>4, <1>5

\* client_read in SEND_REQ: there is nothing more to read.
LEMMA GoodReadMore == ASSUME Handling, Good, ClientReadMore PROVE Good'
<1> DEFINE pre1 == Filled(preReq, ReadUnits(cnet, preReq.room))
           rest == Drained(pre1, postReq)
<1>0. Core /\ UNCHANGED given /\ ~freed /\ WellBehaved /\ Quiet /\ ReqSide /\ ResSide /\ Finish
  BY DEF Handling, Good
<1>1. /\ state = "SEND_REQ" /\ cnet' = Unread(cnet, preReq.room) /\ cpeer' = AfterError(cpeer)
      /\ preReq' = rest.pre /\ postReq' = rest.post /\ state' = "NO_ORIGIN"
      /\ UNCHANGED <<reqState, resState, preRes, postRes, origin_fd, freed, resolver, resolved>>
      /\ UNCHANGED <<request, reqSent, gotC, response, resSent, onet, opeer, gotO>>
  BY DEF ClientReadMore, orVars, jobVars
<1>2. cnet = <<>> /\ Fresh(preReq) /\ cap \in Nat
  BY <1>0, <1>1, UnitBounds DEF ReqSide, Core, Job
<1>3. pre1.q = <<>> /\ pre1.room = cap /\ cnet' = <<>>
  <2>1. ReadUnits(cnet, preReq.room) = <<>> /\ Unread(cnet, preReq.room) = <<>>
    <3>1. Len(<<>>) = 0 /\ Shorter(preReq.room, 0) = 0
      BY <1>2 DEF Shorter, Fresh
    <3>2. SubSeq(<<>>, 1, 0) = <<>> /\ SubSeq(<<>>, 0 + 1, 0) = <<>>
      BY SubSeqEmpty
    <3>3. QED BY <1>2, <3>1, <3>2 DEF ReadUnits, Unread
  <2>2. <<>> \o <<>> = <<>> /\ Len(<<>>) = 0
    BY EmptySeq, ConcatEmptySeq
  <2>3. QED BY <1>1, <1>2, <2>1, <2>2 DEF Filled, Fresh
<1> HIDE DEF pre1
<1>4. rest = [pre |-> pre1, post |-> postReq]
  BY <1>3 DEF Drained
<1> HIDE DEF rest
<1>5. /\ cnet' = cnet /\ postReq' = postReq /\ preReq'.q = <<>> /\ preReq'.room = cap
      /\ cpeer' = cpeer
  BY <1>0, <1>1, <1>2, <1>3, <1>4 DEF Quiet, AfterError
<1>6. WellBehaved' /\ Quiet' /\ ResSide'
  BY <1>0, <1>1, <1>5, BehavedKept, ResKept DEF Quiet, given
<1>7. ReqSide'
  BY <1>0, <1>1, <1>5 DEF ReqSide, Fresh, given
<1>8. Finish'
  BY <1>0, <1>1 DEF Finish
<1>9. QED BY <1>6, <1>7, <1>8 DEF Good

\* client_write: what the buffer loses, the user agent gains.
LEMMA GoodWriteSome == ASSUME Handling, Good, ClientWriteSome PROVE Good'
<1>0. Core /\ UNCHANGED given /\ ~freed /\ WellBehaved /\ Quiet /\ ReqSide /\ ResSide /\ Finish
  BY DEF Handling, Good
<1>1. PICK k \in 1..Len(postRes.q) :
         /\ postRes' = Advanced(postRes, k, cap)
         /\ gotC' = IF cpeer = "open" THEN gotC \o SubSeq(postRes.q, 1, k) ELSE gotC
  BY DEF ClientWriteSome
<1>2. /\ cpeer' = (IF cpeer = "closed" THEN "broken" ELSE cpeer)
      /\ UNCHANGED <<state, reqState, resState, preReq, postReq, preRes, origin_fd, freed>>
      /\ UNCHANGED <<resolver, resolved, request, reqSent, cnet, response, resSent, onet, opeer, gotO>>
  BY DEF ClientWriteSome, orVars, jobVars
<1>3. WellBehaved' /\ Quiet' /\ ReqSide'
  BY <1>0, <1>2, BehavedKept, ReqKept DEF Quiet, given
<1>4. Finish'
  BY <1>0, <1>2 DEF Finish
<1> DEFINE S == 0..Len(response)  q == postRes.q
<1>5. gotC \in Seq(S) /\ q \in Seq(S) /\ cap \in Nat /\ postRes.room \in 0..cap
  BY <1>0, UnitBounds DEF Core, Types, QueueType
<1>6. /\ gotC' = gotC \o SubSeq(q, 1, k) /\ postRes'.q = SubSeq(q, k + 1, Len(q))
      /\ postRes'.room \in {cap, postRes.room}
  BY <1>0, <1>1 DEF Quiet, Advanced
<1> HIDE DEF S
<1>7. /\ gotC' \in Seq(S) /\ postRes'.q \in Seq(S)
      /\ gotC' \o postRes'.q = gotC \o q /\ Len(gotC') + Len(postRes'.q) = Len(gotC) + Len(q)
  <2>1. /\ gotC \o SubSeq(q, 1, k) \in Seq(S) /\ SubSeq(q, k + 1, Len(q)) \in Seq(S)
        /\ (gotC \o SubSeq(q, 1, k)) \o SubSeq(q, k + 1, Len(q)) = gotC \o q
        /\ Len(gotC \o SubSeq(q, 1, k)) + Len(SubSeq(q, k + 1, Len(q))) = Len(gotC) + Len(q)
    <3>1. k \in 1..Len(q)
      BY <1>1
    <3> HIDE DEF q
    <3>2. QED BY ONLY <1>5, <3>1, Handed, ZenonT(60)
  <2>2. QED BY <1>6, <2>1
<1>8. Len(gotC) \in Nat /\ Len(postRes.q) \in Nat /\ Len(gotC') \in Nat /\ Len(postRes'.q) \in Nat
  BY <1>5, <1>7, LenProperties
<1>9. cap <= postRes.room + Len(gotC) + Len(postRes.q)
  BY <1>0 DEF ResSide
<1>10. cap <= postRes'.room + Len(gotC') + Len(postRes'.q)
  <2> DEFINE a == Len(gotC)  b == Len(postRes.q)  c == Len(gotC')  d == Len(postRes'.q)  r == postRes'.room
  <2>1. a \in Nat /\ b \in Nat /\ c \in Nat /\ d \in Nat /\ c + d = a + b /\ r \in {cap, postRes.room}
    BY <1>6, <1>7, <1>8
  <2>2. cap <= postRes.room + a + b
    BY <1>9
  <2> HIDE DEF a, b, c, d, r
  <2>3. cap <= r + c + d
    BY <1>5, <2>1, <2>2
  <2>4. QED BY <2>3 DEF c, d, r
<1>11. ResSide'
  BY <1>0, <1>2, <1>7, <1>10 DEF ResSide, Fresh, given
<1>12. QED BY <1>3, <1>4, <1>11 DEF Good

\* client_write, everything sent: the response was finished.
LEMMA GoodWriteFinished == ASSUME Handling, Good, ClientWriteFinished PROVE Good'
<1>0. Core /\ UNCHANGED given /\ ~freed /\ WellBehaved /\ Quiet /\ ReqSide /\ ResSide /\ Finish
  BY DEF Handling, Good
<1>1. /\ state = "READ_RESP" /\ postRes.q = <<>> /\ origin_fd = NoFd
      /\ freed' = TRUE /\ origin_fd' = NoFd
      /\ UNCHANGED <<state, reqState, resState, preReq, postReq, preRes, postRes>>
      /\ UNCHANGED <<resolver, resolved, request, reqSent, cnet, cpeer, gotC>>
      /\ UNCHANGED <<response, resSent, onet, opeer, gotO>>
  BY DEF ClientWriteFinished, CanRead, ReleaseClient, bufVars, jobVars, uaVars, orVars
<1>2. WellBehaved' /\ Quiet' /\ ReqSide' /\ ResSide'
  BY <1>0, <1>1, BehavedKept, ReqKept, ResKept DEF Quiet, given
<1>3. resolver = "done"
  BY <1>0, <1>1 DEF Core, Job
<1>4. Finish'
  BY <1>0, <1>1, <1>3 DEF Finish
<1>5. QED BY <1>2, <1>4 DEF Good

\* client_block: the name was not resolved, or the connection is being made.
LEMMA GoodBlock == ASSUME Reported, Good, client_block PROVE Good'
<1>0. /\ Core /\ UNCHANGED given /\ ~freed /\ WellBehaved /\ Quiet /\ ReqSide /\ ResSide /\ Finish
      /\ resolver' = "done" /\ resolved' = resolved /\ state = "NO_ORIGIN"
  BY DEF Reported, Handling, Good, Core, Job
<1>1. BlockUnresolved \/ BlockConnecting
  BY <1>0, NoFaults DEF client_block, BlockNoSocket, BlockConnected
<1>2. /\ UNCHANGED <<reqState, resState, preReq, postReq, preRes, postRes>>
      /\ UNCHANGED <<request, reqSent, cnet, cpeer, gotC, response, resSent, onet, gotO>>
      /\ \/ freed' = TRUE /\ ~resolved /\ opeer' = opeer /\ state' = state
         \/ freed' = freed /\ opeer' = "connecting" /\ state' = "SEND_REQ"
  BY <1>1 DEF BlockUnresolved, BlockConnecting, ReleaseClient, bufVars, uaVars, orVars
<1>3. WellBehaved' /\ Quiet' /\ ReqSide' /\ ResSide'
  BY <1>0, <1>2, BehavedKept, ReqKept, ResKept DEF Quiet, given
<1>4. Finish'
  BY <1>0, <1>2 DEF Finish
<1>5. QED BY <1>3, <1>4 DEF Good

\* remote_write: what the buffer loses, the origin gains.
LEMMA GoodRemoteWriteSome == ASSUME Remote, Good, RemoteWriteSome PROVE Good'
<1>0. Core /\ UNCHANGED given /\ ~freed /\ WellBehaved /\ Quiet /\ ReqSide /\ ResSide /\ Finish
  BY DEF Remote, Handling, Good
<1>1. PICK k \in 1..Len(postReq.q) :
         /\ postReq' = Advanced(postReq, k, cap)
         /\ gotO' = IF opeer = "open" THEN gotO \o SubSeq(postReq.q, 1, k) ELSE gotO
  BY DEF RemoteWriteSome
<1>2. /\ state = "SEND_REQ" /\ opeer \in {"open", "closed"}
      /\ opeer' = (IF opeer = "closed" THEN "broken" ELSE opeer)
      /\ UNCHANGED <<state, reqState, resState, preReq, preRes, postRes, origin_fd, freed>>
      /\ UNCHANGED <<resolver, resolved, request, reqSent, cnet, cpeer, gotC, response, resSent, onet>>
  BY DEF RemoteWriteSome, uaVars, jobVars
<1>3. WellBehaved' /\ Quiet' /\ ResSide' /\ opeer = "open"
  BY <1>0, <1>2, BehavedKept, ResKept DEF Quiet, given
<1>4. Finish'
  BY <1>0, <1>2 DEF Finish
<1> DEFINE S == 0..Len(request)
<1>5. gotO \in Seq(S) /\ postReq.q \in Seq(S)
  BY <1>0, UnitBounds
<1>6. /\ gotO' = gotO \o SubSeq(postReq.q, 1, k)
      /\ postReq'.q = SubSeq(postReq.q, k + 1, Len(postReq.q))
  BY <1>1, <1>3 DEF Advanced
<1> HIDE DEF S
<1>7. gotO' \in Seq(S) /\ gotO' \o postReq'.q = gotO \o postReq.q
  <2> DEFINE q == postReq.q
  <2>1. k \in 1..Len(q) /\ q \in Seq(S) /\ gotO \in Seq(S)
    BY <1>1, <1>5
  <2>2. /\ gotO \o SubSeq(q, 1, k) \in Seq(S)
        /\ (gotO \o SubSeq(q, 1, k)) \o SubSeq(q, k + 1, Len(q)) = gotO \o q
    <3> HIDE DEF q
    <3>1. QED BY ONLY <2>1, Handed
  <2>3. QED BY <1>6, <2>2
<1>8. reqState = "FINISHED"
  BY <1>0, <1>2 DEF Core, Job
<1>9. ReqSide'
  BY <1>0, <1>2, <1>7, <1>8 DEF ReqSide, Fresh, given
<1>10. QED BY <1>3, <1>4, <1>9 DEF Good

\* remote_write, the request written: the origin is still there.
LEMMA GoodRemoteWriteDone == ASSUME Remote, Good, RemoteWriteDone PROVE Good'
<1>0. /\ Core /\ UNCHANGED given /\ ~freed /\ WellBehaved /\ Quiet /\ ReqSide /\ ResSide /\ Finish
      /\ origin_fd # NoFd
  BY DEF Remote, Handling, Good
<1>1. /\ UNCHANGED <<reqState, resState, preReq, postReq, preRes, postRes, origin_fd, freed>>
      /\ UNCHANGED <<resolver, resolved, request, reqSent, cnet, cpeer, gotC>>
      /\ UNCHANGED <<response, resSent, onet, opeer, gotO>>
  BY DEF RemoteWriteDone, bufVars, jobVars, uaVars, orVars
<1>2. WellBehaved' /\ Quiet' /\ ReqSide' /\ ResSide'
  BY <1>0, <1>1, BehavedKept, ReqKept, ResKept DEF Quiet, given
<1>3. Finish'
  BY <1>0, <1>1 DEF Finish
<1>4. QED BY <1>2, <1>3 DEF Good

\* remote_read: all that has arrived is read, parsed and passed on.
LEMMA GoodRemoteRead == ASSUME Remote, Good, RemoteReadParse PROVE Good'
<1> DEFINE pre1   == Filled(preRes, ReadUnits(onet, preRes.room))
           parsed == CheckResponse(pre1, postRes)
           L      == Len(response)
           R      == {"head", "bare"}
           a      == resSent - Len(onet)
<1>0. /\ Core /\ UNCHANGED given /\ ~freed /\ WellBehaved /\ Quiet /\ ReqSide /\ ResSide /\ Finish
      /\ origin_fd # NoFd
  BY DEF Remote, Handling, Good
<1>1. /\ state = "READ_RESP" /\ onet # <<>> /\ onet' = Unread(onet, preRes.room)
      /\ preRes' = parsed.pre /\ postRes' = parsed.post /\ resState' = parsed.rs
      /\ parsed.ok => origin_fd' = origin_fd \/ parsed.rs = "FINISHED"
      /\ UNCHANGED <<state, reqState, preReq, postReq, freed, resolver, resolved, request, reqSent, cnet>>
      /\ UNCHANGED <<cpeer, gotC, response, resSent, opeer, gotO>>
  BY DEF RemoteReadParse, jobVars, uaVars
<1>2. WellBehaved' /\ Quiet' /\ ReqSide'
  BY <1>0, <1>1, BehavedKept, ReqKept DEF Quiet, given
<1>3. /\ cap \in Nat /\ L \in Nat \ {0} /\ L <= cap /\ resSent \in 0..L /\ onet \in Seq(0..L)
      /\ gotC \in Seq(0..L) /\ postRes.q \in Seq(0..L) /\ postRes.room \in Nat
  <2>1. L <= cap /\ L # 0
    BY <1>0, Messages
  <2>2. /\ cap \in Nat /\ L \in Nat /\ onet \in Seq(0..L)
        /\ gotC \in Seq(0..L) /\ postRes.q \in Seq(0..L) /\ Units(response) = 0..L
    BY <1>0, UnitBounds
  <2>3. postRes.room \in 0..cap /\ resSent \in Units(response)
    BY <1>0 DEF Core, Types, QueueType
  <2>4. QED BY <2>1, <2>2, <2>3
<1>4. /\ a \in 0..resSent /\ onet = Span(a, resSent) /\ preRes.q = <<>> /\ preRes.room = cap
      /\ gotC \o postRes.q = Passed(response, R, a)
      /\ cap <= postRes.room + Len(gotC) + Len(postRes.q)
  BY <1>0 DEF ResSide, Fresh
<1>5. Len(onet) \in Nat \ {0} /\ Len(onet) <= cap
  <2>1. Len(onet) \in Nat /\ Len(onet) # 0
    BY <1>1, <1>3, EmptySeq, LenProperties
  <2>2. QED BY <1>3, <1>4, <2>1
<1>6. resSent \in 1..L /\ a \in 0..(resSent - 1)
  BY <1>3, <1>4, <1>5
<1>7. pre1.q = Span(a, resSent) /\ onet' = <<>>
  <2>1. Shorter(preRes.room, Len(onet)) = Len(onet)
    BY <1>3, <1>4, <1>5 DEF Shorter
  <2>2. SubSeq(onet, 1, Len(onet)) = onet
    BY <1>3, SubSeqFull
  <2>3. SubSeq(onet, Len(onet) + 1, Len(onet)) = <<>>
    BY <1>5, SubSeqEmpty
  <2>4. ReadUnits(onet, preRes.room) = onet /\ onet' = <<>>
    BY <1>1, <2>1, <2>2, <2>3 DEF ReadUnits, Unread
  <2>5. <<>> \o onet = onet
    BY <1>3, ConcatEmptySeq
  <2>6. QED BY <1>4, <2>4, <2>5 DEF Filled
<1> HIDE DEF pre1
<1>8. /\ \A i \in 2..L : response[i] \notin {"head", "bare"}
      /\ \A i \in 1..(L - 1) : response[i] \notin {"last", "bare"}
      /\ \A i \in 1..L : response[i] # "bad"
      /\ response[L] \in {"last", "bare"}
      /\ Len(Passed(response, {"head", "bare"}, L)) <= cap
  <2>1. \A i \in 1..L : response[i] # "bad"
    BY <1>0 DEF WellBehaved
  <2>2. response[L] \in {"last", "bare"}
    BY <1>0 DEF WellBehaved
  <2>3. Len(Passed(response, {"head", "bare"}, L)) <= cap
    BY <1>0, Messages
  <2>4. QED BY <1>0, <2>1, <2>2, <2>3, Messages
<1>9. /\ parsed.ok /\ parsed.pre.q = <<>> /\ parsed.pre.room = cap
      /\ gotC \o parsed.post.q = Passed(response, R, resSent)
      /\ cap <= parsed.post.room + Len(gotC) + Len(parsed.post.q)
      /\ parsed.rs = IF resSent = L THEN "FINISHED" ELSE "PARSING"
  <2>2. L \in Nat \ {0} /\ cap \in Nat
    BY <1>3
  <2>3. LET r == CheckResponse(pre1, postRes)
        IN  /\ r.ok /\ r.pre.q = <<>> /\ r.pre.room = cap
            /\ gotC \o r.post.q = Passed(response, {"head", "bare"}, resSent)
            /\ cap <= r.post.room + Len(gotC) + Len(r.post.q)
            /\ r.rs = IF resSent = Len(response) THEN "FINISHED" ELSE "PARSING"
    BY ONLY <1>3, <1>4, <1>6, <1>7, <1>8, <2>2, ResponsePasses
  <2>4. QED BY <2>3
<1> HIDE DEF parsed
<1>10. /\ resSent - Len(<<>>) = resSent /\ resSent \in 0..resSent
       /\ <<>> = Span(resSent, resSent)
  <2>1. Len(<<>>) = 0 /\ resSent - 0 = resSent /\ resSent \in 0..resSent /\ resSent - resSent = 0
    BY <1>6, EmptySeq
  <2>2. Span(resSent, resSent) \in Seq(0..L) /\ Len(Span(resSent, resSent)) = resSent - resSent
    BY <1>3, <2>1, SpanSeq
  <2>3. QED BY <2>1, <2>2, EmptySeq
<1>11. ResSide'
  <2>1. /\ resSent' - Len(onet') = resSent /\ resSent' = resSent /\ onet' = <<>> /\ response' = response
        /\ cap' = cap /\ gotC' = gotC
    BY <1>0, <1>1, <1>7, <1>10 DEF given
  <2>2. /\ preRes'.q = <<>> /\ preRes'.room = cap
        /\ gotC \o postRes'.q = Passed(response, {"head", "bare"}, resSent)
        /\ cap <= postRes'.room + Len(gotC) + Len(postRes'.q)
        /\ resState' = "FINISHED" <=> resSent = L
    BY <1>1, <1>9
  <2>3. QED BY <1>10, <2>1, <2>2 DEF ResSide, Fresh
<1>12. Finish'
  BY <1>0, <1>1, <1>9 DEF Finish
<1>13. QED BY <1>2, <1>11, <1>12 DEF Good

\* A handler that does not move a unit nor release anything.
LEMMA GoodIdle ==
    ASSUME Handling, Good,
           \/ ClientReadFull \/ ClientReadIgnored \/ ClientWriteSigpipe \/ ClientWriteIgnored
           \/ RemoteWriteSigpipe \/ RemoteWriteIgnored \/ RemoteReadNothing
    PROVE  Good'
<1>1. UNCHANGED <<given, cdtVars, jobVars, uaVars, orVars>>
  BY DEF Handling, ClientReadFull, ClientReadIgnored, ClientWriteSigpipe, ClientWriteIgnored,
         RemoteWriteSigpipe, RemoteWriteIgnored, RemoteReadNothing
<1>2. QED BY <1>1, GoodKept DEF cdtVars, jobVars, uaVars, orVars

\* No read(2) or write(2) fails.
LEMMA NoErrors ==
    ASSUME Quiet
    PROVE  ~ClientReadError /\ ~ClientWriteError /\ ~RemoteWriteError /\ ~RemoteReadError
BY DEF Quiet, ClientReadError, ClientWriteError, RemoteWriteError, RemoteReadError

\* handle_iteration visits one descriptor.
LEMMA GoodDispatch == ASSUME Inv, Good, proxy = "up", UNCHANGED given, Dispatch PROVE Good'
<1>0. Core /\ Quiet
  BY DEF Inv, Good
<1>1. PICK x \in slave :
         \/ Due(x[1], x[2]) /\ Handler(x[1], x[2])
         \/ ~Due(x[1], x[2]) /\ UNCHANGED <<cdtVars, jobVars, procVars, uaVars, orVars>>
  BY DEF Dispatch
<1>2. x[1] \in FD
  BY <1>1 DEF Inv, Loop
<1>3. CASE ~Due(x[1], x[2]) /\ UNCHANGED <<cdtVars, jobVars, procVars, uaVars, orVars>>
  BY <1>3, GoodKept DEF cdtVars, jobVars, uaVars, orVars
<1>4. CASE Due(x[1], x[2]) /\ Handler(x[1], x[2])
  <2>1. /\ Handling
        /\ x[1] # client_fd => Remote
    BY <1>0, <1>2, <1>4, DueIsRegistered DEF Handling, Remote
  <2>2. CASE x[1] = client_fd /\ client_read
    BY <1>0, <2>1, <2>2, GoodIdle, GoodReadParse, GoodReadMore, NoErrors DEF client_read
  <2>3. CASE x[1] = client_fd /\ client_write
    BY <1>0, <2>1, <2>3, GoodIdle, GoodWriteSome, GoodWriteFinished, NoErrors DEF client_write
  <2>4. CASE x[1] # client_fd /\ remote_read
    BY <1>0, <2>1, <2>4, GoodIdle, GoodRemoteRead, NoErrors DEF remote_read
  <2>5. CASE x[1] # client_fd /\ remote_write
    BY <1>0, <2>1, <2>5, GoodIdle, GoodRemoteWriteSome, GoodRemoteWriteDone, NoErrors DEF remote_write
  <2>6. QED BY <1>4, <2>2, <2>3, <2>4, <2>5 DEF Handler
<1>5. QED BY <1>1, <1>3, <1>4

\* handle_block_notifications: there is no report for a released client.
LEMMA GoodNotify == ASSUME Inv, Good, proxy = "up", UNCHANGED given, Notify PROVE Good'
<1>1. CASE resolver = "queued" /\ Registered /\ resolver' = "done" /\ UNCHANGED resolved /\ client_block
  <2>1. Reported
    BY <1>1 DEF Reported, Handling, Inv, Core, Table
  <2>2. QED BY <1>1, <2>1, GoodBlock
<1>2. CASE resolver = "queued" /\ ~Registered
  BY <1>2 DEF Inv, Core, Table, Good, Finish
<1>3. CASE resolver # "queued" /\ UNCHANGED <<jobVars, cdtVars, procVars, uaVars, orVars>>
  BY <1>3, GoodKept DEF cdtVars, jobVars, uaVars, orVars
<1>4. QED BY <1>1, <1>2, <1>3 DEF Notify

\* The resolver thread reports: the client is not released before that.
LEMMA GoodResolver == ASSUME Good, ResolverReports PROVE Good'
<1>1. /\ resolver = "running" /\ resolver' = "queued"
      /\ UNCHANGED <<given, cdtVars, uaVars, orVars>>
  BY DEF ResolverReports
<1>2. WellBehaved' /\ Quiet' /\ ReqSide' /\ ResSide'
  BY <1>1, BehavedKept, ReqKept, ResKept DEF Good, Quiet, given, cdtVars, bufVars, uaVars, orVars
<1>3. Finish'
  BY <1>1 DEF Good, Finish, cdtVars, bufVars
<1>4. QED BY <1>2, <1>3 DEF Good

\* The user agent sends its request, all of it.
LEMMA GoodUaSends == ASSUME Core, Good, UaSends PROVE Good'
<1> DEFINE L == Len(request)
<1>0. WellBehaved /\ Quiet /\ ReqSide /\ ResSide /\ Finish
  BY DEF Good
<1>1. /\ UNCHANGED <<given, cdtVars, jobVars, request, cpeer, gotC, orVars>>
      /\ reqSent < L /\ client_fd \in open
      /\ reqSent' = L
      /\ cnet' = cnet \o [i \in 1..(reqSent' - reqSent) |-> reqSent + i]
  BY <1>0, NoFaults DEF UaSends, ClientOpen
<1>2. ~freed /\ L \in Nat /\ reqState \in {"SEARCH", "FINISHED"}
  BY <1>1, UnitBounds DEF Core, Table, Job
<1>3. reqState = "SEARCH" /\ gotO = <<>> /\ reqSent = 0 /\ cnet = <<>> /\ Fresh(postReq) /\ Fresh(preReq)
  BY <1>0, <1>1, <1>2 DEF ReqSide
<1>4. cnet' = <<>> \o Span(0, L)
  <2>1. reqSent' - reqSent = L - 0
    BY <1>1, <1>3
  <2>2. [i \in 1..(reqSent' - reqSent) |-> reqSent + i] = Span(0, L)
    BY <1>3, <2>1 DEF Span
  <2>3. QED BY <1>1, <1>3, <2>2
<1>5. <<>> \o Span(0, L) = Span(0, L)
  <2>1. L \in 0..L /\ 0 \in 0..L
    BY <1>2
  <2>2. Span(0, L) \in Seq(0..L)
    BY <1>2, <2>1, SpanSeq
  <2>3. QED BY <2>2, ConcatEmptySeq
<1>6. ReqSide'
  <2>1. UNCHANGED <<cap, request, reqState, gotO, preReq, postReq, freed>>
    BY <1>1 DEF given, cdtVars, bufVars, orVars
  <2>2. QED BY <1>1, <1>2, <1>3, <1>4, <1>5, <2>1 DEF ReqSide, Fresh
<1>7. WellBehaved' /\ Quiet' /\ ResSide'
  BY <1>0, <1>1, BehavedKept, ResKept DEF Quiet, given, cdtVars, bufVars, orVars
<1>8. Finish'
  BY <1>0, <1>1 DEF Finish, cdtVars, bufVars, jobVars
<1>9. QED BY <1>6, <1>7, <1>8 DEF Good

\* The origin sends the next unit of its response.
LEMMA GoodOriginSends == ASSUME Core, Good, OriginSends PROVE Good'
<1> DEFINE L == Len(response)
           n == resSent - Len(onet)
<1>0. WellBehaved /\ Quiet /\ ReqSide /\ ResSide /\ Finish
  BY DEF Good
<1>1. /\ UNCHANGED <<given, cdtVars, jobVars, uaVars, response, opeer, gotO>>
      /\ resSent < L /\ resSent' = resSent + 1 /\ onet' = Append(onet, resSent + 1)
  BY DEF OriginSends
<1>2. L \in Nat /\ resSent \in 0..L /\ onet \in Seq(0..L) /\ Len(onet) \in Nat
  BY UnitBounds, LenProperties DEF Core, Types
<1>3. n \in 0..resSent /\ onet = Span(n, resSent)
  BY <1>0 DEF ResSide
<1>4. resSent + 1 \in 0..L /\ n \in 0..(resSent + 1) /\ resSent \in 0..(resSent + 1)
  BY <1>1, <1>2, <1>3
<1>5. Len(onet') = Len(onet) + 1 /\ onet' = onet \o <<resSent + 1>>
  BY <1>1, <1>2, <1>4, AppendProperties, AppendIsConcat
<1>6. resSent' - Len(onet') = n
  BY <1>1, <1>2, <1>5
<1> HIDE DEF n
<1>7. onet' = Span(n, resSent + 1)
  <2>1. Span(resSent, resSent + 1) = <<resSent + 1>>
    BY <1>2, SpanNext
  <2>2. Span(n, resSent) \o Span(resSent, resSent + 1) = Span(n, resSent + 1)
    BY <1>2, <1>3, <1>4, SpanJoin
  <2>3. QED BY <1>3, <1>5, <2>1, <2>2
<1>8. ResSide'
  <2>1. UNCHANGED <<cap, response, resState, gotC, preRes, postRes>>
    BY <1>1 DEF given, cdtVars, bufVars, uaVars
  <2>2. /\ Fresh(preRes) /\ gotC \o postRes.q = Passed(response, {"head", "bare"}, n)
        /\ cap <= postRes.room + Len(gotC) + Len(postRes.q)
        /\ resState = "FINISHED" <=> n = Len(response)
    BY <1>0 DEF ResSide, n
  <2>3. QED BY <1>1, <1>4, <1>6, <1>7, <2>1, <2>2 DEF ResSide, Fresh
<1>9. WellBehaved' /\ Quiet' /\ ReqSide'
  BY <1>0, <1>1, BehavedKept, ReqKept DEF Quiet, given, cdtVars, bufVars, uaVars
<1>10. Finish'
  BY <1>0, <1>1 DEF Finish, cdtVars, bufVars, jobVars
<1>11. QED BY <1>8, <1>9, <1>10 DEF Good

\* The origin accepts the connection.
LEMMA GoodOriginAccepts == ASSUME Good, OriginAccepts PROVE Good'
<1>1. /\ UNCHANGED <<given, cdtVars, jobVars, uaVars, response, resSent, onet, gotO>>
      /\ opeer' = "open"
  BY NoFaults DEF OriginAccepts, Good
<1>2. WellBehaved' /\ ReqSide' /\ ResSide'
  BY <1>1, BehavedKept, ReqKept, ResKept DEF Good, given, cdtVars, bufVars, uaVars
<1>3. Quiet' /\ Finish'
  BY <1>1 DEF Good, Quiet, Finish, cdtVars, bufVars, jobVars, uaVars
<1>4. QED BY <1>2, <1>3 DEF Good

\* client_new leaves the buffers empty.
LEMMA InitDelivery == Init => Delivery
<1> SUFFICES ASSUME Init, WellBehaved PROVE Good
  BY DEF Delivery
<1>1. Core
  BY InitInv DEF Inv
<1>2. /\ preReq.q = <<>> /\ postReq.q = <<>> /\ preRes.q = <<>> /\ postRes.q = <<>>
      /\ preReq.room = cap /\ postReq.room = cap /\ preRes.room = cap /\ postRes.room = cap
  BY DEF Init, NewQueue
<1>3. Len(response) \in Nat /\ Len(response) # 0 /\ cap \in Nat
  BY <1>1, Messages, UnitBounds
<1>4. Len(<<>>) = 0 /\ <<>> \o <<>> = <<>> /\ 0 - 0 = 0 /\ 0 \in 0..0
  BY EmptySeq, ConcatEmptySeq
<1>5. <<>> = Span(0, 0)
  <2>1. 0 \in 0..Len(response)
    BY <1>3
  <2>2. Span(0, 0) \in Seq(0..Len(response)) /\ Len(Span(0, 0)) = 0 - 0
    BY <1>3, <1>4, <2>1, SpanSeq
  <2>3. QED BY <1>4, <2>2, EmptySeq
<1>6. <<>> = Passed(response, {"head", "bare"}, 0)
  BY DEF Passed
<1>7. ResSide
  <2>1. /\ resSent = 0 /\ onet = <<>> /\ gotC = <<>> /\ resState = "PARSING"
    BY DEF Init
  <2>2. resSent - Len(onet) = 0
    BY <1>4, <2>1
  <2>3. cap <= postRes.room + Len(gotC) + Len(postRes.q)
    BY <1>2, <1>3, <1>4, <2>1
  <2>4. QED BY <1>2, <1>3, <1>4, <1>5, <1>6, <2>1, <2>2, <2>3 DEF ResSide, Fresh
<1>8. Quiet /\ ReqSide /\ Finish
  BY <1>2 DEF Init, Quiet, ReqSide, Fresh, Finish
<1>9. QED BY <1>7, <1>8 DEF Good

\* The messages and the surroundings are the same in every step.
LEMMA Constants == [Next]_vars => UNCHANGED <<given, request, response>>
<1> SUFFICES ASSUME [Next]_vars PROVE UNCHANGED <<given, request, response>>
  OBVIOUS
<1>1. CASE MainStep
  <2>0. UNCHANGED given
    BY <1>1 DEF MainStep
  <2>1. CASE Select \/ Interrupted
    BY <2>0, <2>1 DEF Select, Interrupted, uaVars, orVars
  <2>2. CASE Dispatch
    <3>1. client_read => UNCHANGED <<request, response>>
      BY DEF client_read, ClientReadFull, ClientReadParse, ClientReadError, ClientReadMore,
             ClientReadIgnored, uaVars, orVars
    <3>2. client_write => UNCHANGED <<request, response>>
      BY DEF client_write, ClientWriteSome, ClientWriteError, ClientWriteSigpipe,
             ClientWriteFinished, ClientWriteIgnored, uaVars, orVars
    <3>3. remote_read => UNCHANGED <<request, response>>
      BY DEF remote_read, RemoteReadParse, RemoteReadError, RemoteReadNothing, uaVars, orVars
    <3>4. remote_write => UNCHANGED <<request, response>>
      BY DEF remote_write, RemoteWriteSome, RemoteWriteError, RemoteWriteSigpipe,
             RemoteWriteDone, RemoteWriteIgnored, uaVars, orVars
    <3>5. QED BY <2>0, <2>2, <3>1, <3>2, <3>3, <3>4 DEF Dispatch, Handler, uaVars, orVars
  <2>3. CASE Notify
    BY <2>0, <2>3 DEF Notify, client_block, BlockUnresolved, BlockNoSocket, BlockConnecting,
                      BlockConnected, uaVars, orVars
  <2>4. QED BY <1>1, <2>1, <2>2, <2>3 DEF MainStep
<1>2. CASE ResolverReports \/ UaSends \/ UaCloses \/ UaResets
  BY <1>2 DEF ResolverReports, UaSends, UaCloses, UaResets, uaVars, orVars
<1>3. CASE OriginAccepts \/ OriginSends \/ OriginCloses \/ OriginResets
  BY <1>3 DEF OriginAccepts, OriginSends, OriginCloses, OriginResets, uaVars, orVars
<1>4. CASE UNCHANGED vars
  BY <1>4 DEF vars, uaVars, orVars
<1>5. QED BY <1>1, <1>2, <1>3, <1>4 DEF Next

\* Every step preserves it.
LEMMA NextDelivery == Inv /\ Delivery /\ [Next]_vars => Delivery'
<1> SUFFICES ASSUME Inv, Delivery, [Next]_vars, WellBehaved' PROVE Good'
  BY DEF Delivery
<1>0. Core
  BY DEF Inv
<1>1. Good
  <2>1. WellBehaved
    BY Constants DEF WellBehaved, ForwardedRequest, ForwardedResponse, given
  <2>2. QED BY <2>1 DEF Delivery
<1>2. CASE MainStep
  <2>1. proxy = "up" /\ UNCHANGED given
    BY <1>2 DEF MainStep
  <2>2. CASE Select \/ Interrupted
    BY <1>1, <2>1, <2>2, GoodKept DEF Select, Interrupted, cdtVars, jobVars, uaVars, orVars
  <2>3. CASE Dispatch
    BY <1>1, <2>1, <2>3, GoodDispatch
  <2>4. CASE Notify
    BY <1>1, <2>1, <2>4, GoodNotify
  <2>5. QED BY <1>2, <2>2, <2>3, <2>4 DEF MainStep
<1>3. CASE ResolverReports
  BY <1>1, <1>3, GoodResolver
<1>4. CASE UaSends
  BY <1>0, <1>1, <1>4, GoodUaSends
<1>5. CASE OriginAccepts
  BY <1>1, <1>5, GoodOriginAccepts
<1>6. CASE OriginSends
  BY <1>0, <1>1, <1>6, GoodOriginSends
<1>7. CASE UaCloses \/ UaResets \/ OriginCloses \/ OriginResets
  BY <1>1, <1>7, NoFaults DEF Good, UaCloses, UaResets, OriginCloses, OriginResets
<1>8. CASE UNCHANGED vars
  BY <1>1, <1>8, GoodKept DEF vars, cdtVars, jobVars, uaVars, orVars
<1>9. QED BY <1>2, <1>3, <1>4, <1>5, <1>6, <1>7, <1>8 DEF Next

-----------------------------------------------------------------------------
(* The results. *)

\* Every variable keeps its type, whatever the order of the handlers, of the
\* resolver thread and of the peers: no buffer exceeds the room malloc gave it
\* and the metric of concurrent connections never leaves 0..1.
THEOREM TypeCorrect == Spec => []TypeOK
<1>1. QED BY InitInv, NextInv, CoreTypes, PTL DEF Spec

\* The handlers release the two descriptors of a connection together with their
\* registrations: pselect never waits on a closed one, and a released client
\* leaves none behind.
THEOREM Descriptors == Spec => []DescriptorsMatch
<1>1. Inv => DescriptorsMatch
  <2>1. SUFFICES ASSUME Table PROVE DescriptorsMatch
    BY DEF Inv, Core
  <2>2. open \subseteq {client_fd, origin_fd}
    BY <2>1 DEF Table
  <2>3. \A fd \in FD : ITEM_USED(sel, fd) => fd \in open \cap {client_fd, origin_fd}
    BY <2>1, <2>2 DEF Table
  <2>4. ~Registered => open = {} /\ origin_fd = NoFd
    BY <2>1 DEF Table
  <2>5. QED BY <2>2, <2>3, <2>4 DEF DescriptorsMatch
<1>2. QED BY <1>1, InitInv, NextInv, PTL DEF Spec

\* client_close runs once for a connection, whatever released it: the metric of
\* concurrent connections counts the registered ones.
THEOREM InstCounted == Spec => []InstCountsRegistered
<1>1. Inv => InstCountsRegistered
  BY DEF Inv, Core, Table, InstCountsRegistered
<1>2. QED BY <1>1, InitInv, NextInv, PTL DEF Spec

\* remote_write starts reading the response only after it has written what was
\* buffered of the request, and never because of the value client_new left
\* uninitialised in request_complete.
THEOREM RequestFirst == Spec => []RequestBeforeResponse
<1>1. Inv => RequestBeforeResponse
  BY DEF Inv, Core, Job, Watch, RequestBeforeResponse, CanRead
<1>2. QED BY <1>1, InitInv, NextInv, PTL DEF Spec

\* The pieces of the request and of the response stay in order and none is
\* duplicated, through partial reads and writes, full buffers, the parsers and
\* the copy that follows them.
THEOREM StaysInOrder == Spec => []InOrder
<1>1. Inv => InOrder
  BY UnitBounds, FlowInOrder DEF Inv, Core, Flows, InOrder
<1>2. QED BY <1>1, InitInv, NextInv, PTL DEF Spec

\* No wake-up is lost: the interest the next step of a connection needs is in
\* the master sets, although the handlers of one descriptor set the interests
\* of the other.
THEOREM NextWatched == Spec => []NextStepIsWatched
<1>1. Inv => NextStepIsWatched
  <2>1. SUFFICES ASSUME Inv, Registered, proxy = "up"
                 PROVE  /\ state = "READ_RESP" /\ (CanRead(postRes) \/ origin_fd = NoFd)
                              => client_fd \in sel.master_w
                        /\ state = "READ_RESP" /\ origin_fd # NoFd => origin_fd \in sel.master_r
                        /\ state = "SEND_REQ" /\ origin_fd # NoFd /\ ITEM_USED(sel, origin_fd)
                              => origin_fd \in sel.master_w
    BY DEF NextStepIsWatched
  <2>2. ~freed /\ MastersMatch(sel)
    BY <2>1 DEF Inv, Core, Table, Consistent
  <2>3. ITEM_USED(sel, client_fd) /\ client_fd \in FD
    BY <2>1, Fds DEF Registered
  <2>4. origin_fd # NoFd => origin_fd \in FD
    BY <2>1, Fds DEF Inv, Core, Table
  <2>5. ASSUME state = "READ_RESP", CanRead(postRes) \/ origin_fd = NoFd
        PROVE  client_fd \in sel.master_w
    BY <2>1, <2>2, <2>3, <2>5 DEF Inv, Core, Watch, CanRead, MastersMatch
  <2>6. ASSUME state = "READ_RESP", origin_fd # NoFd
        PROVE  origin_fd \in sel.master_r
    BY <2>1, <2>2, <2>4, <2>6 DEF Inv, Core, Watch, Due, MastersMatch
  <2>7. ASSUME state = "SEND_REQ", origin_fd # NoFd, ITEM_USED(sel, origin_fd)
        PROVE  origin_fd \in sel.master_w
    BY <2>1, <2>2, <2>4, <2>7 DEF Inv, Core, Watch, MastersMatch
  <2>8. QED BY <2>5, <2>6, <2>7
<1>2. QED BY <1>1, InitInv, NextInv, PTL DEF Spec

\* A released client stays as it was left: stale readiness, the handlers of the
\* other descriptor and a late report of the resolver thread never touch it.
THEOREM ReleasedAlone == Spec => ReleasedIsLeftAlone
<1>1. Inv /\ [Next]_vars => [freed => UNCHANGED <<cdtVars, sel, open, inst>>]_vars
  <2>1. SUFFICES ASSUME Inv, Next, freed
                 PROVE  UNCHANGED <<cdtVars, sel, open, inst>>
    OBVIOUS
  <2>2. Core /\ ~Registered
    BY <2>1 DEF Inv, Core, Table
  <2>3. CASE MainStep
    <3>1. CASE Select \/ Interrupted
      BY <3>1 DEF Select, Interrupted, procVars
    <3>2. CASE Dispatch
      <4>1. PICK x \in slave :
               \/ Due(x[1], x[2]) /\ Handler(x[1], x[2])
               \/ ~Due(x[1], x[2]) /\ UNCHANGED <<cdtVars, jobVars, procVars, uaVars, orVars>>
        BY <3>2 DEF Dispatch
      <4>2. x[1] \in FD
        BY <2>1 DEF Inv, Loop
      <4>3. ~Due(x[1], x[2])
        BY <2>1, <2>2, <4>2, DueIsRegistered
      <4>4. QED BY <4>1, <4>3 DEF procVars
    <3>3. CASE Notify
      BY <2>2, <3>3 DEF Notify, procVars
    <3>4. QED BY <2>3, <3>1, <3>2, <3>3 DEF MainStep
  <2>4. CASE ResolverReports \/ UaSends \/ UaCloses \/ UaResets
    BY <2>4 DEF ResolverReports, UaSends, UaCloses, UaResets, procVars
  <2>5. CASE OriginAccepts \/ OriginSends \/ OriginCloses \/ OriginResets
    BY <2>5 DEF OriginAccepts, OriginSends, OriginCloses, OriginResets, procVars
  <2>6. CASE UNCHANGED vars
    BY <2>6 DEF vars, procVars
  <2>7. QED BY <2>1, <2>3, <2>4, <2>5, <2>6 DEF Next
<1>2. QED BY <1>1, InitInv, NextInv, PTL DEF Spec, ReleasedIsLeftAlone

\* With peers that behave, a connection that reached its origin is released only
\* when the origin has the whole request and the user agent the whole response,
\* each with the header the proxy adds to it: however read(2) and write(2) cut
\* them, nothing is dropped and client_write does not finish too early.
THEOREM Delivered == Spec => []DeliveredBeforeRelease
<1>1. Inv /\ Delivery => DeliveredBeforeRelease
  <2>1. SUFFICES ASSUME Core, Good, ~Registered, resolved
                 PROVE  gotO = ForwardedRequest /\ gotC = ForwardedResponse
    BY DEF Inv, Delivery, DeliveredBeforeRelease
  <2>2. /\ resolver = "done" /\ state = "READ_RESP" /\ postRes.q = <<>> /\ postReq.q = <<>>
        /\ resState = "FINISHED" /\ reqState = "FINISHED"
    BY <2>1 DEF Core, Table, Job, Watch, Good, Finish
  <2>3. /\ gotO \o <<>> = Passed(request, {"line"}, Len(request))
        /\ gotC \o <<>> = Passed(response, {"head", "bare"}, Len(response))
    BY <2>1, <2>2 DEF Good, ReqSide, ResSide
  <2>4. gotO \in Seq(0..Len(request)) /\ gotC \in Seq(0..Len(response))
    BY <2>1, UnitBounds
  <2>5. gotO \o <<>> = gotO /\ gotC \o <<>> = gotC
    BY <2>4, ConcatEmptySeq
  <2>6. QED BY <2>1, <2>3, <2>5, Messages DEF Good
<1>2. QED BY <1>1, InitInv, NextInv, InitDelivery, NextDelivery, PTL DEF Spec

=============================================================================
