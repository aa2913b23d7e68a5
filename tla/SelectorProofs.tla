--------------------------- MODULE SelectorProofs ---------------------------
(***************************************************************************)
(* For every number of descriptors and of connections, the operations on   *)
(* the selector's table keep it consistent, and the event loop only waits  *)
(* on open descriptors.                                                    *)
(***************************************************************************)
EXTENDS Selector, SelectorOpsProofs

\* What accept(2) and socket(2) return was not open.
LEMMA LowestFreeIsFree ==
    ASSUME FreeFds # {}
    PROVE  LowestFree \in FreeFds /\ LowestFree \in FD /\ LowestFree \notin open
<1>1. FreeFds \subseteq Nat
  BY SelectorAssumption DEF FreeFds, FD
<1>2. \E fd \in FreeFds : \A g \in FreeFds : fd <= g
  BY <1>1, LeastNat
<1>3. QED
  BY <1>2 DEF LowestFree, FreeFds

-----------------------------------------------------------------------------
(* The inductive invariant of the event loop. *)

\* The types of what the callbacks change.
TableType ==
    /\ SelectorType(sel, Data) /\ open \subseteq FD
    /\ client_fd \in [Conn -> FD \cup {NoFd}] /\ origin_fd \in [Conn -> FD \cup {NoFd}]
    /\ thread \in [Conn -> {"none", "running", "queued", "done"}]

\* A used item is open; the listening one is where main put it, and the others
\* are above it and belong to connections that have been accepted.
ItemsOwned ==
    \A fd \in FD : ITEM_USED(sel, fd) =>
        /\ fd \in open
        /\ server_fd <= fd
        /\ fd = server_fd => sel.fds[fd].handler = "server" /\ sel.fds[fd].data = Server
        /\ fd # server_fd => /\ sel.fds[fd].handler \in {"client", "remote"}
                             /\ sel.fds[fd].data \in Conn
                             /\ client_fd[sel.fds[fd].data] \in FD

\* The descriptors main opened stay open, no connection uses them, and a thread
\* is started only for a connection that was accepted.
FdsApart ==
    /\ 0..server_fd \subseteq open
    /\ \A c \in Conn : /\ client_fd[c] \notin 0..server_fd
                       /\ origin_fd[c] \notin 0..server_fd
                       /\ thread[c] # "none" => client_fd[c] \in FD

TableInv == TableType /\ TableConsistent /\ ItemsOwned /\ FdsApart

\* No item appears and no item changes its owner.
KeepsOwners ==
    \A fd \in FD : ITEM_USED(sel', fd) => ITEM_USED(sel, fd) /\ sel'.fds[fd].data = sel.fds[fd].data

\* Setting an interest, alone or after a release, keeps the table's invariant.
LEMMA InterestStep ==
    ASSUME TableInv, NEW fd, NEW i \in Interest,
           sel' = selector_set_interest(sel, fd, i),
           UNCHANGED <<open, client_fd, origin_fd, thread>>
    PROVE  TableInv' /\ KeepsOwners
<1>1. SelectorType(sel, Data) /\ Consistent(sel)
  BY DEF TableInv, TableType, TableConsistent, Consistent
<1>2. /\ SelectorType(sel', Data) /\ Consistent(sel')
      /\ \A g \in FD : /\ ITEM_USED(sel', g) <=> ITEM_USED(sel, g)
                       /\ sel'.fds[g].handler = sel.fds[g].handler
                       /\ sel'.fds[g].data = sel.fds[g].data
  BY <1>1, SetInterestTable
<1>3. TableType' /\ TableConsistent'
  BY <1>2 DEF TableInv, TableType, TableConsistent, Consistent, Data
<1>4. FdsApart'
  BY DEF TableInv, FdsApart
<1>5. ItemsOwned'
  BY <1>2 DEF TableInv, ItemsOwned
<1>6. QED BY <1>2, <1>3, <1>4, <1>5 DEF TableInv, KeepsOwners

\* A callback that changes the interest of a registered descriptor.
LEMMA ReinterestStep ==
    ASSUME TableInv, NEW c \in Conn, Reinterest(c)
    PROVE  TableInv' /\ KeepsOwners
<1>1. PICK fd \in {client_fd[c], origin_fd[c]}, i \in {OP_NOOP, OP_READ, OP_WRITE} :
         sel' = selector_set_interest(sel, fd, i)
  BY DEF Reinterest
<1>2. i \in Interest
  BY DEF OP_NOOP, OP_READ, OP_WRITE, Interest
<1>3. QED
  BY <1>1, <1>2, InterestStep DEF Reinterest

\* client_set_host, called for the connection of a used item.
LEMMA StartJobStep ==
    ASSUME TableInv, NEW c \in Conn, client_fd[c] \in FD, StartJob(c)
    PROVE  TableInv' /\ KeepsOwners
<1>1. /\ thread' = [thread EXCEPT ![c] = "running"]
      /\ sel' = sel /\ open' = open /\ client_fd' = client_fd /\ origin_fd' = origin_fd
  BY DEF StartJob, tableVars
<1>2. TableType'
  BY <1>1 DEF TableInv, TableType, Data
<1>3. FdsApart'
  BY <1>1 DEF TableInv, TableType, FdsApart
<1>4. QED
  BY <1>1, <1>2, <1>3 DEF TableInv, TableConsistent, ItemsOwned, KeepsOwners

\* client_close: what it closes it also releases.
LEMMA CloseClientStep ==
    ASSUME TableInv, NEW c \in Conn, CloseClient(c)
    PROVE  TableInv' /\ KeepsOwners
<1> DEFINE mid == Unregistered(sel, origin_fd[c])
<1>1. SelectorType(sel, Data) /\ Consistent(sel)
  BY DEF TableInv, TableType, TableConsistent, Consistent
<1>2. /\ SelectorType(mid, Data) /\ Consistent(mid)
      /\ \A g \in FD : ITEM_USED(mid, g) <=> ITEM_USED(sel, g) /\ g # origin_fd[c]
      /\ \A g \in FD : ITEM_USED(mid, g) => mid.fds[g] = sel.fds[g]
  BY <1>1, UnregisterTable
<1>3. /\ sel' = Unregistered(mid, client_fd[c])
      /\ open' = open \ {client_fd[c], origin_fd[c]}
      /\ origin_fd' = [origin_fd EXCEPT ![c] = NoFd]
      /\ client_fd' = client_fd /\ thread' = thread
  BY DEF CloseClient
<1> HIDE DEF mid
<1>4. /\ SelectorType(sel', Data) /\ Consistent(sel')
      /\ \A g \in FD : ITEM_USED(sel', g) <=> ITEM_USED(mid, g) /\ g # client_fd[c]
      /\ \A g \in FD : ITEM_USED(sel', g) => sel'.fds[g] = mid.fds[g]
  BY <1>2, <1>3, UnregisterTable
<1>5. \A g \in FD : ITEM_USED(sel', g) =>
         /\ ITEM_USED(sel, g) /\ g # origin_fd[c] /\ g # client_fd[c]
         /\ sel'.fds[g] = sel.fds[g]
  BY <1>2, <1>4
<1>6. TableType' /\ TableConsistent'
  BY <1>3, <1>4 DEF TableInv, TableType, TableConsistent, Consistent, Data
<1>7. FdsApart'
  BY <1>3, ServerAssumption DEF TableInv, TableType, FdsApart, NoFd
<1>8. ItemsOwned'
  BY <1>3, <1>5 DEF TableInv, ItemsOwned
<1>9. QED BY <1>5, <1>6, <1>7, <1>8 DEF TableInv, KeepsOwners

\* remote_close, with the interest the handlers set for the client.
LEMMA CloseOriginStep ==
    ASSUME TableInv, NEW c \in Conn, CloseOrigin(c)
    PROVE  TableInv' /\ KeepsOwners
<1> DEFINE mid == Unregistered(sel, origin_fd[c])
<1>1. SelectorType(sel, Data) /\ Consistent(sel) /\ OP_WRITE \in Interest
  BY DEF TableInv, TableType, TableConsistent, Consistent, OP_WRITE, Interest
<1>2. /\ SelectorType(mid, Data) /\ Consistent(mid)
      /\ \A g \in FD : ITEM_USED(mid, g) <=> ITEM_USED(sel, g) /\ g # origin_fd[c]
      /\ \A g \in FD : ITEM_USED(mid, g) => mid.fds[g] = sel.fds[g]
  BY <1>1, UnregisterTable
<1>3. /\ sel' = selector_set_interest(mid, client_fd[c], OP_WRITE)
      /\ open' = open \ {origin_fd[c]}
      /\ origin_fd' = [origin_fd EXCEPT ![c] = NoFd]
      /\ client_fd' = client_fd /\ thread' = thread
  BY DEF CloseOrigin
<1> HIDE DEF mid
<1>4. /\ SelectorType(sel', Data) /\ Consistent(sel')
      /\ \A g \in FD : /\ ITEM_USED(sel', g) <=> ITEM_USED(mid, g)
                       /\ sel'.fds[g].handler = mid.fds[g].handler
                       /\ sel'.fds[g].data = mid.fds[g].data
  BY <1>1, <1>2, <1>3, SetInterestTable
<1>5. \A g \in FD : ITEM_USED(sel', g) =>
         /\ ITEM_USED(sel, g) /\ g # origin_fd[c]
         /\ sel'.fds[g].handler = sel.fds[g].handler /\ sel'.fds[g].data = sel.fds[g].data
  BY <1>2, <1>4
<1>6. TableType' /\ TableConsistent'
  BY <1>3, <1>4 DEF TableInv, TableType, TableConsistent, Consistent, Data
<1>7. FdsApart'
  BY <1>3, ServerAssumption DEF TableInv, TableType, FdsApart, NoFd
<1>8. ItemsOwned'
  BY <1>3, <1>5 DEF TableInv, ItemsOwned
<1>9. QED BY <1>5, <1>6, <1>7, <1>8 DEF TableInv, KeepsOwners

\* Items only appear on descriptors that were not open.
OnlyNewOnFree ==
    /\ open \subseteq open'
    /\ \A fd \in open : ITEM_USED(sel', fd) => ITEM_USED(sel, fd) /\ sel'.fds[fd].data = sel.fds[fd].data

\* A new descriptor is above the ones main opened.
LEMMA LowestFreeAbove ==
    ASSUME TableInv, FreeFds # {}
    PROVE  /\ LowestFree \in FD /\ LowestFree \notin open
           /\ server_fd < LowestFree /\ LowestFree \notin 0..server_fd
           /\ ~ITEM_USED(sel, LowestFree)
<1>1. LowestFree \in FD /\ LowestFree \notin open
  BY LowestFreeIsFree
<1>2. LowestFree \notin 0..server_fd
  BY <1>1 DEF TableInv, FdsApart
<1>3. server_fd < LowestFree
  BY <1>1, <1>2, ServerAssumption, SelectorAssumption DEF FD
<1>4. ~ITEM_USED(sel, LowestFree)
  BY <1>1 DEF TableInv, ItemsOwned
<1>5. QED BY <1>1, <1>2, <1>3, <1>4

\* Registering a connection's new descriptor keeps the table's invariant.
LEMMA NewItem ==
    ASSUME TableInv, FreeFds # {},
           NEW s, SelectorType(s, Data), Consistent(s),
           \A g \in FD : /\ ITEM_USED(s, g) <=> ITEM_USED(sel, g)
                         /\ s.fds[g].handler = sel.fds[g].handler
                         /\ s.fds[g].data = sel.fds[g].data,
           NEW handler \in {"client", "remote"}, NEW i \in Interest, NEW c \in Conn,
           sel' = selector_register(s, LowestFree, handler, i, c),
           LowestFree \in open', open \subseteq open', open' \subseteq FD,
           thread' = thread,
           client_fd' \in [Conn -> FD \cup {NoFd}], origin_fd' \in [Conn -> FD \cup {NoFd}],
           client_fd'[c] \in FD,
           \A d \in Conn : /\ client_fd'[d] \in {client_fd[d], LowestFree}
                           /\ origin_fd'[d] \in {origin_fd[d], LowestFree}
    PROVE  TableInv' /\ OnlyNewOnFree
<1> DEFINE f == LowestFree
<1>1. /\ f \in FD /\ f \notin open /\ server_fd < f /\ f \notin 0..server_fd
      /\ ~ITEM_USED(sel, f) /\ ~ITEM_USED(s, f)
  BY LowestFreeAbove
<1>2. handler \in Handlers /\ c \in Data \cup {NoData}
  BY DEF Handlers, Data
<1>3. /\ SelectorType(sel', Data) /\ Consistent(sel')
      /\ \A g \in FD : g # f => sel'.fds[g] = s.fds[g]
      /\ sel'.fds[f] = [used |-> TRUE, interest |-> i, handler |-> handler, data |-> c]
  BY <1>1, <1>2, RegisterTable
<1> HIDE DEF f
<1>4. \A g \in FD : g # f /\ ITEM_USED(sel', g) =>
         /\ ITEM_USED(sel, g) /\ sel'.fds[g].handler = sel.fds[g].handler
         /\ sel'.fds[g].data = sel.fds[g].data
  BY <1>3 DEF ITEM_USED
<1>5. \A d \in Conn : client_fd[d] \in FD => client_fd'[d] \in FD
  BY <1>1 DEF f
<1>6. TableType' /\ TableConsistent'
  BY <1>3 DEF TableInv, TableType, TableConsistent, Consistent, Data
<1>7. FdsApart'
  <2>1. 0..server_fd \subseteq open'
    BY DEF TableInv, FdsApart
  <2>2. ASSUME NEW d \in Conn
        PROVE  /\ client_fd'[d] \notin 0..server_fd /\ origin_fd'[d] \notin 0..server_fd
               /\ thread'[d] # "none" => client_fd'[d] \in FD
    BY <1>1, <1>5 DEF TableInv, FdsApart, f
  <2>3. QED BY <2>1, <2>2 DEF FdsApart
<1>8. ItemsOwned'
  <2> SUFFICES ASSUME NEW g \in FD, ITEM_USED(sel', g)
               PROVE  /\ g \in open' /\ server_fd <= g
                      /\ g = server_fd => sel'.fds[g].handler = "server" /\ sel'.fds[g].data = Server
                      /\ g # server_fd => /\ sel'.fds[g].handler \in {"client", "remote"}
                                          /\ sel'.fds[g].data \in Conn
                                          /\ client_fd'[sel'.fds[g].data] \in FD
    BY DEF ItemsOwned
  <2>1. CASE g = f
    <3>1. server_fd \in Int /\ f \in Int
      BY <1>1, ServerAssumption, SelectorAssumption DEF FD
    <3>2. QED BY <2>1, <3>1, <1>1, <1>3 DEF f
  <2>2. CASE g # f
    BY <2>2, <1>4, <1>5 DEF TableInv, ItemsOwned
  <2>3. QED BY <2>1, <2>2
<1>9. open \subseteq FD
  BY DEF TableInv, TableType
<1>10. OnlyNewOnFree
  BY <1>1, <1>4, <1>9 DEF OnlyNewOnFree
<1>11. QED BY <1>6, <1>7, <1>8, <1>10 DEF TableInv

\* listen_read_handler: a connection is accepted on a descriptor nobody had.
LEMMA ListenStep ==
    ASSUME TableInv, listen_read_handler
    PROVE  TableInv' /\ OnlyNewOnFree
<1>1. CASE FreeFds = {} /\ UNCHANGED <<tableVars, thread>>
  BY <1>1 DEF tableVars, TableInv, TableType, TableConsistent, ItemsOwned, FdsApart, OnlyNewOnFree, Data
<1>2. CASE FreeFds # {}
  <2>1. PICK c \in Waiting, leaked \in Leaks :
           /\ client_fd' = [client_fd EXCEPT ![c] = LowestFree]
           /\ open' = open \cup {LowestFree} \cup leaked
           /\ sel' = selector_register(sel, LowestFree, "client", OP_READ, c)
           /\ origin_fd' = origin_fd /\ thread' = thread
    BY <1>2 DEF listen_read_handler
  <2>2. c \in Conn /\ OP_READ \in Interest
    BY DEF Waiting, OP_READ, Interest
  <2>3. LowestFree \in FD
    BY <1>2, LowestFreeIsFree
  <2>4. leaked \subseteq FD
    BY DEF Leaks, FreeFds
  <2>5. SelectorType(sel, Data) /\ Consistent(sel) /\ open \subseteq FD
        /\ client_fd \in [Conn -> FD \cup {NoFd}] /\ origin_fd \in [Conn -> FD \cup {NoFd}]
    BY DEF TableInv, TableType, TableConsistent, Consistent
  <2>6. /\ client_fd' \in [Conn -> FD \cup {NoFd}] /\ client_fd'[c] = LowestFree
        /\ \A d \in Conn : client_fd'[d] \in {client_fd[d], LowestFree}
    BY <2>1, <2>2, <2>3, <2>5
  <2>7. LowestFree \in open' /\ open \subseteq open' /\ open' \subseteq FD
    BY <2>1, <2>3, <2>4, <2>5
  <2>8. QED
    BY <1>2, <2>1, <2>2, <2>3, <2>5, <2>6, <2>7, NewItem
<1>3. QED
  BY <1>1, <1>2 DEF listen_read_handler

\* client_block, called for the connection of a used item.
LEMMA ClientBlockStep ==
    ASSUME TableInv, NEW c \in Conn, client_fd[c] \in FD, client_block(c)
    PROVE  TableInv'
<1>1. CASE CloseClient(c)
  BY <1>1, CloseClientStep
<1>2. CASE FreeFds = {} /\ UNCHANGED <<tableVars, thread>>
  BY <1>2 DEF tableVars, TableInv, TableType, TableConsistent, ItemsOwned, FdsApart, Data
<1>3. CASE /\ FreeFds # {}
           /\ open' = open \cup {LowestFree}
           /\ origin_fd' = [origin_fd EXCEPT ![c] = LowestFree]
           /\ \/ sel' = sel
              \/ sel' = selector_register(selector_set_interest(sel, client_fd[c], OP_NOOP),
                                          LowestFree, "remote", OP_WRITE, c)
           /\ UNCHANGED <<client_fd, thread>>
  <2> DEFINE s == selector_set_interest(sel, client_fd[c], OP_NOOP)
  <2>1. SelectorType(sel, Data) /\ Consistent(sel) /\ open \subseteq FD
        /\ client_fd \in [Conn -> FD \cup {NoFd}] /\ origin_fd \in [Conn -> FD \cup {NoFd}]
    BY DEF TableInv, TableType, TableConsistent, Consistent
  <2>2. LowestFree \in FD /\ LowestFree \notin 0..server_fd
    BY <1>3, LowestFreeAbove
  <2>3. /\ origin_fd' \in [Conn -> FD \cup {NoFd}]
        /\ \A d \in Conn : origin_fd'[d] \in {origin_fd[d], LowestFree}
    BY <1>3, <2>1, <2>2
  <2>4. LowestFree \in open' /\ open \subseteq open' /\ open' \subseteq FD
    BY <1>3, <2>1, <2>2
  <2>5. CASE sel' = sel
    <3>1. TableType' /\ TableConsistent'
      BY <1>3, <2>3, <2>4, <2>5 DEF TableInv, TableType, TableConsistent, Data
    <3>2. FdsApart'
      BY <1>3, <2>2, <2>3, <2>4 DEF TableInv, FdsApart
    <3>3. ItemsOwned'
      BY <1>3, <2>4, <2>5 DEF TableInv, ItemsOwned
    <3>4. QED BY <3>1, <3>2, <3>3 DEF TableInv
  <2>6. CASE sel' = selector_register(s, LowestFree, "remote", OP_WRITE, c)
    <3>1. OP_NOOP \in Interest /\ OP_WRITE \in Interest
      BY DEF OP_NOOP, OP_WRITE, Interest
    <3>2. /\ SelectorType(s, Data) /\ Consistent(s)
          /\ \A g \in FD : /\ ITEM_USED(s, g) <=> ITEM_USED(sel, g)
                           /\ s.fds[g].handler = sel.fds[g].handler
                           /\ s.fds[g].data = sel.fds[g].data
      BY <2>1, <3>1, SetInterestTable
    <3> HIDE DEF s
    <3>3. client_fd' = client_fd /\ thread' = thread
      BY <1>3
    <3>4. QED
      BY <1>3, <2>1, <2>3, <2>4, <2>6, <3>1, <3>2, <3>3, NewItem
  <2>7. QED BY <1>3, <2>5, <2>6
<1>4. QED
  BY <1>1, <1>2, <1>3 DEF client_block

\* A step that leaves the table alone and starts no thread.
LEMMA SameTable ==
    ASSUME TableInv, UNCHANGED tableVars,
           thread' \in [Conn -> {"none", "running", "queued", "done"}],
           \A c \in Conn : thread'[c] # "none" => thread[c] # "none"
    PROVE  TableInv' /\ KeepsOwners
BY DEF TableInv, TableType, TableConsistent, ItemsOwned, FdsApart, KeepsOwners, tableVars, Data

\* A callback registers an item only when it is that of the listening descriptor.
LEMMA HandlerStep ==
    ASSUME TableInv, NEW fd \in FD, ITEM_USED(sel, fd), Handler(fd)
    PROVE  /\ TableInv'
           /\ \/ fd = server_fd /\ OnlyNewOnFree
              \/ server_fd < fd /\ KeepsOwners
<1> DEFINE item == sel.fds[fd]
<1>1. /\ server_fd <= fd
      /\ fd = server_fd => item.handler = "server"
      /\ fd # server_fd => /\ item.handler \in {"client", "remote"} /\ item.data \in Conn
                           /\ client_fd[item.data] \in FD
  BY DEF TableInv, ItemsOwned
<1>2. server_fd \in Int /\ fd \in Int
  BY ServerAssumption, SelectorAssumption DEF FD
<1>3. \/ item.handler = "server" /\ listen_read_handler
      \/ item.handler = "client" /\ ClientHandler(item.data)
      \/ item.handler = "remote" /\ RemoteHandler(item.data)
  BY DEF Handler
<1> HIDE DEF item
<1>4. CASE fd = server_fd
  <2>1. listen_read_handler
    BY <1>1, <1>3, <1>4
  <2>2. QED BY <1>4, <2>1, ListenStep
<1>5. CASE fd # server_fd
  <2>1. /\ item.data \in Conn /\ client_fd[item.data] \in FD
        /\ \/ CloseClient(item.data) \/ StartJob(item.data)
           \/ Reinterest(item.data) \/ CloseOrigin(item.data)
    BY <1>1, <1>3, <1>5 DEF ClientHandler, RemoteHandler
  <2>2. TableInv' /\ KeepsOwners
    BY <2>1, CloseClientStep, StartJobStep, ReinterestStep, CloseOriginStep
  <2>3. QED BY <1>1, <1>2, <1>5, <2>2
<1>6. QED BY <1>4, <1>5

\* The types of what only the loop and the threads change.
LoopType ==
    /\ slave_r \subseteq FD /\ slave_w \subseteq FD
    /\ pc \in {"select", "pselect", "iterate", "notify", "failed"}
    /\ n \in FD
    /\ visit \in (0..ITEMS_MAX_SIZE) \X {"read", "write"}
    /\ jobs \in Seq(Job)
    /\ mutex \in BOOLEAN /\ sigpending \in BOOLEAN
    /\ seen \in [FD -> Data \cup {NoData}]
    /\ ran \in Ran

Slaves == slave_r \cup slave_w

\* What pselect is given is open; and from its return to the end of the
\* iteration every ready descriptor still belongs to whom pselect saw or to
\* nobody.  The second holds because the listening descriptor is visited before
\* any other that is used: until then nothing has been closed, so that what it
\* accepts is on a descriptor that is not ready, and afterwards nothing is
\* registered.
LoopInv ==
    /\ pc # "failed"
    /\ pc = "pselect" => Slaves \subseteq open
    /\ pc = "iterate" =>
          /\ \A fd \in Slaves : ITEM_USED(sel, fd) => sel.fds[fd].data = seen[fd]
          /\ visit[1] <= server_fd => Slaves \subseteq open

Inv == TableInv /\ LoopType /\ LoopInv /\ ReadinessIsFresh

\* main sets the invariant up.
LEMMA InitInv == Init => Inv
<1> SUFFICES ASSUME Init PROVE Inv
  OBVIOUS
<1> USE SelectorAssumption, ServerAssumption
<1>1. 0 \in FD /\ server_fd \in FD /\ server_fd \in Nat /\ 0..server_fd \subseteq FD
  BY DEF FD
<1>2. SelectorType(selector_new, Data) /\ \A g \in FD : ~ITEM_USED(selector_new, g)
  BY NewTable
<1>5. Consistent(selector_new)
  BY NewTable
<1>6. "server" \in Handlers /\ OP_READ \in Interest /\ Server \in Data \cup {NoData}
  BY DEF Handlers, OP_READ, Interest, Data
<1>7. /\ SelectorType(sel, Data) /\ Consistent(sel)
      /\ \A g \in FD : g # server_fd => sel.fds[g] = selector_new.fds[g]
      /\ sel.fds[server_fd] = [used |-> TRUE, interest |-> OP_READ, handler |-> "server", data |-> Server]
  BY <1>1, <1>2, <1>5, <1>6, RegisterTable DEF Init
<1>8. \A g \in FD : ITEM_USED(sel, g) => g = server_fd
  BY <1>2, <1>7 DEF ITEM_USED
<1>9. TableType /\ TableConsistent
  BY <1>1, <1>7 DEF Init, TableType, TableConsistent, Consistent
<1>10. ItemsOwned
  BY <1>1, <1>7, <1>8 DEF Init, ItemsOwned
<1>11. FdsApart
  BY <1>1 DEF Init, FdsApart, NoFd
<1>12. LoopType
  <2>1. visit \in (0..ITEMS_MAX_SIZE) \X {"read", "write"}
    BY DEF Init
  <2>2. jobs \in Seq(Job)
    BY DEF Init
  <2>3. ran \in Ran
    BY DEF Init, Nothing, Ran
  <2>4. mutex \in BOOLEAN /\ sigpending \in BOOLEAN
    BY Zenon DEF Init
  <2>5. slave_r \subseteq FD /\ slave_w \subseteq FD /\ n \in FD /\ pc = "select"
        /\ seen \in [FD -> Data \cup {NoData}]
    BY <1>1 DEF Init
  <2>6. QED BY <2>1, <2>2, <2>3, <2>4, <2>5 DEF LoopType
<1>13. LoopInv /\ ReadinessIsFresh
  BY DEF Init, LoopInv, ReadinessIsFresh, Nothing
<1>14. QED BY <1>9, <1>10, <1>11, <1>12, <1>13 DEF Inv, TableInv

-----------------------------------------------------------------------------
(* Every step keeps it: one lemma for each step of selector_select. *)

\* What is waited on is used, and so it is open.
LEMMA MastersOpen ==
    ASSUME TableInv
    PROVE  sel.master_r \cup sel.master_w \subseteq open /\ sel.master_r \cup sel.master_w \subseteq FD
BY DEF TableInv, TableConsistent, MastersMatch, ItemsOwned

\* selector_select copies the master sets and is about to wait.
LEMMA SelectBeginStep ==
    ASSUME Inv, SelectBegin
    PROVE  Inv'
<1>1. TableInv'
  BY SameTable DEF Inv, TableInv, TableType, SelectBegin, jobVars
<1>2. pc' = "pselect" /\ slave_r' = sel.master_r /\ slave_w' = sel.master_w /\ open' = open
  BY MastersOpen DEF Inv, SelectBegin, tableVars
<1>3. LoopType'
  BY <1>2, MastersOpen DEF Inv, LoopType, SelectBegin, jobVars, Nothing, Ran, Data
<1>4. LoopInv'
  BY <1>2, MastersOpen DEF Inv, LoopInv, Slaves
<1>5. ReadinessIsFresh'
  BY DEF SelectBegin, ReadinessIsFresh, Nothing
<1>6. QED BY <1>1, <1>3, <1>4, <1>5 DEF Inv

\* pselect returns with descriptors, or with none when it times out.
LEMMA StartIterationStep ==
    ASSUME Inv, NEW R \in SUBSET slave_r, NEW W \in SUBSET slave_w, StartIteration(R, W)
    PROVE  Inv'
<1>1. TableInv'
  BY SameTable DEF Inv, TableInv, TableType, StartIteration, jobVars
<1>2. SelectorType(sel, Data) /\ sel.max_fd \in FD
      /\ \A g \in FD : sel.fds[g].data \in Data \cup {NoData}
  BY TableShape DEF Inv, TableInv, TableType
<1>3. LoopType'
  BY <1>2, SelectorAssumption DEF Inv, LoopType, StartIteration, jobVars, Data
<1>4. R \cup W \subseteq open /\ R \cup W \subseteq FD
  BY DEF Inv, LoopInv, LoopType, Slaves, StartIteration
<1>5. LoopInv'
  BY <1>4 DEF StartIteration, LoopInv, Slaves, tableVars
<1>6. ReadinessIsFresh'
  BY DEF Inv, StartIteration, ReadinessIsFresh
<1>7. QED BY <1>1, <1>3, <1>5, <1>6 DEF Inv

\* pselect is ended by the signal, and there is no iteration.
LEMMA InterruptedStep ==
    ASSUME Inv, Interrupted
    PROVE  Inv'
<1>1. TableInv'
  BY SameTable DEF Inv, TableInv, TableType, Interrupted
<1>2. LoopType'
  BY DEF Inv, LoopType, Interrupted, Data
<1>3. LoopInv' /\ ReadinessIsFresh'
  BY DEF Inv, Interrupted, LoopInv, ReadinessIsFresh
<1>4. QED BY <1>1, <1>2, <1>3 DEF Inv

\* handle_iteration looks at one descriptor and runs its callback if it is due.
LEMMA VisitStep ==
    ASSUME Inv, Visit
    PROVE  Inv'
<1> USE SelectorAssumption, ServerAssumption
<1> DEFINE fd == visit[1]
           op == visit[2]
<1>1. fd \in FD /\ fd \in Nat /\ op \in {"read", "write"} /\ server_fd \in Nat
  BY DEF Inv, LoopType, Visit, FD
<1>2. /\ visit' \in (0..ITEMS_MAX_SIZE) \X {"read", "write"}
      /\ visit'[1] \in Nat /\ fd <= visit'[1]
  <2>1. visit' = IF op = "read" THEN <<fd, "write">> ELSE <<fd + 1, "read">>
    BY DEF Visit, NextVisit
  <2>2. fd \in 0..ITEMS_MAX_SIZE /\ fd + 1 \in 0..ITEMS_MAX_SIZE
    BY <1>1 DEF FD
  <2> HIDE DEF fd, op
  <2>3. QED BY <2>1, <2>2, <1>1
<1>3. /\ pc = "iterate" /\ pc' = pc /\ slave_r' = slave_r /\ slave_w' = slave_w
      /\ n' = n /\ seen' = seen /\ jobs' = jobs /\ mutex' = mutex /\ sigpending' = sigpending
  BY DEF Visit
<1>4. /\ \A g \in Slaves : ITEM_USED(sel, g) => sel.fds[g].data = seen[g]
      /\ fd <= server_fd => Slaves \subseteq open
      /\ Slaves' = Slaves /\ Slaves \subseteq FD
  BY <1>3 DEF Inv, LoopInv, LoopType, Slaves
<1>5. SelectorType(sel, Data) /\ sel.fds[fd].data \in Data \cup {NoData}
      /\ seen[fd] \in Data \cup {NoData}
  BY <1>1, TableShape DEF Inv, TableInv, TableType, LoopType
<1>6. \/ /\ Due(fd, op) /\ Handler(fd)
         /\ ran' = [op |-> op, data |-> sel.fds[fd].data, seen |-> seen[fd]]
      \/ UNCHANGED <<tableVars, thread, ran>>
  BY DEF Visit
<1> HIDE DEF fd, op
<1>7. CASE Due(fd, op) /\ Handler(fd)
           /\ ran' = [op |-> op, data |-> sel.fds[fd].data, seen |-> seen[fd]]
  <2>1. ITEM_USED(sel, fd) /\ fd \in Slaves
    BY <1>1, <1>7 DEF Due, Slave, Slaves
  <2>2. /\ TableInv'
        /\ \/ fd = server_fd /\ OnlyNewOnFree
           \/ server_fd < fd /\ KeepsOwners
    BY <1>1, <1>7, <2>1, HandlerStep DEF Inv
  <2>3. sel.fds[fd].data = seen[fd]
    BY <1>4, <2>1
  <2>4. ran' \in Ran /\ ReadinessIsFresh'
    BY <1>1, <1>5, <1>7, <2>3 DEF Ran, ReadinessIsFresh
  <2>5. \A g \in Slaves : ITEM_USED(sel', g) => sel'.fds[g].data = seen[g]
    BY <1>1, <1>4, <2>2 DEF OnlyNewOnFree, KeepsOwners
  <2>6. visit'[1] <= server_fd => Slaves \subseteq open'
    BY <1>1, <1>2, <1>4, <2>2 DEF OnlyNewOnFree
  <2>7. LoopType'
    BY <1>2, <1>3, <2>4 DEF Inv, LoopType, Data, Ran
  <2>8. LoopInv'
    BY <1>3, <1>4, <2>5, <2>6 DEF LoopInv
  <2>9. QED BY <2>2, <2>4, <2>7, <2>8 DEF Inv
<1>8. CASE UNCHANGED <<tableVars, thread, ran>>
  <2>1. TableInv'
    BY <1>8, SameTable DEF Inv, TableInv, TableType
  <2>2. LoopType'
    BY <1>2, <1>3, <1>8 DEF Inv, LoopType, Data, Ran
  <2>3. LoopInv'
    BY <1>1, <1>2, <1>3, <1>4, <1>8 DEF LoopInv, tableVars
  <2>4. ReadinessIsFresh'
    BY <1>8 DEF Inv, ReadinessIsFresh
  <2>5. QED BY <2>1, <2>2, <2>3, <2>4 DEF Inv
<1>9. QED BY <1>6, <1>7, <1>8

\* The iteration has visited every descriptor.
LEMMA EndIterationStep ==
    ASSUME Inv, EndIteration
    PROVE  Inv'
<1>1. TableInv'
  BY SameTable DEF Inv, TableInv, TableType, EndIteration, jobVars
<1>2. LoopType'
  BY DEF Inv, LoopType, EndIteration, jobVars, Data
<1>3. LoopInv' /\ ReadinessIsFresh'
  BY DEF Inv, EndIteration, LoopInv, ReadinessIsFresh
<1>4. QED BY <1>1, <1>2, <1>3 DEF Inv

\* handle_block_notifications takes the mutex of the jobs.
LEMMA NotifyLockStep ==
    ASSUME Inv, NotifyLock
    PROVE  Inv'
<1>1. TableInv'
  BY SameTable DEF Inv, TableInv, TableType, NotifyLock
<1>2. mutex' \in BOOLEAN
  BY Zenon DEF NotifyLock
<1>3. LoopType'
  BY <1>2 DEF Inv, LoopType, NotifyLock, loopVars, Data
<1>4. LoopInv' /\ ReadinessIsFresh'
  BY DEF Inv, NotifyLock, LoopInv, ReadinessIsFresh, loopVars
<1>5. QED BY <1>1, <1>3, <1>4 DEF Inv

\* handle_block_notifications hands one job to the item that has its descriptor.
LEMMA NotifyJobStep ==
    ASSUME Inv, NotifyJob
    PROVE  Inv'
<1> DEFINE job == Head(jobs)
<1>1. job \in Job /\ jobs' \in Seq(Job)
  BY DEF Inv, LoopType, NotifyJob
<1>2. /\ pc = "notify" /\ pc' = pc /\ slave_r' = slave_r /\ slave_w' = slave_w
      /\ n' = n /\ visit' = visit /\ seen' = seen /\ mutex' = mutex /\ sigpending' = sigpending
  BY DEF NotifyJob, loopVars
<1>3. \/ /\ ITEM_USED(sel, job.fd) /\ BlockHandler(job.fd)
         /\ ran' = [op |-> "block", data |-> sel.fds[job.fd].data, seen |-> job.by]
      \/ UNCHANGED <<tableVars, thread, ran>>
  BY DEF NotifyJob
<1> HIDE DEF job
<1>4. job.fd \in FD /\ job.by \in Conn
  BY <1>1 DEF Job
<1>5. CASE /\ ITEM_USED(sel, job.fd) /\ BlockHandler(job.fd)
           /\ ran' = [op |-> "block", data |-> sel.fds[job.fd].data, seen |-> job.by]
  <2> DEFINE item == sel.fds[job.fd]
  <2>1. item.data \in Data \cup {NoData}
    BY <1>4, TableShape DEF Inv, TableInv, TableType
  <2>2. item.handler = "client" => item.data \in Conn /\ client_fd[item.data] \in FD
    BY <1>4, <1>5 DEF Inv, TableInv, ItemsOwned
  <2>3. \/ item.handler = "client" /\ client_block(item.data)
        \/ UNCHANGED <<tableVars, thread>>
    BY <1>5 DEF BlockHandler
  <2>4. TableInv'
    <3>1. CASE item.handler = "client" /\ client_block(item.data)
      <4> HIDE DEF item
      <4>1. QED BY <2>2, <3>1, ClientBlockStep DEF Inv
    <3>2. CASE UNCHANGED <<tableVars, thread>>
      BY <3>2, SameTable DEF Inv, TableInv, TableType
    <3>3. QED BY <2>3, <3>1, <3>2
  <2>5. ran' \in Ran /\ ReadinessIsFresh'
    BY <1>4, <1>5, <2>1 DEF Ran, ReadinessIsFresh, Data
  <2>6. LoopType'
    BY <1>1, <1>2, <2>5 DEF Inv, LoopType, Data, Ran
  <2>7. LoopInv'
    BY <1>2 DEF LoopInv
  <2>8. QED BY <2>4, <2>5, <2>6, <2>7 DEF Inv
<1>6. CASE UNCHANGED <<tableVars, thread, ran>>
  <2>1. TableInv'
    BY <1>6, SameTable DEF Inv, TableInv, TableType
  <2>2. LoopType'
    BY <1>1, <1>2, <1>6 DEF Inv, LoopType, Data, Ran
  <2>3. LoopInv' /\ ReadinessIsFresh'
    BY <1>2, <1>6 DEF Inv, LoopInv, ReadinessIsFresh
  <2>4. QED BY <2>1, <2>2, <2>3 DEF Inv
<1>7. QED BY <1>3, <1>5, <1>6

\* handle_block_notifications has handled every job and gives the mutex back.
LEMMA NotifyUnlockStep ==
    ASSUME Inv, NotifyUnlock
    PROVE  Inv'
<1>1. TableInv'
  BY SameTable DEF Inv, TableInv, TableType, NotifyUnlock
<1>2. mutex' \in BOOLEAN
  BY Zenon DEF NotifyUnlock
<1>3. LoopType'
  BY <1>2 DEF Inv, LoopType, NotifyUnlock, Data
<1>4. LoopInv' /\ ReadinessIsFresh'
  BY DEF Inv, NotifyUnlock, LoopInv, ReadinessIsFresh
<1>5. QED BY <1>1, <1>3, <1>4 DEF Inv

\* A resolver thread, at any point of the loop, changes only the jobs and the
\* pending signal.
LEMMA ResolverStepInv ==
    ASSUME Inv, NEW c \in Conn, ResolverStep(c)
    PROVE  Inv'
<1>1. CASE NotifyBlock(c)
  <2>1. /\ thread[c] = "running" /\ thread' = [thread EXCEPT ![c] = "queued"]
        /\ thread \in [Conn -> {"none", "running", "queued", "done"}]
    BY <1>1 DEF NotifyBlock, Inv, TableInv, TableType
  <2>2. TableInv'
    BY <1>1, <2>1, SameTable DEF Inv, NotifyBlock
  <2>3. client_fd[c] \in FD
    BY <2>1 DEF Inv, TableInv, FdsApart
  <2>4. jobs' \in Seq(Job)
    <3>1. [fd |-> client_fd[c], by |-> c] \in Job
      BY <2>3 DEF Job
    <3>2. <<[fd |-> client_fd[c], by |-> c]>> \in Seq(Job)
      BY <3>1
    <3>3. jobs \in Seq(Job) /\ jobs' = <<[fd |-> client_fd[c], by |-> c]>> \o jobs
      BY <1>1 DEF NotifyBlock, Inv, LoopType
    <3>4. QED BY <3>2, <3>3
  <2>5. LoopType'
    BY <1>1, <2>4 DEF Inv, LoopType, NotifyBlock, loopVars, Data
  <2>6. LoopInv' /\ ReadinessIsFresh'
    BY <1>1 DEF Inv, NotifyBlock, LoopInv, Slaves, ReadinessIsFresh, loopVars, tableVars
  <2>7. QED BY <2>2, <2>5, <2>6 DEF Inv
<1>2. CASE Signal(c)
  <2>1. /\ thread[c] = "queued" /\ thread' = [thread EXCEPT ![c] = "done"]
        /\ thread \in [Conn -> {"none", "running", "queued", "done"}]
    BY <1>2 DEF Signal, Inv, TableInv, TableType
  <2>2. TableInv'
    BY <1>2, <2>1, SameTable DEF Inv, Signal
  <2>3. sigpending' \in BOOLEAN
    BY <1>2, Zenon DEF Signal
  <2>4. LoopType'
    BY <1>2, <2>3 DEF Inv, LoopType, Signal, loopVars, Data
  <2>5. LoopInv' /\ ReadinessIsFresh'
    BY <1>2 DEF Inv, Signal, LoopInv, Slaves, ReadinessIsFresh, loopVars, tableVars
  <2>6. QED BY <2>2, <2>4, <2>5 DEF Inv
<1>3. QED BY <1>1, <1>2 DEF ResolverStep

\* A step of nobody.
LEMMA StutterInv ==
    ASSUME Inv, UNCHANGED vars
    PROVE  Inv'
<1>1. TableInv'
  BY SameTable DEF Inv, TableInv, TableType, vars, jobVars
<1>2. LoopType'
  BY DEF Inv, LoopType, vars, loopVars, jobVars, Data, Ran
<1>3. LoopInv' /\ ReadinessIsFresh'
  BY DEF Inv, LoopInv, Slaves, ReadinessIsFresh, vars, loopVars, tableVars
<1>4. QED BY <1>1, <1>2, <1>3 DEF Inv

\* Every step keeps the invariant.
LEMMA NextInv == Inv /\ [Next]_vars => Inv'
<1> SUFFICES ASSUME Inv, [Next]_vars PROVE Inv'
  OBVIOUS
<1>1. CASE MainStep
  BY <1>1, SelectBeginStep, InterruptedStep, VisitStep, EndIterationStep,
     NotifyLockStep, NotifyJobStep, NotifyUnlockStep DEF MainStep
<1>2. CASE Ready
  <2>1. PICK R \in SUBSET slave_r, W \in SUBSET slave_w : StartIteration(R, W)
    BY <1>2 DEF Ready
  <2>2. QED BY <2>1, StartIterationStep
<1>3. CASE Timeout
  <2>1. {} \in SUBSET slave_r /\ {} \in SUBSET slave_w
    OBVIOUS
  <2>2. QED BY <1>3, <2>1, StartIterationStep DEF Timeout
<1>4. CASE \E c \in Conn : ResolverStep(c)
  BY <1>4, ResolverStepInv
<1>5. CASE UNCHANGED vars
  BY <1>5, StutterInv
<1>6. QED BY <1>1, <1>2, <1>3, <1>4, <1>5 DEF Next

-----------------------------------------------------------------------------
(* The results, for every number of descriptors and every set of connections. *)

\* The inductive invariant holds throughout: no step of the loop, of a callback
\* or of a resolver thread breaks it.
THEOREM Invariance == Spec => []Inv
BY InitInv, NextInv, PTL DEF Spec

\* The variables keep their types.
THEOREM TypeCorrect == Spec => []TypeOK
<1>1. Inv => TypeOK
  BY DEF Inv, TableInv, TableType, LoopType, TypeOK
<1>2. QED BY <1>1, Invariance, PTL

\* The master sets and max_fd of selector.c agree with the items after every
\* callback, whatever it registered, released or asked for.
THEOREM TableSafe == Spec => []TableConsistent
<1>1. Inv => TableConsistent
  BY DEF Inv, TableInv
<1>2. QED BY <1>1, Invariance, PTL

\* selector_select never hands pselect a closed descriptor, so that the loop of
\* main never ends with EBADF.
THEOREM NeverWaitsOnClosed == Spec => []WaitsOnOpen
<1>1. Inv => WaitsOnOpen
  BY MastersOpen DEF Inv, LoopInv, WaitsOnOpen
<1>2. QED BY <1>1, Invariance, PTL

\* handle_iteration never runs the read or write callback of a connection for
\* the readiness of another that had the same descriptor.
THEOREM ReadinessFresh == Spec => []ReadinessIsFresh
<1>1. Inv => ReadinessIsFresh
  BY DEF Inv
<1>2. QED BY <1>1, Invariance, PTL

=============================================================================
