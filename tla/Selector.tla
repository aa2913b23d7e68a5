------------------------------- MODULE Selector -------------------------------
(***************************************************************************)
(* The event loop: selector_select called forever by main, the callbacks   *)
(* it runs, and the threads that resolve names and report back with        *)
(* selector_notify_block.                                                  *)
(*                                                                         *)
(* Three kinds of actors interleave: the main thread (pc), one resolver    *)
(* thread per connection (thread), and the kernel, which decides which     *)
(* descriptors are ready.  A connection is accepted on the lowest free     *)
(* descriptor, as POSIX requires, so descriptors are reused.  What a       *)
(* connection's handlers do is left open within what the real ones use of  *)
(* the selector: change an interest, start the client's blocking job,      *)
(* connect to the origin, release the origin or the client with its        *)
(* origin.  Client.tla models when they do it.  main also registers the    *)
(* log's pipe and the admin socket, whose handlers touch no other item.    *)
(***************************************************************************)
EXTENDS SelectorOps, Sequences, FiniteSets

CONSTANTS
    Conn,           \* the connections
    Server,         \* the data of the listening descriptor
    server_fd,      \* opened by main before any connection, never closed
    PipeFds         \* how many descriptors transformations_new opens for a
                    \* connection and nobody closes (3; 4 without error_file)

ASSUME ServerAssumption ==
    /\ server_fd \in FD
    /\ PipeFds \in Nat
    /\ Server \notin Conn /\ NoData \notin Conn

VARIABLES
    sel,            \* the selector's table
    slave_r,        \* what pselect reports as readable
    slave_w,        \* what pselect reports as writable
    pc,             \* where the main thread is
    n,              \* handle_iteration: max_fd when it started
    visit,          \* handle_iteration: the descriptor and operation it is at
    jobs,           \* resolution_jobs, newest first
    mutex,          \* whether the main thread holds resolution_mutex
    sigpending,     \* whether the wake-up signal is pending, blocked outside pselect
    thread,         \* the resolver thread of each connection
    client_fd,      \* the descriptor each connection was accepted on
    origin_fd,      \* the descriptor of its connection to the origin
    open,           \* the open descriptors
    seen,           \* history: whose descriptor it was when pselect looked at it
    ran             \* history: the last callback that was run

tableVars  == <<sel, open, client_fd, origin_fd>>
loopVars   == <<slave_r, slave_w, pc, n, visit, seen>>
jobVars    == <<jobs, mutex, sigpending, thread>>
vars       == <<tableVars, loopVars, jobVars, ran>>

Data == Conn \cup {Server}
NoFd == -1

Job == [fd : FD, by : Conn]

Ran == [op : {"none", "read", "write", "block"}, data : Data \cup {NoData},
        seen : Data \cup {NoData}]

Nothing == [op |-> "none", data |-> NoData, seen |-> NoData]

TypeOK ==
    /\ SelectorType(sel, Data)
    /\ slave_r \subseteq FD /\ slave_w \subseteq FD
    /\ pc \in {"select", "pselect", "iterate", "notify", "failed"}
    /\ n \in FD
    /\ visit \in (0..ITEMS_MAX_SIZE) \X {"read", "write"}
    /\ jobs \in Seq(Job)
    /\ mutex \in BOOLEAN /\ sigpending \in BOOLEAN
    /\ thread \in [Conn -> {"none", "running", "queued", "done"}]
    /\ client_fd \in [Conn -> FD \cup {NoFd}]
    /\ origin_fd \in [Conn -> FD \cup {NoFd}]
    /\ open \subseteq FD
    /\ seen \in [FD -> Data \cup {NoData}]
    /\ ran \in Ran

\* main: the listening socket is registered for reading, then the loop starts.
Init ==
    /\ sel = selector_register(selector_new, server_fd, "server", OP_READ, Server)
    /\ open = 0..server_fd
    /\ client_fd = [c \in Conn |-> NoFd]
    /\ origin_fd = [c \in Conn |-> NoFd]
    /\ slave_r = {} /\ slave_w = {}
    /\ pc = "select"
    /\ n = 0
    /\ visit = <<0, "read">>
    /\ jobs = <<>>
    /\ mutex = FALSE
    /\ sigpending = FALSE
    /\ thread = [c \in Conn |-> "none"]
    /\ seen = [fd \in FD |-> NoData]
    /\ ran = Nothing

-----------------------------------------------------------------------------
(* What the callbacks may do. *)

Waiting == {c \in Conn : client_fd[c] = NoFd}

FreeFds == FD \ open
LowestFree == CHOOSE fd \in FreeFds : \A g \in FreeFds : fd <= g

\* What transformations_new leaves open, although no connection is ever
\* transformed: some of the descriptors it gets, none when pipe(2) fails.
Leaks ==
    IF Cardinality(FreeFds) <= PipeFds THEN {{}}
    ELSE {fds \in SUBSET (FreeFds \ {LowestFree}) : Cardinality(fds) = PipeFds}

\* listen_read_handler: accept, client_new, selector_register.  accept(2)
\* fails when the process has no descriptor left, and nothing changes.
listen_read_handler ==
    \/ /\ FreeFds # {}
       /\ \E c \in Waiting, leaked \in Leaks :
             /\ client_fd' = [client_fd EXCEPT ![c] = LowestFree]
             /\ open' = open \cup {LowestFree} \cup leaked
             /\ sel' = selector_register(sel, LowestFree, "client", OP_READ, c)
       /\ UNCHANGED <<origin_fd, thread>>
    \/ FreeFds = {} /\ UNCHANGED <<tableVars, thread>>

\* Mutation: client_close forgets the descriptor the connection used.
CloseClientForgets(c) ==
    /\ open' = open \ {client_fd[c], origin_fd[c]}
    /\ sel' = Unregistered(Unregistered(sel, origin_fd[c]), client_fd[c])
    /\ origin_fd' = [origin_fd EXCEPT ![c] = NoFd]
    /\ client_fd' = [client_fd EXCEPT ![c] = NoFd]
    /\ UNCHANGED thread

\* selector_unregister_fd of the client: client_close closes both descriptors
\* and releases the origin's item, and then the client's item is released.
CloseClient(c) ==
    /\ open' = open \ {client_fd[c], origin_fd[c]}
    /\ sel' = Unregistered(Unregistered(sel, origin_fd[c]), client_fd[c])
    /\ origin_fd' = [origin_fd EXCEPT ![c] = NoFd]
    /\ UNCHANGED <<client_fd, thread>>

\* Mutation: remote_close closes the descriptor, nothing releases its item.
CloseOriginOnly(c) ==
    /\ open' = open \ {origin_fd[c]}
    /\ sel' = selector_set_interest(sel, client_fd[c], OP_WRITE)
    /\ origin_fd' = [origin_fd EXCEPT ![c] = NoFd]
    /\ UNCHANGED <<client_fd, thread>>

\* selector_unregister_fd of the origin, with remote_close; the handlers that do
\* it also ask to be told when the client can be written.
CloseOrigin(c) ==
    /\ open' = open \ {origin_fd[c]}
    /\ sel' = selector_set_interest(Unregistered(sel, origin_fd[c]), client_fd[c], OP_WRITE)
    /\ origin_fd' = [origin_fd EXCEPT ![c] = NoFd]
    /\ UNCHANGED <<client_fd, thread>>

\* client_set_host: starts the connection's resolver thread.
StartJob(c) ==
    /\ thread[c] = "none"
    /\ thread' = [thread EXCEPT ![c] = "running"]
    /\ UNCHANGED tableVars

\* A handler sets the interest of one of its connection's two descriptors.
Reinterest(c) ==
    /\ \E fd \in {client_fd[c], origin_fd[c]}, i \in {OP_NOOP, OP_READ, OP_WRITE} :
          sel' = selector_set_interest(sel, fd, i)
    /\ UNCHANGED <<open, client_fd, origin_fd, thread>>

ClientHandler(c) == CloseClient(c) \/ StartJob(c) \/ Reinterest(c)
RemoteHandler(c) == CloseOrigin(c) \/ Reinterest(c)

\* client_block: the name was not resolved; or there is no descriptor left; or
\* the origin's socket is created, and registered while it connects.
client_block(c) ==
    \/ CloseClient(c)
    \/ FreeFds = {} /\ UNCHANGED <<tableVars, thread>>
    \/ /\ FreeFds # {}
       /\ open' = open \cup {LowestFree}
       /\ origin_fd' = [origin_fd EXCEPT ![c] = LowestFree]
       /\ \/ sel' = sel
          \/ sel' = selector_register(selector_set_interest(sel, client_fd[c], OP_NOOP),
                                      LowestFree, "remote", OP_WRITE, c)
       /\ UNCHANGED <<client_fd, thread>>

\* handle_block of the item at fd; remote_block does nothing.
BlockHandler(fd) ==
    LET item == sel.fds[fd]
    IN  \/ item.handler = "client" /\ client_block(item.data)
        \/ item.handler = "remote" /\ UNCHANGED <<tableVars, thread>>

\* The callback of the item at fd for reading or writing.
Handler(fd) ==
    LET item == sel.fds[fd]
    IN  \/ item.handler = "server" /\ listen_read_handler
        \/ item.handler = "client" /\ ClientHandler(item.data)
        \/ item.handler = "remote" /\ RemoteHandler(item.data)

-----------------------------------------------------------------------------
(* The main thread: selector_select. *)

\* The slave sets start as copies of the master sets.  pselect fails with EBADF
\* when a descriptor that is waited on is not open: selector_select returns
\* SELECTOR_IO and main returns 2.
SelectBegin ==
    /\ pc = "select"
    /\ slave_r' = sel.master_r
    /\ slave_w' = sel.master_w
    /\ pc' = IF sel.master_r \cup sel.master_w \subseteq open THEN "pselect" ELSE "failed"
    /\ ran' = Nothing
    /\ UNCHANGED <<tableVars, jobVars, n, visit, seen>>

\* Mutation: EINTR is not told apart from descriptors being ready, and the
\* slave sets, which pselect did not touch, are handled.
InterruptedIterates ==
    /\ pc = "pselect"
    /\ server_fd \in slave_r => Waiting # {}
    /\ sigpending
    /\ sigpending' = FALSE
    /\ n' = sel.max_fd
    /\ visit' = <<0, "read">>
    /\ pc' = "iterate"
    /\ UNCHANGED <<tableVars, slave_r, slave_w, seen, jobs, mutex, thread, ran>>

\* The wake-up signal is only let in while pselect waits: EINTR, and
\* selector_select goes on to the notifications without an iteration.
Interrupted ==
    /\ pc = "pselect"
    /\ sigpending
    /\ sigpending' = FALSE
    /\ pc' = "notify"
    /\ UNCHANGED <<tableVars, slave_r, slave_w, n, visit, seen, jobs, mutex, thread, ran>>

StartIteration(R, W) ==
    /\ pc = "pselect"
    /\ slave_r' = R
    /\ slave_w' = W
    /\ seen' = [fd \in FD |-> sel.fds[fd].data]
    /\ n' = sel.max_fd
    /\ visit' = <<0, "read">>
    /\ pc' = "iterate"
    /\ UNCHANGED <<tableVars, jobVars, ran>>

\* Some descriptors are ready.  The listening one is when a connection waits.
Ready ==
    \E R \in SUBSET slave_r, W \in SUBSET slave_w :
        /\ R \cup W # {}
        /\ server_fd \in R => Waiting # {}
        /\ StartIteration(R, W)

\* select_timeout ran out and nothing is ready.
Timeout == StartIteration({}, {})

\* handle_iteration: for each descriptor up to n, reading before writing.
NextVisit ==
    IF visit[2] = "read" THEN <<visit[1], "write">> ELSE <<visit[1] + 1, "read">>

Slave(op) == IF op = "read" THEN slave_r ELSE slave_w

\* The item is looked up again: an earlier callback of this iteration may have
\* released it or changed its interest.
Due(fd, op) ==
    ITEM_USED(sel, fd) /\ fd \in Slave(op) /\ op \in sel.fds[fd].interest

Visit ==
    LET fd == visit[1]
        op == visit[2]
    IN  /\ pc = "iterate"
        /\ fd <= n
        /\ visit' = NextVisit
        /\ \/ /\ Due(fd, op)
              /\ Handler(fd)
              /\ ran' = [op |-> op, data |-> sel.fds[fd].data, seen |-> seen[fd]]
           \/ ~Due(fd, op) /\ UNCHANGED <<tableVars, thread, ran>>
        /\ UNCHANGED <<slave_r, slave_w, pc, n, seen, jobs, mutex, sigpending>>

EndIteration ==
    /\ pc = "iterate"
    /\ visit[1] > n
    /\ pc' = "notify"
    /\ seen' = [fd \in FD |-> NoData]
    /\ UNCHANGED <<tableVars, jobVars, slave_r, slave_w, n, visit, ran>>

\* handle_block_notifications, with resolution_mutex held from the first job to
\* the last.
NotifyLock ==
    /\ pc = "notify"
    /\ ~mutex
    /\ mutex' = TRUE
    /\ UNCHANGED <<tableVars, loopVars, jobs, sigpending, thread, ran>>

\* Each job is handed to the item that uses its descriptor now, if there is one.
NotifyJob ==
    LET job == Head(jobs)
    IN  /\ pc = "notify" /\ mutex
        /\ jobs # <<>>
        /\ jobs' = Tail(jobs)
        /\ \/ /\ ITEM_USED(sel, job.fd)
              /\ BlockHandler(job.fd)
              /\ ran' = [op |-> "block", data |-> sel.fds[job.fd].data, seen |-> job.by]
           \/ ~ITEM_USED(sel, job.fd) /\ UNCHANGED <<tableVars, thread, ran>>
        /\ UNCHANGED <<loopVars, mutex, sigpending>>

NotifyUnlock ==
    /\ pc = "notify" /\ mutex
    /\ jobs = <<>>
    /\ mutex' = FALSE
    /\ pc' = "select"
    /\ UNCHANGED <<tableVars, slave_r, slave_w, n, visit, seen, jobs, sigpending, thread, ran>>

-----------------------------------------------------------------------------
(* The resolver threads. *)

\* getaddrinfo returned: selector_notify_block queues the job ...
NotifyBlock(c) ==
    /\ thread[c] = "running"
    /\ ~mutex
    /\ jobs' = <<[fd |-> client_fd[c], by |-> c]>> \o jobs
    /\ thread' = [thread EXCEPT ![c] = "queued"]
    /\ UNCHANGED <<tableVars, loopVars, mutex, sigpending, ran>>

\* Mutation: the signal is not blocked while the main thread runs callbacks, so
\* that it is consumed without interrupting a pselect.
SignalUnblocked(c) ==
    /\ thread[c] = "queued"
    /\ sigpending' = (pc = "pselect")
    /\ thread' = [thread EXCEPT ![c] = "done"]
    /\ UNCHANGED <<tableVars, loopVars, jobs, mutex, ran>>

\* ... and then signals the main thread.
Signal(c) ==
    /\ thread[c] = "queued"
    /\ sigpending' = TRUE
    /\ thread' = [thread EXCEPT ![c] = "done"]
    /\ UNCHANGED <<tableVars, loopVars, jobs, mutex, ran>>

-----------------------------------------------------------------------------
\* The steps the main thread takes without waiting for a descriptor.
MainStep ==
    \/ SelectBegin \/ Interrupted
    \/ Visit \/ EndIteration
    \/ NotifyLock \/ NotifyJob \/ NotifyUnlock

ResolverStep(c) == NotifyBlock(c) \/ Signal(c)

Next ==
    \/ MainStep
    \/ Ready
    \/ Timeout
    \/ \E c \in Conn : ResolverStep(c)

\* The main thread runs until it waits in pselect, and each resolver thread
\* until it ends.  Nothing is assumed of the descriptors, which may never become
\* ready, and no property relies on the timeout of pselect.
Fairness ==
    /\ WF_vars(MainStep)
    /\ \A c \in Conn : WF_vars(ResolverStep(c))

Spec == Init /\ [][Next]_vars /\ Fairness

-----------------------------------------------------------------------------
\* The master sets and max_fd always agree with the items, whatever sequence of
\* registrations, interest changes and releases the callbacks made.
TableConsistent == MastersMatch(sel) /\ MaxFdExact(sel)

\* Every descriptor the selector would wait on is open, so that pselect never
\* fails with EBADF, which ends the proxy.
WaitsOnOpen ==
    /\ sel.master_r \cup sel.master_w \subseteq open
    /\ pc # "failed"

\* A read or write callback is only run for the connection that pselect found
\* ready: descriptors released during an iteration are not reused within it.
ReadinessIsFresh == ran.op \in {"read", "write"} => ran.data = ran.seen

\* A resolver thread's result is handled: the job it queued leaves the list,
\* even when its signal arrives while the main thread is outside pselect and
\* when no descriptor ever becomes ready.
JobsAreHandled ==
    \A c \in Conn : thread[c] = "queued" ~> \A k \in 1..Len(jobs) : jobs[k].by # c

\* selector.h promises that the result of a blocking job "se le presentara a los
\* handlers durante la iteracion normal" and that "los handlers no se tienen que
\* preocupar por la concurrencia": the block callback that runs should be that of
\* the connection that started the job.
BlockReachesOwner == ran.op = "block" => ran.data = ran.seen

=============================================================================
