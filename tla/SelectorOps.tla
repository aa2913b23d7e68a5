----------------------------- MODULE SelectorOps -----------------------------
(***************************************************************************)
(* The table of struct fdselector (proxy_http/src/selector/selector.c) and *)
(* the operations that change it.  A selector is a record                  *)
(*                                                                         *)
(*     fds       one item per descriptor: used, interest, handler, data    *)
(*     max_fd    the highest descriptor pselect has to look at             *)
(*     master_r  the descriptors to wait on for reading                    *)
(*     master_w  the descriptors to wait on for writing                    *)
(*                                                                         *)
(* The array is allocated once for all the descriptors select(2) can       *)
(* handle (selector_new(1024)), so it never grows.                         *)
(***************************************************************************)
EXTENDS Integers

CONSTANTS
    ITEMS_MAX_SIZE,     \* FD_SETSIZE
    NoData              \* the data of an item that is not used

ASSUME SelectorAssumption == ITEMS_MAX_SIZE \in Nat \ {0}

FD == 0..(ITEMS_MAX_SIZE - 1)

OP_NOOP  == {}
OP_READ  == {"read"}
OP_WRITE == {"write"}

\* The fd_handler tables of the connections: example_handler, client_handlers,
\* remote_handlers; "none" for an item that is not used.
Handlers == {"server", "client", "remote", "none"}

Interest == SUBSET {"read", "write"}

INVALID_FD(fd) == fd \notin FD

UnusedItem == [used |-> FALSE, interest |-> OP_NOOP, handler |-> "none", data |-> NoData]

selector_new ==
    [fds |-> [fd \in FD |-> UnusedItem],
     max_fd |-> 0, master_r |-> {}, master_w |-> {}]

ITEM_USED(s, fd) == s.fds[fd].used

UsedBelow(s, top) == {fd \in 0..top : ITEM_USED(s, fd)}

\* items_max_fd, of the used descriptors: 0 when there is none.
items_max_fd(used) ==
    IF used = {} THEN 0 ELSE CHOOSE fd \in used : \A g \in used : g <= fd

\* items_update_fdset_for_fd
items_update_fdset_for_fd(s, fd) ==
    LET wants(op) == IF ITEM_USED(s, fd) /\ op \in s.fds[fd].interest
                     THEN {fd} ELSE {}
    IN  [fds |-> s.fds, max_fd |-> s.max_fd,
         master_r |-> (s.master_r \ {fd}) \cup wants("read"),
         master_w |-> (s.master_w \ {fd}) \cup wants("write")]

\* s with another item for fd.
WithItem(s, fd, item) ==
    [fds |-> [s.fds EXCEPT ![fd] = item], max_fd |-> s.max_fd,
     master_r |-> s.master_r, master_w |-> s.master_w]

WithMaxFd(s, top) ==
    [fds |-> s.fds, max_fd |-> top, master_r |-> s.master_r, master_w |-> s.master_w]

\* selector_register; a refusal (SELECTOR_IARGS, SELECTOR_FDINUSE) changes nothing.
RegisterRefused(s, fd) == INVALID_FD(fd) \/ ITEM_USED(s, fd)

selector_register(s, fd, handler, interest, data) ==
    LET item == [used |-> TRUE, interest |-> interest, handler |-> handler, data |-> data]
        top  == IF fd > s.max_fd THEN fd ELSE s.max_fd
    IN  IF RegisterRefused(s, fd) THEN s
        ELSE items_update_fdset_for_fd(WithMaxFd(WithItem(s, fd, item), top), fd)

\* The item of fd with another interest.
Reinterested(s, fd, i) ==
    [used |-> TRUE, interest |-> i, handler |-> s.fds[fd].handler, data |-> s.fds[fd].data]

\* Mutation: the item is released and its descriptor stays in the master sets.
UnregisteredKeepsSets(s, fd) ==
    IF INVALID_FD(fd) \/ ~ITEM_USED(s, fd) THEN s
    ELSE [fds |-> [s.fds EXCEPT ![fd] = UnusedItem],
          max_fd |-> items_max_fd(UsedBelow(s, s.max_fd) \ {fd}),
          master_r |-> s.master_r, master_w |-> s.master_w]

\* selector_unregister_fd, what it does once handle_close has returned: no
\* interest, out of the master sets, a blank item, and max_fd computed again.
Unregistered(s, fd) ==
    IF INVALID_FD(fd) \/ ~ITEM_USED(s, fd) THEN s
    ELSE [fds |-> [s.fds EXCEPT ![fd] = UnusedItem],
          max_fd |-> items_max_fd(UsedBelow(s, s.max_fd) \ {fd}),
          master_r |-> s.master_r \ {fd}, master_w |-> s.master_w \ {fd}]

\* selector_set_interest, and selector_set_interest_key
selector_set_interest(s, fd, i) ==
    IF INVALID_FD(fd) \/ ~ITEM_USED(s, fd) THEN s
    ELSE items_update_fdset_for_fd(WithItem(s, fd, Reinterested(s, fd, i)), fd)

\* The master sets say exactly what the items ask for, and max_fd is the
\* highest used descriptor: a descriptor missing from them is never served, one
\* left behind after its item was released makes pselect fail with EBADF.
MastersMatch(s) ==
    /\ s.master_r = {fd \in FD : ITEM_USED(s, fd) /\ "read" \in s.fds[fd].interest}
    /\ s.master_w = {fd \in FD : ITEM_USED(s, fd) /\ "write" \in s.fds[fd].interest}

MaxFdExact(s) ==
    /\ \A fd \in FD : ITEM_USED(s, fd) => fd <= s.max_fd
    /\ s.max_fd # 0 => ITEM_USED(s, s.max_fd)

Item(Data) == [used : BOOLEAN, interest : Interest,
               handler : Handlers, data : Data \cup {NoData}]

SelectorType(s, Data) ==
    s \in [fds : [FD -> Item(Data)], max_fd : FD,
           master_r : SUBSET FD, master_w : SUBSET FD]

=============================================================================
