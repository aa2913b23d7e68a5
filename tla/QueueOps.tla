------------------------------ MODULE QueueOps ------------------------------
(***************************************************************************)
(* What a struct buffer (proxy_http/src/buffer) is to the code that uses   *)
(* it: a first-in first-out queue of bytes whose free space is what is     *)
(* left to the right of the write pointer.  The free space is not the      *)
(* capacity minus the length: bytes that were read give no space back      *)
(* until the queue is empty, when buffer_read_adv moves both pointers back *)
(* to infLimit.  A queue is a record                                       *)
(*                                                                         *)
(*     q     the unread bytes, oldest first                                *)
(*     room  limit - write, what buffer_can_write looks at                 *)
(*                                                                         *)
(* Buffer.tla models the pointers and implements these operations.         *)
(***************************************************************************)
EXTENDS Naturals, Sequences

\* buffer_init_r on `cap' bytes above the reserved zone.
NewQueue(cap) == [q |-> <<>>, room |-> cap]

CanWrite(b) == b.room > 0
CanRead(b)  == b.q # <<>>

\* read(fd, buffer_write_ptr(b), room) followed by buffer_write_adv.
Filled(b, s) == [q |-> b.q \o s, room |-> b.room - Len(s)]

\* buffer_write: a byte that does not fit is dropped without notice.
Written(b, c) == IF CanWrite(b) THEN Filled(b, <<c>>) ELSE b

\* buffer_read_adv(b, k): emptying the queue gives all the space back.
Advanced(b, k, cap) ==
    LET rest == SubSeq(b.q, k + 1, Len(b.q))
    IN  [q |-> rest, room |-> IF rest = <<>> THEN cap ELSE b.room]

\* buffer_write_reverse: the byte goes in front of the unread ones while there
\* is memory to the left of the read pointer, which is at (cap + reserve) -
\* room - Len(q); otherwise it is dropped without notice.
PushedBack(b, c, cap, reserve) ==
    IF Len(b.q) + b.room < cap + reserve
    THEN [q |-> <<c>> \o b.q, room |-> b.room]
    ELSE b

=============================================================================
