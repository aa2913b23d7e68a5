----------------------------- MODULE BufferQueue -----------------------------
(***************************************************************************)
(* The abstract specification of a buffer: a queue with push-back.  It     *)
(* has no pointers and no memory; it says which bytes come out, in which   *)
(* order, when a byte is accepted and when it is dropped.                  *)
(***************************************************************************)
EXTENDS QueueOps

CONSTANTS
    Byte,       \* the bytes
    NUL,        \* the byte 0, also what an empty buffer returns
    Cap,        \* limit - infLimit
    Reserve     \* infLimit - data, the reserved zone

VARIABLES
    b,          \* the queue
    ret         \* the byte the last buffer_read or buffer_peek returned

absVars == <<b, ret>>

AbsInit == b = NewQueue(Cap) /\ ret = NUL

\* A read(2) stored the bytes s, as many as there was room for or fewer.
Fill(k) ==
    /\ \E s \in [1..k -> Byte] : b' = Filled(b, s)
    /\ UNCHANGED ret

Put(c) == b' = Written(b, c) /\ UNCHANGED ret

\* A write(2) took k of the bytes offered to it.
Take(k) == b' = Advanced(b, k, Cap) /\ UNCHANGED ret

Get ==
    /\ ret' = IF CanRead(b) THEN Head(b.q) ELSE NUL
    /\ b' = IF CanRead(b) THEN Advanced(b, 1, Cap) ELSE b

Peek ==
    /\ ret' = IF CanRead(b) THEN Head(b.q) ELSE NUL
    /\ UNCHANGED b

PushBack(c) == b' = PushedBack(b, c, Cap, Reserve) /\ UNCHANGED ret

AbsNext ==
    \/ \E k \in 0..b.room : Fill(k)
    \/ \E k \in 0..Len(b.q) : Take(k)
    \/ \E c \in Byte : Put(c) \/ PushBack(c)
    \/ Get
    \/ Peek

AbsSpec == AbsInit /\ [][AbsNext]_absVars

=============================================================================
