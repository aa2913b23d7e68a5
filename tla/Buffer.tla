-------------------------------- MODULE Buffer --------------------------------
(***************************************************************************)
(* struct buffer, proxy_http/src/buffer/buffer.c: a block of memory with a *)
(* read and a write pointer, of which the first N0 bytes are a reserved    *)
(* zone where the parsers push back what they could not finish parsing.    *)
(* Pointers are offsets from `data': infLimit is N0 and limit is N.        *)
(* One action per operation the program calls.  buffer_compact and         *)
(* buffer_reset are only reached from buffer_read_adv and buffer_init_r.   *)
(***************************************************************************)
EXTENDS Integers, Sequences

CONSTANTS
    Byte,       \* the bytes
    NUL,        \* the byte 0
    N0,         \* size of the reserved zone (255 in client_new)
    N           \* size of the whole block (buffers_size)

ASSUME BufferAssumption ==
    /\ N0 \in Nat /\ N \in Nat /\ N0 <= N
    /\ NUL \in Byte

VARIABLES
    data,       \* the memory
    read,       \* read pointer
    write,      \* write pointer
    ret         \* what the last buffer_read or buffer_peek returned

vars == <<data, read, write, ret>>

Offsets == 0..(N - 1)

TypeOK ==
    /\ data \in [Offsets -> Byte]
    /\ read \in 0..N
    /\ write \in 0..N
    /\ ret \in Byte

\* buffer_init_r; malloc leaves the memory uninitialised.
buffer_init_r ==
    /\ data \in [Offsets -> Byte]
    /\ read = N0
    /\ write = N0
    /\ ret = NUL

buffer_can_write == N - write > 0
buffer_can_read == write - read > 0
buffer_can_write_reverse == read > 0
is_reserved == read < N0

\* Mutation: an empty buffer goes back to `data' and not to infLimit.
CompactedToData(m, r, w) ==
    IF r = w THEN [data |-> m, read |-> 0, write |-> 0]
    ELSE [data |-> m, read |-> r, write |-> w]

\* buffer_compact on pointers r and w and memory m.
Compacted(m, r, w) ==
    IF r = N0 THEN [data |-> m, read |-> r, write |-> w]
    ELSE IF r = w THEN [data |-> m, read |-> N0, write |-> N0]
    ELSE [data  |-> [i \in Offsets |->
                        IF i >= N0 /\ i < N0 + (w - r) THEN m[r + (i - N0)] ELSE m[i]],
          read  |-> N0,
          write |-> N0 + (w - r)]

\* Mutation: buffer_read_adv does not compact the buffer it emptied.
AdvanceNoCompact(k) == read' = read + k /\ UNCHANGED <<data, write>>

\* buffer_read_adv(b, k) for k > -1.
Advance(k) ==
    LET r == read + k
    IN  IF r = write
        THEN LET c == Compacted(data, r, write)
             IN  data' = c.data /\ read' = c.read /\ write' = c.write
        ELSE read' = r /\ UNCHANGED <<data, write>>

\* The caller gets buffer_write_ptr, read(2) stores k bytes there (0 at end of
\* file) and buffer_write_adv(b, k) advances.
buffer_write_adv(k) ==
    /\ \E s \in [1..k -> Byte] :
          data' = [i \in Offsets |->
                      IF i >= write /\ i < write + k THEN s[i - write + 1] ELSE data[i]]
    /\ write' = write + k
    /\ UNCHANGED <<read, ret>>

\* The caller gets buffer_read_ptr, write(2) takes k bytes of it and
\* buffer_read_adv(b, k) advances.
buffer_read_adv(k) == Advance(k) /\ UNCHANGED ret

buffer_read ==
    \/ buffer_can_read /\ ret' = data[read] /\ Advance(1)
    \/ ~buffer_can_read /\ ret' = NUL /\ UNCHANGED <<data, read, write>>

buffer_peek ==
    /\ ret' = IF buffer_can_read THEN data[read] ELSE NUL
    /\ UNCHANGED <<data, read, write>>

\* Mutation: buffer_write does not look for room.
BufferWriteUnguarded(c) ==
    /\ data' = [data EXCEPT ![write] = c]
    /\ write' = write + 1
    /\ UNCHANGED <<read, ret>>

buffer_write(c) ==
    \/ /\ buffer_can_write
       /\ data' = [data EXCEPT ![write] = c]
       /\ write' = write + 1
       /\ UNCHANGED <<read, ret>>
    \/ ~buffer_can_write /\ UNCHANGED vars

\* Mutation: the byte is stored before the read pointer moves back.
BufferWriteReverseLate(c) ==
    \/ /\ buffer_can_write_reverse
       /\ read' = read - 1
       /\ data' = [data EXCEPT ![read] = c]
       /\ UNCHANGED <<write, ret>>
    \/ ~buffer_can_write_reverse /\ UNCHANGED vars

buffer_write_reverse(c) ==
    \/ /\ buffer_can_write_reverse
       /\ read' = read - 1
       /\ data' = [data EXCEPT ![read - 1] = c]
       /\ UNCHANGED <<write, ret>>
    \/ ~buffer_can_write_reverse /\ UNCHANGED vars

Init == buffer_init_r

Next ==
    \/ \E k \in 0..(N - write) : buffer_write_adv(k)
    \/ \E k \in 0..(write - read) : buffer_read_adv(k)
    \/ buffer_read
    \/ buffer_peek
    \/ \E c \in Byte : buffer_write(c)
    \/ \E c \in Byte : buffer_write_reverse(c)

Spec == Init /\ [][Next]_vars

-----------------------------------------------------------------------------
\* buffer.h says "Invariantes: R <= W <= limit".  With the reserved zone the
\* write pointer must moreover never fall back into it, or buffer_write would
\* overwrite what a parser pushed back.
PointerOrder == read <= write /\ N0 <= write /\ write <= N

\* "como R == W, se auto compacta": an empty buffer always has its pointers at
\* infLimit.  Without it a buffer that was filled once would refuse every byte
\* afterwards, and a push-back on an empty buffer could land outside the
\* reserved zone.
EmptyIsReset == read = write => read = N0

\* buffer.h: "se que escribo en zona reservada si el write le sigue a un
\* buffer_compact".  Push-backs on a buffer that has been drained, and those
\* that follow them, are marked reserved; readAndWrite relies on it to tell a
\* pushed back byte, already copied to the output, from a new one.
PushBackIsReserved ==
    [][read' < read /\ (read = write \/ is_reserved) => read' < N0]_vars

\* The queue the pointers and the memory stand for.
Bytes(m, r, w) == [i \in 1..(w - r) |-> m[r + i - 1]]
Queue == [q |-> Bytes(data, read, write), room |-> N - write]

Abs == INSTANCE BufferQueue WITH b <- Queue, Cap <- N - N0, Reserve <- N0

\* The pointers and the memory implement the queue: no byte is lost, repeated
\* or reordered by compaction, by push-back or at the limits, and a byte is
\* dropped exactly when the queue says so.
ImplementsQueue == Abs!AbsSpec

=============================================================================
