---------------------------- MODULE BufferProofs ----------------------------
(***************************************************************************)
(* For every size of the block, of the reserved zone and every set of      *)
(* bytes, the operations of Buffer keep its pointers in order, leave an    *)
(* empty buffer reset, and implement the queue with push-back.             *)
(***************************************************************************)
EXTENDS Buffer, SequenceTheorems, TLAPS

\* The inductive invariant: the pointers are in order, and a buffer whose
\* pointers meet has been reset.  The order is what makes them meet: a read
\* pointer past the write pointer would never be reset.
Inv == TypeOK /\ PointerOrder /\ EmptyIsReset

\* buffer_init_r leaves a buffer that satisfies the invariant.
LEMMA InitInv == Init => Inv
BY BufferAssumption DEF Init, buffer_init_r, Inv, TypeOK, PointerOrder, EmptyIsReset, Offsets

\* buffer_read_adv, alone or within buffer_read, keeps the pointers in order and
\* resets the buffer it empties.
LEMMA AdvanceInv ==
    ASSUME Inv, NEW k \in 0..(write - read), Advance(k), ret' \in Byte
    PROVE  Inv'
<1>1. CASE read + k = write
  <2>1. data' = data /\ read' = N0 /\ write' = N0
    BY <1>1, BufferAssumption DEF Advance, Compacted, Inv, TypeOK, PointerOrder
  <2>2. QED
    BY <2>1, BufferAssumption DEF Inv, TypeOK, PointerOrder, EmptyIsReset
<1>2. CASE read + k # write
  <2>1. read' = read + k /\ data' = data /\ write' = write
    BY <1>2 DEF Advance
  <2>2. QED
    BY <1>2, <2>1, BufferAssumption DEF Inv, TypeOK, PointerOrder, EmptyIsReset
<1>3. QED BY <1>1, <1>2

\* Every operation preserves the invariant.
LEMMA NextInv == Inv /\ [Next]_vars => Inv'
<1> SUFFICES ASSUME Inv, [Next]_vars PROVE Inv'
  OBVIOUS
<1> USE BufferAssumption
<1>1. ASSUME NEW k \in 0..(N - write), buffer_write_adv(k) PROVE Inv'
  <2>1. data' \in [Offsets -> Byte]
    BY <1>1 DEF buffer_write_adv, Inv, TypeOK, PointerOrder, Offsets
  <2>2. QED
    BY <1>1, <2>1 DEF buffer_write_adv, Inv, TypeOK, PointerOrder, EmptyIsReset
<1>2. ASSUME NEW k \in 0..(write - read), buffer_read_adv(k) PROVE Inv'
  BY <1>2, AdvanceInv DEF buffer_read_adv, Inv, TypeOK
<1>3. CASE buffer_read
  <2>1. CASE buffer_can_read /\ ret' = data[read] /\ Advance(1)
    <3>1. 1 \in 0..(write - read) /\ ret' \in Byte
      BY <2>1 DEF buffer_can_read, Inv, TypeOK, PointerOrder, Offsets
    <3>2. QED BY <2>1, <3>1, AdvanceInv
  <2>2. CASE ~buffer_can_read /\ ret' = NUL /\ UNCHANGED <<data, read, write>>
    BY <2>2 DEF Inv, TypeOK, PointerOrder, EmptyIsReset
  <2>3. QED BY <1>3, <2>1, <2>2 DEF buffer_read
<1>4. CASE buffer_peek
  <2>1. ret' \in Byte
    BY <1>4 DEF buffer_peek, buffer_can_read, Inv, TypeOK, PointerOrder, Offsets
  <2>2. QED
    BY <1>4, <2>1 DEF buffer_peek, Inv, TypeOK, PointerOrder, EmptyIsReset
<1>5. ASSUME NEW c \in Byte, buffer_write(c) PROVE Inv'
  BY <1>5 DEF buffer_write, buffer_can_write, vars, Inv, TypeOK, PointerOrder, EmptyIsReset, Offsets
<1>6. ASSUME NEW c \in Byte, buffer_write_reverse(c) PROVE Inv'
  BY <1>6 DEF buffer_write_reverse, buffer_can_write_reverse, vars, Inv, TypeOK,
              PointerOrder, EmptyIsReset, Offsets
<1>7. CASE UNCHANGED vars
  BY <1>7 DEF vars, Inv, TypeOK, PointerOrder, EmptyIsReset
<1>8. QED
  BY <1>1, <1>2, <1>3, <1>4, <1>5, <1>6, <1>7 DEF Next

\* In every reachable state of a buffer the pointers are in order and an empty
\* buffer is reset.
THEOREM Invariance == Spec => [](TypeOK /\ PointerOrder /\ EmptyIsReset)
BY InitInv, NextInv, PTL DEF Spec, Inv

\* No operation moves a pointer out of the block: what it reads and writes, a
\* push-back in front of the read pointer included, is within the memory that
\* buffer_init_r was given.
THEOREM TypeCorrect == Spec => []TypeOK
<1>1. Inv => TypeOK
  BY DEF Inv
<1>2. QED
  BY <1>1, InitInv, NextInv, PTL DEF Spec

\* A buffer that has been emptied, by buffer_read or by buffer_read_adv, offers
\* the whole of its space again, with its pointers at infLimit.
THEOREM EmptyReset == Spec => []EmptyIsReset
<1>1. Inv => EmptyIsReset
  BY DEF Inv
<1>2. QED
  BY <1>1, InitInv, NextInv, PTL DEF Spec

\* A byte pushed back on a drained buffer always lands in the reserved zone.
THEOREM PushBackReserved == Spec => PushBackIsReserved
<1>1. Inv /\ [Next]_vars => [read' < read /\ (read = write \/ is_reserved) => read' < N0]_vars
  <2> SUFFICES ASSUME Inv, Next, read' < read, read = write \/ is_reserved
               PROVE  read' < N0
    BY DEF vars
  <2>1. read <= N0
    BY BufferAssumption DEF Inv, EmptyIsReset, is_reserved, TypeOK
  <2>2. read \in Int /\ read' \in Int
    BY NextInv DEF Inv, TypeOK
  <2>3. QED
    BY <2>1, <2>2, BufferAssumption
<1>2. QED
  BY <1>1, InitInv, NextInv, PTL DEF Spec, PushBackIsReserved

-----------------------------------------------------------------------------
(* The buffer implements the queue. *)

\* What lies between the pointers is a sequence of bytes.
LEMMA BytesSeq ==
    ASSUME NEW m \in [Offsets -> Byte], NEW r \in 0..N, NEW w \in 0..N, r <= w
    PROVE  /\ Bytes(m, r, w) \in Seq(Byte)
           /\ Len(Bytes(m, r, w)) = w - r
           /\ \A i \in 1..(w - r) : Bytes(m, r, w)[i] = m[r + i - 1]
<1>1. w - r \in Nat /\ \A i \in 1..(w - r) : m[r + i - 1] \in Byte
  BY BufferAssumption DEF Offsets
<1>2. Bytes(m, r, w) \in [1..(w - r) -> Byte]
  BY <1>1 DEF Bytes
<1>3. QED
  BY <1>1, <1>2 DEF Bytes

\* The k bytes of s are stored at w, and nothing else changes.
Stored(m, m2, w, k, s) ==
    \A i \in Offsets : m2[i] = IF i >= w /\ i < w + k THEN s[i - w + 1] ELSE m[i]

\* Storing bytes at the write pointer appends them.
LEMMA BytesFilled ==
    ASSUME NEW m \in [Offsets -> Byte], NEW m2 \in [Offsets -> Byte],
           NEW r \in 0..N, NEW w \in 0..N, r <= w,
           NEW k \in 0..(N - w), NEW s \in Seq(Byte), Len(s) = k, Stored(m, m2, w, k, s)
    PROVE  Bytes(m2, r, w + k) = Bytes(m, r, w) \o s
<1> USE BufferAssumption DEF Stored
<1> DEFINE e == w + k  old == Bytes(m, r, w)  new == Bytes(m2, r, e)
<1>0. e \in 0..N /\ r <= e
  OBVIOUS
<1>1. k \in Nat /\ w \in Nat /\ r \in Nat /\ w + k \in 0..N /\ r <= w + k
  OBVIOUS
<1>2. old \in Seq(Byte) /\ Len(old) = w - r /\ \A i \in 1..(w - r) : old[i] = m[r + i - 1]
  BY BytesSeq
<1> HIDE DEF e
<1>3. new \in Seq(Byte) /\ Len(new) = e - r
      /\ \A i \in 1..(e - r) : new[i] = m2[r + i - 1]
  BY <1>0, BytesSeq
<1> HIDE DEF old, new
<1> USE DEF e
<1>4. /\ old \o s \in Seq(Byte) /\ Len(old \o s) = Len(old) + Len(s)
      /\ \A i \in 1 .. Len(old) + Len(s) :
            (old \o s)[i] = IF i <= Len(old) THEN old[i] ELSE s[i - Len(old)]
  BY <1>2, ConcatProperties
<1>5. Len(old) + Len(s) = w + k - r
  BY <1>1, <1>2
<1>6. ASSUME NEW i \in 1 .. Len(new) PROVE new[i] = (old \o s)[i]
  <2>1. i \in 1..(w + k - r) /\ i \in Int /\ r + i - 1 \in Offsets
    BY <1>1, <1>3 DEF Offsets
  <2>2. new[i] = m2[r + i - 1]
    BY <1>3, <2>1
  <2>3. CASE i <= w - r
    <3>1. m2[r + i - 1] = m[r + i - 1]
      BY <2>1, <2>3, <1>1
    <3>2. i \in 1..(w - r)
      BY <2>1, <2>3
    <3>3. (old \o s)[i] = old[i]
      BY <1>2, <1>4, <1>5, <2>1, <2>3
    <3>4. QED BY <1>2, <2>2, <3>1, <3>2, <3>3
  <2>4. CASE ~(i <= w - r)
    <3>1. m2[r + i - 1] = s[r + i - 1 - w + 1]
      BY <2>1, <2>4, <1>1
    <3>2. r + i - 1 - w + 1 = i - (w - r)
      BY <2>1, <1>1
    <3>3. (old \o s)[i] = s[i - (w - r)]
      BY <1>2, <1>4, <1>5, <2>1, <2>4
    <3>4. QED BY <2>2, <3>1, <3>2, <3>3
  <2>5. QED BY <2>3, <2>4
<1>7. new = old \o s
  <2>1. Len(new) = Len(old \o s)
    BY <1>3, <1>4, <1>5
  <2>2. QED BY <1>3, <1>4, <1>6, <2>1, SeqEqual
<1>8. QED BY <1>7 DEF old, new, e

\* Advancing the read pointer removes the oldest bytes.
LEMMA BytesAdvanced ==
    ASSUME NEW m \in [Offsets -> Byte], NEW r \in 0..N, NEW w \in 0..N, r <= w,
           NEW k \in 0..(w - r)
    PROVE  Bytes(m, r + k, w) = SubSeq(Bytes(m, r, w), k + 1, Len(Bytes(m, r, w)))
<1> USE BufferAssumption
<1> DEFINE old == Bytes(m, r, w)  new == Bytes(m, r + k, w)  sub == SubSeq(old, k + 1, Len(old))
<1>1. k \in Nat /\ w \in Nat /\ r \in Nat /\ r + k \in 0..N /\ r + k <= w
  OBVIOUS
<1>2. old \in Seq(Byte) /\ Len(old) = w - r /\ \A i \in 1..(w - r) : old[i] = m[r + i - 1]
  BY BytesSeq
<1>3. new \in Seq(Byte) /\ Len(new) = w - (r + k)
      /\ \A i \in 1..(w - (r + k)) : new[i] = m[r + k + i - 1]
  BY <1>1, BytesSeq
<1> HIDE DEF old, new
<1>4. /\ sub \in Seq(Byte) /\ Len(sub) = w - (r + k)
      /\ \A i \in 1..(w - (r + k)) : sub[i] = old[k + i]
  <2>1. k + 1 \in 1..(Len(old) + 1) /\ Len(old) \in k..Len(old)
    BY <1>1, <1>2
  <2>2. /\ sub \in Seq(Byte)
        /\ Len(sub) = IF k + 1 <= Len(old) THEN Len(old) - (k + 1) + 1 ELSE 0
        /\ \A i \in 1..(Len(old) - (k + 1) + 1) : sub[i] = old[k + 1 + i - 1]
    BY <1>2, <2>1, SubSeqProperties
  <2> HIDE DEF sub
  <2>3. Len(sub) = w - (r + k) /\ Len(old) - (k + 1) + 1 = w - (r + k)
    BY <1>1, <1>2, <2>2
  <2>4. ASSUME NEW i \in 1..(w - (r + k)) PROVE sub[i] = old[k + i]
    <3>1. k + 1 + i - 1 = k + i
      BY <1>1
    <3>2. QED BY <2>2, <2>3, <3>1
  <2>5. QED BY <2>2, <2>3, <2>4
<1>5. ASSUME NEW i \in 1 .. Len(new) PROVE new[i] = sub[i]
  <2>1. i \in 1..(w - (r + k)) /\ k + i \in 1..(w - r)
    BY <1>1, <1>3
  <2>2. r + (k + i) - 1 = r + k + i - 1
    BY <2>1, <1>1
  <2>3. QED BY <1>2, <1>3, <1>4, <2>1, <2>2
<1> HIDE DEF sub
<1>6. new = sub
  BY <1>3, <1>4, <1>5, SeqEqual
<1>7. QED BY <1>6 DEF old, new, sub

\* Pushing a byte back puts it in front of the others.
LEMMA BytesPushedBack ==
    ASSUME NEW m \in [Offsets -> Byte], NEW r \in 1..N, NEW w \in 0..N, r <= w, NEW c \in Byte
    PROVE  Bytes([m EXCEPT ![r - 1] = c], r - 1, w) = <<c>> \o Bytes(m, r, w)
<1> USE BufferAssumption
<1> DEFINE m2 == [m EXCEPT ![r - 1] = c]  old == Bytes(m, r, w)  new == Bytes(m2, r - 1, w)
<1>1. w \in Nat /\ r \in Nat /\ r \in 0..N /\ r - 1 \in 0..N /\ r - 1 <= w
      /\ r - 1 \in Offsets /\ m2 \in [Offsets -> Byte]
  BY DEF Offsets
<1>2. old \in Seq(Byte) /\ Len(old) = w - r /\ \A i \in 1..(w - r) : old[i] = m[r + i - 1]
  BY <1>1, BytesSeq
<1> HIDE DEF m2
<1>3. new \in Seq(Byte) /\ Len(new) = w - (r - 1)
      /\ \A i \in 1..(w - (r - 1)) : new[i] = m2[r - 1 + i - 1]
  BY <1>1, BytesSeq
<1> HIDE DEF old, new
<1>4. <<c>> \in Seq(Byte) /\ Len(<<c>>) = 1 /\ <<c>>[1] = c
  OBVIOUS
<1>5. /\ <<c>> \o old \in Seq(Byte) /\ Len(<<c>> \o old) = Len(<<c>>) + Len(old)
      /\ \A i \in 1 .. Len(<<c>>) + Len(old) :
            (<<c>> \o old)[i] = IF i <= Len(<<c>>) THEN <<c>>[i] ELSE old[i - Len(<<c>>)]
  BY <1>2, <1>4, ConcatProperties
<1>6. Len(<<c>> \o old) = Len(new)
  BY <1>1, <1>2, <1>3, <1>4, <1>5
<1>7. ASSUME NEW i \in 1 .. Len(new) PROVE new[i] = (<<c>> \o old)[i]
  <2>1. i \in 1..(w - (r - 1)) /\ i \in Int /\ i \in 1 .. Len(<<c>>) + Len(old)
    BY <1>1, <1>2, <1>3, <1>4
  <2>2. new[i] = m2[r - 1 + i - 1]
    BY <1>3, <2>1
  <2>3. CASE i = 1
    <3>1. m2[r - 1 + i - 1] = c
      BY <2>3, <1>1 DEF m2
    <3>2. QED BY <2>1, <2>2, <2>3, <3>1, <1>4, <1>5
  <2>4. CASE i # 1
    <3>1. r - 1 + i - 1 \in Offsets /\ r - 1 + i - 1 # r - 1 /\ r - 1 + i - 1 = r + (i - 1) - 1
      BY <2>1, <2>4, <1>1 DEF Offsets
    <3>2. m2[r - 1 + i - 1] = m[r + (i - 1) - 1]
      BY <3>1, <1>1 DEF m2
    <3>3. i - 1 \in 1..(w - r) /\ ~(i <= 1)
      BY <2>1, <2>4, <1>1
    <3>4. (<<c>> \o old)[i] = old[i - 1]
      BY <2>1, <3>3, <1>4, <1>5
    <3>5. QED BY <1>2, <2>2, <3>2, <3>3, <3>4
  <2>5. QED BY <2>3, <2>4
<1>8. new = <<c>> \o old
  BY <1>3, <1>5, <1>6, <1>7, SeqEqual
<1>9. QED BY <1>8 DEF old, new, m2

\* A new buffer is an empty queue.
LEMMA InitRefines == Init => Abs!AbsInit
<1> SUFFICES ASSUME Init PROVE Abs!AbsInit
  OBVIOUS
<1>1. data \in [Offsets -> Byte] /\ read = N0 /\ write = N0 /\ ret = NUL /\ N0 \in 0..N
  BY BufferAssumption DEF Init, buffer_init_r
<1>2. Bytes(data, N0, N0) \in Seq(Byte) /\ Len(Bytes(data, N0, N0)) = 0
  BY <1>1, BytesSeq, BufferAssumption
<1>3. Bytes(data, N0, N0) = <<>>
  BY <1>2
<1>4. QED
  BY <1>1, <1>3 DEF Queue, Abs!AbsInit, Abs!NewQueue

\* What the queue is in a state that satisfies the invariant.
LEMMA QueueFacts ==
    ASSUME Inv
    PROVE  /\ Queue.q = Bytes(data, read, write) /\ Queue.room = N - write
           /\ Queue.q \in Seq(Byte) /\ Len(Queue.q) = write - read
           /\ Abs!CanWrite(Queue) <=> buffer_can_write
           /\ Abs!CanRead(Queue) <=> buffer_can_read
           /\ buffer_can_read => Head(Queue.q) = data[read]
<1> USE BufferAssumption
<1>1. data \in [Offsets -> Byte] /\ read \in 0..N /\ write \in 0..N /\ read <= write
  BY DEF Inv, TypeOK, PointerOrder
<1>2. Queue.q = Bytes(data, read, write) /\ Queue.room = N - write
  BY DEF Queue
<1>3. Queue.q \in Seq(Byte) /\ Len(Queue.q) = write - read
      /\ \A i \in 1..(write - read) : Queue.q[i] = data[read + i - 1]
  <2> DEFINE now == Bytes(data, read, write)
  <2>1. now \in Seq(Byte) /\ Len(now) = write - read
        /\ \A i \in 1..(write - read) : now[i] = data[read + i - 1]
    BY <1>1, BytesSeq
  <2> HIDE DEF now
  <2>2. Queue.q = now
    BY <1>2 DEF now
  <2>3. QED BY <2>1, <2>2
<1>4. Abs!CanWrite(Queue) <=> buffer_can_write
  BY <1>2 DEF Abs!CanWrite, buffer_can_write
<1>5. Abs!CanRead(Queue) <=> buffer_can_read
  <2>1. Queue.q = <<>> <=> Len(Queue.q) = 0
    BY <1>3
  <2>2. QED BY <1>1, <1>3, <2>1 DEF Abs!CanRead, buffer_can_read
<1>6. ASSUME buffer_can_read PROVE Head(Queue.q) = data[read]
  <2>1. 1 \in 1..(write - read) /\ read + 1 - 1 = read
    BY <1>1, <1>6 DEF buffer_can_read
  <2>2. Queue.q[1] = data[read]
    BY <1>3, <2>1
  <2>3. QED BY <1>3, <2>2
<1>7. QED BY <1>2, <1>3, <1>4, <1>5, <1>6

\* buffer_read_adv, with its compaction, is the queue's Advanced.
LEMMA AdvanceRefines ==
    ASSUME Inv, Inv', NEW k \in 0..(write - read), Advance(k)
    PROVE  Queue' = Abs!Advanced(Queue, k, N - N0)
<1> USE BufferAssumption
<1> DEFINE rest == SubSeq(Queue.q, k + 1, Len(Queue.q))
<1>1. data \in [Offsets -> Byte] /\ read \in 0..N /\ write \in 0..N /\ read <= write
  BY DEF Inv, TypeOK, PointerOrder
<1>2. rest = Bytes(data, read + k, write)
  BY <1>1, QueueFacts, BytesAdvanced
<1>3. read + k \in 0..N /\ read + k <= write /\ k \in Nat
  BY <1>1
<1>4. rest \in Seq(Byte) /\ Len(rest) = write - (read + k)
  BY <1>1, <1>2, <1>3, BytesSeq
<1>5. Queue.room = N - write
  BY QueueFacts
<1> HIDE DEF rest
<1>6. rest = <<>> <=> Len(rest) = 0
  BY <1>4
<1>7. CASE read + k = write
  <2>1. data' = data /\ read' = N0 /\ write' = N0
    BY <1>7, <1>1 DEF Advance, Compacted
  <2>2. Bytes(data, N0, N0) \in Seq(Byte) /\ Len(Bytes(data, N0, N0)) = 0
    BY <1>1, BytesSeq
  <2>3. Bytes(data, N0, N0) = <<>> /\ rest = <<>>
    BY <2>2, <1>1, <1>4, <1>6, <1>7
  <2>4. Queue' = [q |-> <<>>, room |-> N - N0]
    BY <2>1, <2>3 DEF Queue
  <2>5. QED BY <2>3, <2>4 DEF Abs!Advanced, rest
<1>8. CASE read + k # write
  <2>1. read' = read + k /\ data' = data /\ write' = write
    BY <1>8 DEF Advance
  <2>2. rest # <<>>
    BY <1>1, <1>3, <1>4, <1>6, <1>8
  <2>3. Queue' = [q |-> rest, room |-> N - write]
    BY <2>1, <1>2 DEF Queue
  <2>4. QED BY <2>2, <2>3, <1>5 DEF Abs!Advanced, rest
<1>9. QED BY <1>7, <1>8

\* Storing at the write pointer is the queue's Filled.
LEMMA FillRefines ==
    ASSUME Inv, Inv', NEW k \in 0..(N - write), NEW s \in Seq(Byte), Len(s) = k,
           read' = read, write' = write + k,
           \A i \in Offsets : data'[i] = IF i >= write /\ i < write + k
                                         THEN s[i - write + 1] ELSE data[i]
    PROVE  Queue' = Abs!Filled(Queue, s)
<1> USE BufferAssumption
<1>1. data \in [Offsets -> Byte] /\ read \in 0..N /\ write \in 0..N /\ read <= write
      /\ data' \in [Offsets -> Byte]
  BY DEF Inv, TypeOK, PointerOrder
<1>2. Bytes(data', read, write + k) = Bytes(data, read, write) \o s
  <2>1. Stored(data, data', write, k, s)
    BY DEF Stored
  <2>2. QED
    BY ONLY <1>1, <2>1, k \in 0..(N - write), s \in Seq(Byte), Len(s) = k, BytesFilled
<1>3. Queue' = [q |-> Bytes(data', read, write + k), room |-> N - (write + k)]
  BY DEF Queue
<1>4. N - (write + k) = (N - write) - Len(s)
  BY <1>1
<1>5. QED
  BY <1>2, <1>3, <1>4, QueueFacts DEF Abs!Filled

\* Every operation of the buffer is an operation of the queue or changes nothing.
LEMMA NextRefines ==
    ASSUME Inv, Inv', [Next]_vars
    PROVE  [Abs!AbsNext]_(Abs!absVars)
<1> USE BufferAssumption
<1>0. /\ data \in [Offsets -> Byte] /\ read \in 0..N /\ write \in 0..N /\ read <= write
      /\ Queue.room = N - write /\ Len(Queue.q) = write - read
  BY QueueFacts DEF Inv, TypeOK, PointerOrder
<1>1. ASSUME NEW k \in 0..(N - write), buffer_write_adv(k) PROVE Abs!AbsNext
  <2>1. PICK s \in [1..k -> Byte] :
          data' = [i \in Offsets |->
                      IF i >= write /\ i < write + k THEN s[i - write + 1] ELSE data[i]]
    BY <1>1 DEF buffer_write_adv
  <2>2. k \in Nat /\ s \in Seq(Byte) /\ Len(s) = k
    BY <1>0
  <2>3. Queue' = Abs!Filled(Queue, s)
    BY <1>1, <2>1, <2>2, FillRefines DEF buffer_write_adv
  <2>4. Abs!Fill(k)
    BY <1>1, <2>3 DEF Abs!Fill, buffer_write_adv
  <2>5. QED BY <1>0, <2>4 DEF Abs!AbsNext
<1>2. ASSUME NEW k \in 0..(write - read), buffer_read_adv(k) PROVE Abs!AbsNext
  <2>1. Queue' = Abs!Advanced(Queue, k, N - N0)
    BY <1>2, AdvanceRefines DEF buffer_read_adv
  <2>2. Abs!Take(k)
    BY <1>2, <2>1 DEF Abs!Take, buffer_read_adv
  <2>3. QED BY <1>0, <2>2 DEF Abs!AbsNext
<1>3. CASE buffer_read
  <2>1. CASE buffer_can_read /\ ret' = data[read] /\ Advance(1)
    <3>1. 1 \in 0..(write - read)
      BY <2>1, <1>0 DEF buffer_can_read
    <3>2. Queue' = Abs!Advanced(Queue, 1, N - N0)
      BY <2>1, <3>1, AdvanceRefines
    <3>3. Abs!CanRead(Queue) /\ ret' = Head(Queue.q)
      BY <2>1, QueueFacts
    <3>4. QED BY <3>2, <3>3 DEF Abs!Get, Abs!AbsNext
  <2>2. CASE ~buffer_can_read /\ ret' = NUL /\ UNCHANGED <<data, read, write>>
    <3>1. ~Abs!CanRead(Queue) /\ Queue' = Queue
      BY <2>2, QueueFacts DEF Queue
    <3>2. QED BY <2>2, <3>1 DEF Abs!Get, Abs!AbsNext
  <2>3. QED BY <1>3, <2>1, <2>2 DEF buffer_read
<1>4. CASE buffer_peek
  <2>1. Queue' = Queue
    BY <1>4 DEF buffer_peek, Queue
  <2>2. ret' = IF Abs!CanRead(Queue) THEN Head(Queue.q) ELSE NUL
    BY <1>4, QueueFacts DEF buffer_peek
  <2>3. QED BY <2>1, <2>2 DEF Abs!Peek, Abs!AbsNext
<1>5. ASSUME NEW c \in Byte, buffer_write(c) PROVE Abs!AbsNext
  <2>1. CASE buffer_can_write
    <3>1. read' = read /\ write' = write + 1 /\ data' = [data EXCEPT ![write] = c] /\ ret' = ret
      BY <1>5, <2>1 DEF buffer_write
    <3>2. 1 \in 0..(N - write) /\ write \in Offsets
      BY <2>1, <1>0 DEF buffer_can_write, Offsets
    <3>3. ASSUME NEW i \in Offsets
          PROVE  data'[i] = IF i >= write /\ i < write + 1 THEN <<c>>[i - write + 1] ELSE data[i]
      <4>1. i >= write /\ i < write + 1 <=> i = write
        BY <1>0 DEF Offsets
      <4>2. CASE i = write
        <5>1. i - write + 1 = 1
          BY <4>2, <1>0
        <5>2. <<c>>[1] = c
          OBVIOUS
        <5>3. QED BY <4>1, <4>2, <5>1, <5>2, <3>1, <1>0, <3>2
      <4>3. CASE i # write
        BY <4>1, <4>3, <3>1, <1>0
      <4>4. QED BY <4>2, <4>3
    <3>4. <<c>> \in Seq(Byte) /\ Len(<<c>>) = 1
      OBVIOUS
    <3>5. Queue' = Abs!Filled(Queue, <<c>>)
      BY <3>1, <3>2, <3>3, <3>4, FillRefines
    <3>6. Abs!CanWrite(Queue)
      BY <2>1, QueueFacts
    <3>7. QED BY <3>1, <3>5, <3>6 DEF Abs!Written, Abs!Put, Abs!AbsNext
  <2>2. CASE ~buffer_can_write
    <3>1. Queue' = Queue /\ ret' = ret
      BY <1>5, <2>2 DEF buffer_write, vars, Queue
    <3>2. ~Abs!CanWrite(Queue)
      BY <2>2, QueueFacts
    <3>3. QED BY <3>1, <3>2 DEF Abs!Written, Abs!Put, Abs!AbsNext
  <2>3. QED BY <2>1, <2>2
<1>6. ASSUME NEW c \in Byte, buffer_write_reverse(c) PROVE Abs!AbsNext
  <2>0. Len(Queue.q) + Queue.room < (N - N0) + N0 <=> buffer_can_write_reverse
    BY <1>0 DEF buffer_can_write_reverse
  <2>1. CASE buffer_can_write_reverse
    <3>1. read' = read - 1 /\ data' = [data EXCEPT ![read - 1] = c] /\ write' = write /\ ret' = ret
      BY <1>6, <2>1 DEF buffer_write_reverse
    <3>2. read \in 1..N
      BY <2>1, <1>0 DEF buffer_can_write_reverse
    <3>3. Bytes(data', read', write') = <<c>> \o Bytes(data, read, write)
      BY <3>1, <3>2, <1>0, BytesPushedBack
    <3>4. Queue' = [q |-> <<c>> \o Queue.q, room |-> Queue.room]
      BY <3>1, <3>3 DEF Queue
    <3>5. QED BY <2>0, <2>1, <3>1, <3>4 DEF Abs!PushedBack, Abs!PushBack, Abs!AbsNext
  <2>2. CASE ~buffer_can_write_reverse
    <3>1. Queue' = Queue /\ ret' = ret
      BY <1>6, <2>2 DEF buffer_write_reverse, vars, Queue
    <3>2. QED BY <2>0, <2>2, <3>1 DEF Abs!PushedBack, Abs!PushBack, Abs!AbsNext
  <2>3. QED BY <2>1, <2>2
<1>7. CASE UNCHANGED vars
  BY <1>7 DEF vars, Abs!absVars, Queue
<1>8. QED
  BY <1>1, <1>2, <1>3, <1>4, <1>5, <1>6, <1>7 DEF Next

\* For every block, reserved zone and set of bytes, the pointers and the memory
\* of buffer.c implement the queue with push-back.
THEOREM Refinement == Spec => ImplementsQueue
<1>1. Inv /\ Inv' /\ [Next]_vars => [Abs!AbsNext]_(Abs!absVars)
  BY NextRefines
<1>2. QED
  BY <1>1, InitInv, NextInv, InitRefines, PTL DEF Spec, ImplementsQueue, Abs!AbsSpec

=============================================================================
