---------------------------- MODULE LoggerProofs ----------------------------
(***************************************************************************)
(* For every size of the log buffer, of the pipe and of the cache of the   *)
(* thread, and whatever the order in which the event loop and the thread   *)
(* run, syslog gets the messages in order, each on lines of its own.       *)
(*                                                                         *)
(* What is in flight is one string of bytes: the thread's cache, the pipe  *)
(* and the part of the buffer that write(2) has not moved yet.  The        *)
(* invariant says that this string is cut, where the thread will cut it,   *)
(* into the lines that are still due.                                      *)
(***************************************************************************)
EXTENDS Logger, SequenceTheorems, TLAPS

-----------------------------------------------------------------------------
(* Strings of bytes and the lines they are cut into. *)

\* The thread makes this line of the bytes s + 1 to e of the string b.
Line(b, line, s, e) ==
    /\ s < e /\ e - s <= CacheMax
    /\ \A i \in (s + 1)..(e - 1) : b[i] # 0
    /\ b[e] = 0 \/ e - s = CacheMax
    /\ Len(line) = IF b[e] = 0 THEN e - s - 1 ELSE e - s
    /\ \A i \in 1..Len(line) : line[i] = b[s + i]

\* The first T bytes of b are cut at f into the lines of ls after the first n.
Cuts(b, T, ls, n, f) ==
    /\ n <= Len(ls)
    /\ f \in [0..(Len(ls) - n) -> 0..T]
    /\ f[0] = 0 /\ f[Len(ls) - n] = T
    /\ \A i, j \in 0..(Len(ls) - n) : i <= j => f[i] <= f[j]
    /\ \A j \in 1..(Len(ls) - n) : Line(b, ls[n + j], f[j - 1], f[j])

Spells(b, T, ls, n) == \E f : Cuts(b, T, ls, n, f)

\* Only the bytes of a line matter to it, wherever they are.
LEMMA LineAgrees ==
    ASSUME NEW b, NEW c, NEW line, NEW s \in Nat, NEW e \in Nat,
           NEW x \in Nat, NEW y \in Nat, NEW d \in Nat,
           Len(line) \in Nat, CacheMax \in Nat, s = x + d, e = y + d,
           \A i \in (x + 1)..y : c[i] = b[i + d],
           Line(b, line, s, e)
    PROVE  Line(c, line, x, y)
<1>1. s < e /\ x < y /\ y \in (x + 1)..y /\ c[y] = b[e] /\ y - x = e - s
  BY DEF Line
<1>2. ASSUME NEW i \in (x + 1)..(y - 1) PROVE c[i] # 0
  <2>1. i + d \in (s + 1)..(e - 1) /\ i \in (x + 1)..y
    OBVIOUS
  <2>2. b[i + d] # 0
    BY <2>1 DEF Line
  <2>3. QED BY <2>1, <2>2
<1>3. Len(line) = (IF b[e] = 0 THEN e - s - 1 ELSE e - s)
  BY DEF Line
<1>4. ASSUME NEW i \in 1..Len(line) PROVE line[i] = c[x + i]
  <2>1. x + i \in (x + 1)..y /\ x + i + d = s + i
    BY <1>1, <1>3
  <2>2. line[i] = b[s + i]
    BY DEF Line
  <2>3. c[x + i] = b[x + i + d]
    BY <2>1
  <2>4. QED BY <2>1, <2>2, <2>3
<1>6. b[e] = 0 \/ e - s = CacheMax
  BY DEF Line
<1>7. e - s <= CacheMax
  BY DEF Line
<1>8. QED BY <1>1, <1>2, <1>3, <1>4, <1>6, <1>7 DEF Line

\* One more line at the end of the string.
LEMMA SpellsMore ==
    ASSUME NEW S, NEW b, NEW c, NEW T \in Nat, NEW U \in Nat, NEW ls \in Seq(Seq(S)), NEW n \in Nat,
           NEW line \in Seq(S), CacheMax \in Nat, Spells(b, T, ls, n),
           \A i \in 1..T : c[i] = b[i], Line(c, line, T, U)
    PROVE  Spells(c, U, Append(ls, line), n)
<1>1. PICK f : Cuts(b, T, ls, n, f)
  BY DEF Spells
<1> DEFINE m == Append(ls, line)
           k == Len(ls) - n
           g == [j \in 0..(k + 1) |-> IF j <= k THEN f[j] ELSE U]
<1>2. /\ m \in Seq(Seq(S)) /\ Len(m) = Len(ls) + 1 /\ m[Len(ls) + 1] = line
      /\ \A i \in 1..Len(ls) : m[i] = ls[i]
  BY AppendProperties
<1>3. k \in Nat /\ Len(ls) \in Nat /\ n + k = Len(ls) /\ n <= Len(ls) /\ Len(m) - n = k + 1
  BY <1>1, <1>2, LenProperties DEF Cuts
<1>4. /\ f \in [0..k -> 0..T] /\ f[0] = 0 /\ f[k] = T
      /\ \A j \in 1..k : Line(b, ls[n + j], f[j - 1], f[j])
      /\ \A i, j \in 0..k : i <= j => f[i] <= f[j]
  BY <1>1 DEF Cuts
<1>5. T < U
  BY DEF Line
<1> HIDE DEF m, k
<1>6. g \in [0..(k + 1) -> 0..U]
  BY <1>3, <1>4, <1>5
<1>7. g[0] = 0 /\ g[k + 1] = U /\ g[k] = T
  BY <1>3, <1>4
<1>8. ASSUME NEW j \in 1..(k + 1) PROVE Line(c, m[n + j], g[j - 1], g[j])
  <2>1. CASE j = k + 1
    <3>1. j - 1 = k /\ n + j = Len(ls) + 1
      BY <1>3, <2>1
    <3>2. QED BY <1>2, <1>7, <2>1, <3>1
  <2>2. CASE j \in 1..k
    <3>1. j \in 0..k /\ j - 1 \in 0..k /\ j <= k /\ j - 1 <= k /\ n + j \in 1..Len(ls)
          /\ j \in 0..(k + 1) /\ j - 1 \in 0..(k + 1)
      BY <1>3, <2>2
    <3>2. g[j] = f[j] /\ g[j - 1] = f[j - 1] /\ m[n + j] = ls[n + j]
      BY <1>2, <3>1
    <3>3. f[j - 1] \in 0..T /\ f[j] \in 0..T
      BY <1>4, <3>1
    <3>4. Line(b, ls[n + j], f[j - 1], f[j])
      BY <1>4, <2>2
    <3> DEFINE s == f[j - 1]  e == f[j]  x == ls[n + j]
    <3>5. Len(x) \in Nat
      BY <3>1, ElementOfSeq, LenProperties
    <3>6. Line(b, x, s, e) /\ s \in Nat /\ e \in Nat /\ e <= T
      BY <3>3, <3>4
    <3> HIDE DEF s, e, x
    <3>7. s = s + 0 /\ e = e + 0 /\ 0 \in Nat
      BY <3>6
    <3>8. \A i \in (s + 1)..e : i + 0 = i /\ i \in 1..T
      BY <3>6
    <3>9. \A i \in (s + 1)..e : c[i] = b[i + 0]
      BY <3>8
    <3>10. Line(c, x, s, e)
      BY <3>5, <3>6, <3>7, <3>9, LineAgrees
    <3>11. QED BY <3>2, <3>10 DEF s, e, x
  <2>3. QED BY <1>3, <2>1, <2>2
<1>9. Cuts(c, U, m, n, g)
  <2>1. n <= Len(m)
    BY <1>2, <1>3
  <2>2. ASSUME NEW i \in 0..(k + 1), NEW j \in 0..(k + 1), i <= j PROVE g[i] <= g[j]
    <3>1. CASE j = k + 1
      BY <1>6, <1>7, <3>1
    <3>2. CASE j <= k
      <4>1. i \in 0..k /\ j \in 0..k
        BY <1>3, <2>2, <3>2
      <4>2. QED BY <1>4, <2>2, <4>1
    <3>3. QED BY <1>3, <3>1, <3>2
  <2> HIDE DEF g
  <2>3. QED BY <1>3, <1>6, <1>7, <1>8, <2>1, <2>2 DEF Cuts
<1>10. QED BY <1>9 DEF Spells, m

\* The first line is taken from the front of the string.
LEMMA SpellsLess ==
    ASSUME NEW S, NEW b, NEW c, NEW T \in Nat, NEW ls \in Seq(Seq(S)), NEW n \in Nat, NEW f,
           CacheMax \in Nat, Cuts(b, T, ls, n, f), n < Len(ls),
           \A i \in 1..(T - f[1]) : c[i] = b[i + f[1]]
    PROVE  Spells(c, T - f[1], ls, n + 1)
<1> DEFINE k == Len(ls) - n
           d == f[1]
           g == [j \in 0..(k - 1) |-> f[j + 1] - d]
<1>1. k \in Nat /\ k >= 1 /\ Len(ls) \in Nat /\ n + k = Len(ls)
  BY LenProperties
<1>2. /\ f \in [0..k -> 0..T] /\ f[0] = 0 /\ f[k] = T
      /\ \A j \in 1..k : Line(b, ls[n + j], f[j - 1], f[j])
      /\ \A i, j \in 0..k : i <= j => f[i] <= f[j]
  BY DEF Cuts
<1>3. d \in 0..T /\ \A j \in 0..k : f[j] \in Nat /\ f[j] <= T
  <2> HIDE DEF k
  <2>1. 1 \in 0..k
    BY <1>1
  <2>2. \A j \in 0..k : f[j] \in 0..T
    BY <1>2
  <2>3. QED BY <2>1, <2>2
<1>4. \A i \in 1..(T - d) : c[i] = b[i + d]
  OBVIOUS
<1>5. \A j \in 1..k : d <= f[j]
  BY <1>1, <1>2
<1>6. f[1] = d
  OBVIOUS
<1> HIDE DEF k, d
<1>7. g \in [0..(k - 1) -> 0..(T - d)]
  <2>1. ASSUME NEW j \in 0..(k - 1) PROVE f[j + 1] - d \in 0..(T - d)
    <3>1. j + 1 \in 1..k /\ j + 1 \in 0..k
      BY <1>1
    <3>2. f[j + 1] \in Nat /\ f[j + 1] <= T /\ d <= f[j + 1]
      BY <1>3, <1>5, <3>1
    <3>3. QED BY <1>3, <3>2
  <2>2. QED BY <2>1
<1>8. g[0] = 0 /\ g[k - 1] = T - d
  <2>1. 0 \in 0..(k - 1) /\ k - 1 \in 0..(k - 1) /\ k - 1 + 1 = k /\ d - d = 0
    BY <1>1, <1>3
  <2>2. QED BY <1>2, <1>6, <2>1
<1>9. ASSUME NEW i \in 0..(k - 1), NEW j \in 0..(k - 1), i <= j PROVE g[i] <= g[j]
  <2>1. i + 1 \in 0..k /\ j + 1 \in 0..k /\ i + 1 <= j + 1
    BY <1>1, <1>9
  <2>2. f[i + 1] <= f[j + 1] /\ f[i + 1] \in Nat /\ f[j + 1] \in Nat
    BY <1>2, <1>3, <2>1
  <2>3. QED BY <1>3, <2>2
<1>10. ASSUME NEW j \in 1..(k - 1) PROVE Line(c, ls[n + 1 + j], g[j - 1], g[j])
  <2> DEFINE s == f[j]  e == f[j + 1]  x == ls[n + 1 + j]
  <2>1. /\ j \in 1..k /\ j \in 0..k /\ j + 1 \in 1..k /\ j + 1 \in 0..k /\ j + 1 - 1 = j
        /\ n + (j + 1) = n + 1 + j /\ n + 1 + j \in 1..Len(ls)
        /\ j - 1 \in 0..(k - 1) /\ j \in 0..(k - 1) /\ j - 1 + 1 = j
    BY <1>1
  <2>2. g[j - 1] = s - d /\ g[j] = e - d
    BY <2>1
  <2>3. Line(b, x, s, e)
    BY <1>2, <2>1
  <2>4. s \in Nat /\ e \in Nat /\ e <= T /\ d <= s
    BY <1>3, <1>5, <2>1
  <2>5. Len(x) \in Nat
    BY <2>1, ElementOfSeq, LenProperties
  <2> HIDE DEF s, e, x
  <2> DEFINE y == s - d  z == e - d
  <2>6. y \in Nat /\ z \in Int /\ z <= T - d /\ s = y + d /\ e = z + d /\ d \in Nat
    BY <1>3, <2>4
  <2>7. s < e
    BY <2>3 DEF Line
  <2>8. z \in Nat
    BY <1>3, <2>4, <2>7
  <2>9. g[j - 1] = y /\ g[j] = z
    BY <2>2
  <2> HIDE DEF y, z
  <2>10. \A i \in (y + 1)..z : i \in 1..(T - d)
    BY <1>3, <2>6
  <2>11. \A i \in (y + 1)..z : c[i] = b[i + d]
    BY <1>4, <2>10
  <2>12. Line(c, x, y, z)
    BY <2>3, <2>4, <2>5, <2>6, <2>8, <2>11, LineAgrees
  <2>13. QED BY <2>9, <2>12 DEF x
<1>11. Len(ls) - (n + 1) = k - 1 /\ n + 1 <= Len(ls)
  BY <1>1
<1> HIDE DEF g
<1>12. Cuts(c, T - d, ls, n + 1, g)
  BY <1>7, <1>8, <1>9, <1>10, <1>11 DEF Cuts
<1>13. QED BY <1>6, <1>12 DEF Spells

-----------------------------------------------------------------------------
(* The inductive invariant. *)

Bytes == 0..MaxSends

\* How many bytes are in flight, and which: the next one of the thread first.
Flying == Len(cache) + Len(pipe) + (Len(buf.q) - written)

Flight ==
    [i \in 1..Flying |->
        IF i <= Len(cache) THEN cache[i]
        ELSE IF i <= Len(cache) + Len(pipe) THEN pipe[i - Len(cache)]
        ELSE buf.q[written + (i - Len(cache) - Len(pipe))]]

\* What is in flight spells the lines that are due and not there yet, and the
\* cache holds the beginning of one.
InFlight ==
    /\ \A i \in DOMAIN cache : cache[i] # 0
    /\ Spells(Flight, Flying, due, Len(lines))

Inv == TypeOK /\ LinesInOrder /\ InFlight

\* The numbers behind the invariant.
LEMMA Numbers ==
    ASSUME TypeOK
    PROVE  /\ CacheMax \in Nat /\ CacheMax > 0 /\ LogCap \in Nat /\ PipeCap \in Nat /\ MaxSends \in Nat
           /\ buf.q \in Seq(Bytes) /\ pipe \in Seq(Bytes) /\ cache \in Seq(Bytes)
           /\ Len(buf.q) \in Nat /\ Len(pipe) \in Nat /\ Len(cache) \in Nat
           /\ DOMAIN cache = 1..Len(cache)
           /\ written \in Nat /\ written <= Len(buf.q) /\ Flying \in Nat
           /\ buf.room \in Nat /\ buf.room <= LogCap
           /\ Len(lines) \in Nat /\ Len(due) \in Nat
           /\ DOMAIN lines = 1..Len(lines) /\ DOMAIN due = 1..Len(due)
<1>1. CacheMax \in Nat /\ CacheMax > 0 /\ LogCap \in Nat /\ PipeCap \in Nat /\ MaxSends \in Nat
  BY LoggerAssumption
<1>2. buf.q \in Seq(Bytes) /\ pipe \in Seq(Bytes) /\ cache \in Seq(Bytes) /\ buf.room \in 0..LogCap
  BY DEF TypeOK, Bytes
<1>3. /\ Len(buf.q) \in Nat /\ Len(pipe) \in Nat /\ Len(cache) \in Nat
      /\ DOMAIN cache = 1..Len(cache)
  BY <1>2, LenProperties
<1>4. written \in Nat /\ written <= Len(buf.q)
  BY <1>3 DEF TypeOK
<1>5. lines \in Seq(Seq(Bytes)) /\ due \in Seq(Seq(Bytes))
  BY DEF TypeOK, Bytes
<1>6. /\ Len(lines) \in Nat /\ Len(due) \in Nat
      /\ DOMAIN lines = 1..Len(lines) /\ DOMAIN due = 1..Len(due)
  BY <1>5, LenProperties
<1>7. Flying \in Nat
  <2> DEFINE c == Len(cache)  p == Len(pipe)  q == Len(buf.q)
  <2>1. c \in Nat /\ p \in Nat /\ q \in Nat /\ written \in Nat /\ written <= q
    BY <1>3, <1>4
  <2> HIDE DEF c, p, q
  <2>2. c + p + (q - written) \in Nat
    BY <2>1
  <2>3. QED BY <2>2 DEF Flying, c, p, q
<1>8. buf.room \in Nat /\ buf.room <= LogCap
  BY <1>1, <1>2
<1>9. QED BY <1>1, <1>2, <1>3, <1>4, <1>6, <1>7, <1>8

\* Nothing is in flight at the beginning.
LEMMA InitInv == Init => Inv
<1> SUFFICES ASSUME Init PROVE Inv
  OBVIOUS
<1>1. CacheMax \in Nat /\ CacheMax > 0 /\ LogCap \in Nat /\ PipeCap \in Nat /\ MaxSends \in Nat
  BY LoggerAssumption
<1>2. buf.q = <<>> /\ buf.room = LogCap /\ buf = [q |-> <<>>, room |-> LogCap]
  BY DEF Init, NewQueue
<1>3. TypeOK
  BY <1>1, <1>2 DEF Init, TypeOK
<1>4. LinesInOrder
  BY DEF Init, LinesInOrder
<1>5. Flying = 0
  BY <1>2 DEF Init, Flying
<1> DEFINE f == [j \in 0..0 |-> 0]
<1>6. Len(due) = 0 /\ Len(lines) = 0 /\ 0 - 0 = 0
  BY DEF Init
<1>7. Cuts(Flight, Flying, due, Len(lines), f)
  BY <1>5, <1>6 DEF Cuts
<1>8. InFlight
  BY <1>7 DEF Init, InFlight, Spells
<1>9. QED BY <1>3, <1>4, <1>8 DEF Inv

\* A step that leaves the same bytes in flight.
LEMMA SameFlight ==
    ASSUME Inv, TypeOK', UNCHANGED <<lines, due>>, Flying' = Flying,
           \A i \in 1..Flying : Flight'[i] = Flight[i],
           \A i \in DOMAIN cache' : cache'[i] # 0
    PROVE  Inv'
<1>1. Flying \in Nat
  BY Numbers DEF Inv
<1>2. Flight' = Flight
  BY DEF Flight
<1>3. Spells(Flight, Flying, due, Len(lines))'
  BY <1>2 DEF Inv, InFlight
<1>4. LinesInOrder'
  BY DEF Inv, LinesInOrder
<1>5. QED BY <1>3, <1>4 DEF Inv, InFlight

-----------------------------------------------------------------------------
(* The steps. *)

\* Steps that move no byte.
LEMMA KeptStep ==
    ASSUME Inv, TypeOK', UNCHANGED <<buf, written, pipe, cache, lines, due>>
    PROVE  Inv'
<1>1. Flying' = Flying /\ Flight' = Flight
  BY DEF Flying, Flight
<1>2. QED BY <1>1, SameFlight DEF Inv, InFlight

\* write(2) moves a byte from the buffer to the pipe.
LEMMA WriteByteStep == ASSUME Inv, WriteByte PROVE Inv'
<1> DEFINE x == buf.q[written + 1]
<1>1. TypeOK
  BY DEF Inv
<1>2. written < Len(buf.q) /\ Len(pipe) < PipeCap /\ pipe' = Append(pipe, x) /\ written' = written + 1
  BY DEF WriteByte
<1>3. UNCHANGED <<buf, watched, main, thread, cache, lines, sends, due>>
  BY DEF WriteByte
<1>4. /\ buf.q \in Seq(Bytes) /\ pipe \in Seq(Bytes) /\ Len(buf.q) \in Nat /\ Len(pipe) \in Nat
      /\ Len(cache) \in Nat /\ written \in Nat /\ PipeCap \in Nat
  BY <1>1, Numbers
<1>5. x \in Bytes
  <2>1. written + 1 \in 1..Len(buf.q)
    BY <1>2, <1>4
  <2>2. QED BY <1>4, <2>1, ElementOfSeq
<1> HIDE DEF x
<1>6. /\ pipe' \in Seq(Bytes) /\ Len(pipe') = Len(pipe) + 1 /\ pipe'[Len(pipe) + 1] = x
      /\ \A i \in 1..Len(pipe) : pipe'[i] = pipe[i]
  BY <1>2, <1>4, <1>5, AppendProperties
<1>7. TypeOK'
  <2>1. Len(pipe') <= PipeCap /\ written' \in 0..Len(buf.q)
    BY <1>2, <1>4, <1>6
  <2>2. QED BY <1>1, <1>3, <1>6, <2>1 DEF TypeOK, Bytes
<1>8. Flying' = Flying
  <2> DEFINE c == Len(cache)  p == Len(pipe)  q == Len(buf.q)
  <2>1. c \in Nat /\ p \in Nat /\ q \in Nat /\ written \in Nat
    BY <1>4
  <2>2. Len(cache)' = c /\ Len(pipe)' = p + 1 /\ Len(buf.q)' = q /\ written' = written + 1
    BY <1>2, <1>3, <1>6
  <2> HIDE DEF c, p, q
  <2>3. c + (p + 1) + (q - (written + 1)) = c + p + (q - written)
    BY <2>1
  <2>4. Flying' = c + (p + 1) + (q - (written + 1))
    BY <2>2 DEF Flying
  <2>5. QED BY <2>3, <2>4 DEF Flying, c, p, q
<1>9. ASSUME NEW i \in 1..Flying PROVE Flight'[i] = Flight[i]
  <2>1. i \in Nat /\ i >= 1
    OBVIOUS
  <2>2. CASE i <= Len(cache)
    BY <1>3, <1>8, <2>2 DEF Flight
  <2>3. CASE i > Len(cache) /\ i <= Len(cache) + Len(pipe)
    <3>1. i - Len(cache) \in 1..Len(pipe) /\ i <= Len(cache) + Len(pipe')
      BY <1>4, <1>6, <2>1, <2>3
    <3>2. Flight'[i] = pipe'[i - Len(cache)] /\ Flight[i] = pipe[i - Len(cache)]
      BY <1>3, <1>4, <1>8, <2>1, <2>3, <3>1 DEF Flight
    <3>3. QED BY <1>6, <3>1, <3>2
  <2>4. CASE i = Len(cache) + Len(pipe) + 1
    <3>1. /\ i - Len(cache) = Len(pipe) + 1 /\ i <= Len(cache) + Len(pipe')
          /\ ~(i <= Len(cache)) /\ ~(i <= Len(cache) + Len(pipe))
          /\ i - Len(cache) - Len(pipe) = 1
      BY <1>4, <1>6, <2>4
    <3>2. Flight'[i] = pipe'[Len(pipe) + 1] /\ Flight[i] = buf.q[written + 1]
      BY <1>3, <1>8, <3>1 DEF Flight
    <3>3. QED BY <1>6, <3>2 DEF x
  <2>5. CASE i > Len(cache) + Len(pipe) + 1
    <3>1. /\ ~(i <= Len(cache)) /\ ~(i <= Len(cache) + Len(pipe)) /\ ~(i <= Len(cache) + Len(pipe'))
          /\ written' + (i - Len(cache) - Len(pipe')) = written + (i - Len(cache) - Len(pipe))
      BY <1>2, <1>4, <1>6, <2>1, <2>5
    <3>2. QED BY <1>3, <1>8, <3>1 DEF Flight
  <2>6. QED BY <1>4, <2>1, <2>2, <2>3, <2>4, <2>5
<1>10. QED BY <1>3, <1>7, <1>8, <1>9, SameFlight DEF Inv, InFlight

\* write(2) returns with all of the buffer in the pipe.
LEMMA WriteReturnsStep == ASSUME Inv, WriteReturns PROVE Inv'
<1>1. TypeOK
  BY DEF Inv
<1>2. /\ buf.q \in Seq(Bytes) /\ Len(buf.q) \in Nat /\ LogCap \in Nat
      /\ Len(cache) \in Nat /\ Len(pipe) \in Nat
  BY <1>1, Numbers
<1>3. SubSeq(buf.q, Len(buf.q) + 1, Len(buf.q)) = <<>>
  BY <1>2, SubSeqEmpty
<1>4. buf' = [q |-> <<>>, room |-> LogCap] /\ written' = 0 /\ main' = "loop"
  BY <1>3 DEF WriteReturns, Advanced
<1>5. written = Len(buf.q) /\ UNCHANGED <<watched, pipe, thread, cache, lines, sends, due>>
  BY DEF WriteReturns
<1>6. buf'.q = <<>> /\ Len(buf'.q) = 0
  BY <1>4
<1>7. TypeOK'
  BY <1>1, <1>2, <1>4, <1>5, <1>6 DEF TypeOK
<1>8. Flying' = Flying /\ Flying = Len(cache) + Len(pipe)
  BY <1>2, <1>4, <1>5, <1>6 DEF Flying
<1>9. \A i \in 1..Flying : i <= Len(cache) + Len(pipe)
  BY <1>2, <1>8
<1>10. \A i \in 1..Flying : Flight'[i] = Flight[i]
  BY <1>5, <1>8, <1>9 DEF Flight
<1>11. QED BY <1>5, <1>7, <1>8, <1>10, SameFlight DEF Inv, InFlight

\* What the thread reads is the byte in flight after its cache.
LEMMA NextByte ==
    ASSUME TypeOK, pipe # <<>>
    PROVE  /\ Head(pipe) \in Bytes /\ Tail(pipe) \in Seq(Bytes)
           /\ Len(pipe) >= 1 /\ Len(Tail(pipe)) = Len(pipe) - 1
           /\ \A i \in 1..(Len(pipe) - 1) : Tail(pipe)[i] = pipe[i + 1]
           /\ Len(cache) + 1 \in 1..Flying
           /\ Flight[Len(cache) + 1] = Head(pipe)
           /\ \A i \in 1..Len(cache) : Flight[i] = cache[i]
<1>1. /\ pipe \in Seq(Bytes) /\ Len(pipe) \in Nat /\ Len(cache) \in Nat /\ Flying \in Nat
      /\ written \in Nat /\ Len(buf.q) \in Nat /\ written <= Len(buf.q)
  BY Numbers
<1>2. /\ Head(pipe) \in Bytes /\ Tail(pipe) \in Seq(Bytes) /\ Len(Tail(pipe)) = Len(pipe) - 1
      /\ \A i \in 1..Len(Tail(pipe)) : Tail(pipe)[i] = pipe[i + 1]
  BY <1>1, HeadTailProperties
<1>3. Len(pipe) >= 1 /\ Head(pipe) = pipe[1]
  BY <1>1, EmptySeq
<1>4. Len(cache) + 1 \in 1..Flying /\ \A i \in 1..Len(cache) : i \in 1..Flying
  <2> DEFINE c == Len(cache)  p == Len(pipe)  q == Len(buf.q)
  <2>1. c \in Nat /\ p \in Nat /\ q \in Nat /\ written \in Nat /\ written <= q /\ p >= 1
    BY <1>1, <1>3
  <2> HIDE DEF c, p, q
  <2>2. c + 1 <= c + p + (q - written)
    BY <2>1
  <2>3. c + 1 <= Flying
    BY <2>2 DEF Flying, c, p, q
  <2>4. QED BY <1>1, <2>1, <2>3 DEF c
<1>5. ~(Len(cache) + 1 <= Len(cache)) /\ Len(cache) + 1 <= Len(cache) + Len(pipe) /\ Len(cache) + 1 - Len(cache) = 1
  BY <1>1, <1>3
<1>6. Flight[Len(cache) + 1] = Head(pipe)
  BY <1>3, <1>4, <1>5 DEF Flight
<1>7. \A i \in 1..Len(cache) : Flight[i] = cache[i]
  BY <1>1, <1>4 DEF Flight
<1>8. QED BY <1>2, <1>3, <1>4, <1>6, <1>7

\* The thread adds the byte to its cache.
LEMMA ThreadReads ==
    ASSUME Inv, pipe # <<>>, Head(pipe) # 0, Len(cache) + 1 < CacheMax,
           cache' = Append(cache, Head(pipe)), pipe' = Tail(pipe),
           UNCHANGED <<buf, watched, main, written, thread, lines, sends, due>>
    PROVE  Inv'
<1>1. TypeOK
  BY DEF Inv
<1>2. /\ cache \in Seq(Bytes) /\ Len(pipe) \in Nat /\ Len(cache) \in Nat /\ Flying \in Nat
      /\ written \in Nat /\ Len(buf.q) \in Nat /\ DOMAIN cache = 1..Len(cache) /\ PipeCap \in Nat
  BY <1>1, Numbers
<1>3. /\ Head(pipe) \in Bytes /\ pipe' \in Seq(Bytes)
      /\ Len(pipe) >= 1 /\ Len(pipe') = Len(pipe) - 1
      /\ \A i \in 1..(Len(pipe) - 1) : pipe'[i] = pipe[i + 1]
      /\ Flight[Len(cache) + 1] = Head(pipe)
  BY <1>1, NextByte
<1>4. /\ cache' \in Seq(Bytes) /\ Len(cache') = Len(cache) + 1 /\ cache'[Len(cache) + 1] = Head(pipe)
      /\ \A i \in 1..Len(cache) : cache'[i] = cache[i]
  BY <1>2, <1>3, AppendProperties
<1>5. TypeOK'
  <2>1. Len(pipe') <= PipeCap /\ Len(cache') < CacheMax
    BY <1>1, <1>2, <1>3, <1>4 DEF TypeOK
  <2>2. QED BY <1>1, <1>3, <1>4, <2>1 DEF TypeOK, Bytes
<1>6. \A i \in DOMAIN cache' : cache'[i] # 0
  <2>1. DOMAIN cache' = 1..(Len(cache) + 1)
    BY <1>4, LenProperties
  <2>2. \A i \in 1..(Len(cache) + 1) : i = Len(cache) + 1 \/ i \in 1..Len(cache)
    BY <1>2
  <2>3. \A i \in 1..Len(cache) : cache[i] # 0
    BY <1>2 DEF Inv, InFlight
  <2>4. QED BY <1>4, <2>1, <2>2, <2>3
<1>7. Flying' = Flying
  <2> DEFINE c == Len(cache)  p == Len(pipe)  q == Len(buf.q)
  <2>1. c \in Nat /\ p \in Nat /\ q \in Nat /\ written \in Nat
    BY <1>2
  <2>2. Len(cache)' = c + 1 /\ Len(pipe)' = p - 1 /\ Len(buf.q)' = q /\ written' = written
    BY <1>3, <1>4
  <2> HIDE DEF c, p, q
  <2>3. (c + 1) + (p - 1) + (q - written) = c + p + (q - written)
    BY <2>1
  <2>4. Flying' = (c + 1) + (p - 1) + (q - written)
    BY <2>2 DEF Flying
  <2>5. QED BY <2>3, <2>4 DEF Flying, c, p, q
<1>8. ASSUME NEW i \in 1..Flying PROVE Flight'[i] = Flight[i]
  <2>1. i \in Nat /\ i >= 1 /\ i \in 1..Flying'
    BY <1>7
  <2>2. CASE i <= Len(cache)
    <3>1. i \in 1..Len(cache) /\ i <= Len(cache')
      BY <1>2, <1>4, <2>1, <2>2
    <3>2. QED BY <1>4, <2>1, <2>2, <3>1 DEF Flight
  <2>3. CASE i = Len(cache) + 1
    <3>1. i <= Len(cache')
      BY <1>2, <1>4, <2>3
    <3>2. Flight'[i] = cache'[i]
      BY <2>1, <3>1 DEF Flight
    <3>3. QED BY <1>3, <1>4, <2>3, <3>2
  <2>4. CASE i > Len(cache) + 1 /\ i <= Len(cache) + Len(pipe)
    <3>1. /\ ~(i <= Len(cache')) /\ i <= Len(cache') + Len(pipe') /\ ~(i <= Len(cache))
          /\ i - Len(cache') \in 1..(Len(pipe) - 1) /\ i - Len(cache') + 1 = i - Len(cache)
      BY <1>2, <1>3, <1>4, <2>1, <2>4
    <3>2. Flight'[i] = pipe'[i - Len(cache')] /\ Flight[i] = pipe[i - Len(cache)]
      BY <2>1, <2>4, <3>1 DEF Flight
    <3>3. pipe'[i - Len(cache')] = pipe[i - Len(cache') + 1]
      BY <1>3, <3>1
    <3>4. QED BY <3>1, <3>2, <3>3
  <2>5. CASE i > Len(cache) + Len(pipe)
    <3>1. /\ ~(i <= Len(cache)) /\ ~(i <= Len(cache'))
          /\ ~(i <= Len(cache) + Len(pipe)) /\ ~(i <= Len(cache') + Len(pipe'))
          /\ i - Len(cache') - Len(pipe') = i - Len(cache) - Len(pipe)
      BY <1>2, <1>3, <1>4, <2>1, <2>5
    <3>2. Flight'[i] = buf.q[written + (i - Len(cache') - Len(pipe'))]
      BY <2>1, <3>1 DEF Flight
    <3>3. Flight[i] = buf.q[written + (i - Len(cache) - Len(pipe))]
      BY <2>1, <3>1 DEF Flight
    <3>4. QED BY <3>1, <3>2, <3>3
  <2>6. QED BY <1>2, <1>3, <2>1, <2>2, <2>3, <2>4, <2>5
<1>9. QED BY <1>5, <1>6, <1>7, <1>8, SameFlight

\* The thread hands a line to syslog: the byte after its cache ends the first of
\* the lines that are due.
LEMMA ThreadEndsLine ==
    ASSUME Inv, pipe # <<>>, Head(pipe) = 0 \/ Len(cache) + 1 = CacheMax,
           lines' = Append(lines, IF Head(pipe) = 0 THEN cache ELSE Append(cache, Head(pipe))),
           cache' = <<>>, pipe' = Tail(pipe),
           UNCHANGED <<buf, watched, main, written, thread, sends, due>>
    PROVE  Inv'
<1> DEFINE x == IF Head(pipe) = 0 THEN cache ELSE Append(cache, Head(pipe))
           n == Len(cache)
           l == Len(lines)
<1>1. TypeOK
  BY DEF Inv
<1>2. /\ cache \in Seq(Bytes) /\ Len(pipe) \in Nat /\ n \in Nat /\ Flying \in Nat
      /\ written \in Nat /\ Len(buf.q) \in Nat /\ written <= Len(buf.q)
      /\ DOMAIN cache = 1..n /\ PipeCap \in Nat
      /\ CacheMax \in Nat /\ CacheMax > 0 /\ l \in Nat /\ Len(due) \in Nat
      /\ DOMAIN lines = 1..l /\ DOMAIN due = 1..Len(due)
  BY <1>1, Numbers
<1>3. /\ Head(pipe) \in Bytes /\ pipe' \in Seq(Bytes)
      /\ Len(pipe) >= 1 /\ Len(pipe') = Len(pipe) - 1
      /\ \A i \in 1..(Len(pipe) - 1) : pipe'[i] = pipe[i + 1]
      /\ n + 1 \in 1..Flying /\ Flight[n + 1] = Head(pipe)
      /\ \A i \in 1..n : Flight[i] = cache[i]
  BY <1>1, NextByte
<1>4. due \in Seq(Seq(Bytes)) /\ lines \in Seq(Seq(Bytes)) /\ n < CacheMax
  BY <1>1 DEF TypeOK, Bytes
<1>5. PICK f : Cuts(Flight, Flying, due, l, f)
  BY DEF Inv, InFlight, Spells
<1> DEFINE e == f[1]
<1> HIDE DEF n, l, e
<1>6. l < Len(due)
  <2>1. l <= Len(due) /\ f[0] = 0 /\ f[Len(due) - l] = Flying
    BY <1>5 DEF Cuts
  <2>2. l = Len(due) => Len(due) - l = 0
    BY <1>2
  <2>3. Flying # 0
    BY <1>2, <1>3
  <2>4. l # Len(due)
    BY <2>1, <2>2, <2>3
  <2> DEFINE h == Len(due)
  <2>5. l \in Nat /\ h \in Nat /\ l <= h /\ l # h
    BY <1>2, <2>1, <2>4
  <2> HIDE DEF h
  <2>6. l < h
    BY <2>5
  <2>7. QED BY <2>6 DEF h
<1>7. Line(Flight, due[l + 1], 0, e) /\ e \in 1..Flying
  <2>1. 1 \in 1..(Len(due) - l) /\ 1 \in 0..(Len(due) - l) /\ 1 - 1 = 0
    BY <1>2, <1>6
  <2>2. Line(Flight, due[l + 1], f[0], f[1]) /\ f[0] = 0 /\ f[1] \in 0..Flying
    BY <1>5, <2>1 DEF Cuts
  <2>3. 0 < f[1]
    BY <2>2 DEF Line
  <2>4. QED BY <1>2, <2>2, <2>3 DEF e
<1>8. e <= CacheMax /\ (Flight[e] = 0 \/ e = CacheMax) /\ \A i \in 1..(e - 1) : Flight[i] # 0
  BY <1>2, <1>7 DEF Line
<1>9. e = n + 1
  <2>1. e > n
    <3>1. SUFFICES ASSUME e <= n PROVE FALSE
      BY <1>2, <1>7
    <3>2. e \in 1..n /\ e # CacheMax
      BY <1>2, <1>4, <1>7, <3>1
    <3>3. Flight[e] # 0
      BY <1>2, <1>3, <3>2 DEF Inv, InFlight
    <3>4. QED BY <1>8, <3>2, <3>3
  <2>2. e <= n + 1
    <3>1. CASE n + 1 = CacheMax
      BY <1>8, <3>1
    <3>2. CASE Head(pipe) = 0
      <4>1. n + 1 \notin 1..(e - 1)
        BY <1>3, <1>8, <3>2
      <4>2. QED BY <1>2, <1>7, <4>1
    <3>3. QED BY <3>1, <3>2 DEF n
  <2>3. QED BY <1>2, <1>7, <2>1, <2>2
<1>10. x \in Seq(Bytes) /\ x = due[l + 1]
  <2> DEFINE y == due[l + 1]
  <2>1. y \in Seq(Bytes) /\ Len(y) \in Nat
    <3>1. l + 1 \in 1..Len(due)
      BY <1>2, <1>6
    <3>2. QED BY <1>4, <3>1, ElementOfSeq, LenProperties
  <2>2. /\ Len(y) = IF Head(pipe) = 0 THEN n ELSE n + 1
        /\ \A i \in 1..Len(y) : y[i] = Flight[i]
    <3>1. /\ Len(y) = (IF Flight[e] = 0 THEN e - 0 - 1 ELSE e - 0)
          /\ \A i \in 1..Len(y) : y[i] = Flight[0 + i]
      BY <1>7 DEF Line
    <3> HIDE DEF y
    <3>2. \A i \in 1..Len(y) : 0 + i = i
      BY <2>1
    <3>3. e - 0 - 1 = n /\ e - 0 = n + 1
      BY <1>2, <1>9
    <3>4. QED BY <1>3, <1>9, <3>1, <3>2, <3>3
  <2> HIDE DEF y
  <2>3. CASE Head(pipe) = 0
    <3>1. x = cache /\ Len(y) = Len(cache) /\ \A i \in 1..Len(cache) : y[i] = cache[i]
      BY <1>3, <2>2, <2>3 DEF n
    <3>2. QED BY <1>2, <2>1, <3>1, SeqEqual DEF y
  <2>4. CASE Head(pipe) # 0
    <3> DEFINE z == Append(cache, Head(pipe))
    <3>1. /\ z \in Seq(Bytes) /\ Len(z) = n + 1 /\ z[n + 1] = Head(pipe)
          /\ \A i \in 1..n : z[i] = cache[i]
      BY <1>2, <1>3, AppendProperties DEF n
    <3>2. Len(y) = n + 1 /\ \A i \in 1..(n + 1) : y[i] = Flight[i]
      BY <2>2, <2>4
    <3>3. x = z
      BY <2>4
    <3> HIDE DEF z, x
    <3>4. \A i \in 1..(n + 1) : i = n + 1 \/ i \in 1..n
      BY <1>2
    <3>5. \A i \in 1..(n + 1) : z[i] = y[i]
      BY <1>3, <3>1, <3>2, <3>4
    <3>6. z = y
      BY <2>1, <3>1, <3>2, <3>5, SeqEqual
    <3>7. QED BY <3>1, <3>3, <3>6 DEF y
  <2>5. QED BY <2>3, <2>4
<1> HIDE DEF x
<1>11. /\ lines' \in Seq(Seq(Bytes)) /\ Len(lines') = l + 1 /\ lines'[l + 1] = x
       /\ \A i \in 1..l : lines'[i] = lines[i]
  BY <1>4, <1>10, AppendProperties DEF l, x
<1>12. LinesInOrder'
  <2>1. DOMAIN lines' = 1..(l + 1)
    BY <1>11, LenProperties
  <2>2. \A i \in 1..(l + 1) : i = l + 1 \/ i \in 1..l
    BY <1>2
  <2>3. l + 1 \in DOMAIN due
    BY <1>2, <1>6
  <2>4. QED BY <1>2, <1>10, <1>11, <2>1, <2>2, <2>3 DEF Inv, LinesInOrder
<1>13. TypeOK'
  <2>1. Len(pipe') <= PipeCap /\ Len(cache') < CacheMax /\ cache' \in Seq(Bytes)
    BY <1>1, <1>2, <1>3 DEF TypeOK
  <2>2. QED BY <1>1, <1>3, <1>11, <2>1 DEF TypeOK, Bytes
<1>14. Flying' = Flying - e
  <2> DEFINE p == Len(pipe)  q == Len(buf.q)
  <2>1. p \in Nat /\ q \in Nat /\ written \in Nat
    BY <1>2
  <2>2. Len(cache)' = 0 /\ Len(pipe)' = p - 1 /\ Len(buf.q)' = q /\ written' = written
    BY <1>3
  <2>3. Flying = n + p + (q - written)
    BY DEF Flying, n
  <2> HIDE DEF p, q
  <2>4. 0 + (p - 1) + (q - written) = (n + p + (q - written)) - e
    BY <1>2, <1>9, <2>1
  <2>5. Flying' = 0 + (p - 1) + (q - written)
    BY <2>2 DEF Flying
  <2>6. QED BY <2>3, <2>4, <2>5
<1>15. ASSUME NEW i \in 1..(Flying - e) PROVE Flight'[i] = Flight[i + e]
  <2> DEFINE h == i + e
  <2>1. /\ i \in Nat /\ i >= 1 /\ i \in 1..Flying' /\ h \in 1..Flying
        /\ Len(cache') = 0 /\ ~(i <= Len(cache')) /\ ~(h <= Len(cache))
    BY <1>2, <1>7, <1>9, <1>14 DEF n
  <2> HIDE DEF h
  <2>2. CASE h <= Len(cache) + Len(pipe)
    <3>1. /\ i <= Len(cache') + Len(pipe') /\ i - Len(cache') = i /\ i \in 1..(Len(pipe) - 1)
          /\ h - Len(cache) = i + 1
      BY <1>2, <1>3, <1>9, <2>1, <2>2 DEF n, h
    <3>2. Flight'[i] = pipe'[i]
      BY <2>1, <3>1 DEF Flight
    <3>3. Flight[h] = pipe[i + 1]
      BY <2>1, <2>2, <3>1 DEF Flight
    <3>4. QED BY <1>3, <3>1, <3>2, <3>3 DEF h
  <2>3. CASE ~(h <= Len(cache) + Len(pipe))
    <3>1. /\ ~(i <= Len(cache') + Len(pipe'))
          /\ h - Len(cache) - Len(pipe) = i - Len(cache') - Len(pipe')
      BY <1>2, <1>3, <1>9, <2>1, <2>3 DEF n, h
    <3>2. Flight'[i] = buf.q[written + (i - Len(cache') - Len(pipe'))]
      BY <2>1, <3>1 DEF Flight
    <3>3. Flight[h] = buf.q[written + (h - Len(cache) - Len(pipe))]
      BY <2>1, <2>3 DEF Flight
    <3>4. QED BY <3>1, <3>2, <3>3 DEF h
  <2>4. QED BY <2>2, <2>3
<1>16. Spells(Flight', Flying - e, due, l + 1)
  BY <1>2, <1>4, <1>5, <1>6, <1>15, SpellsLess DEF e
<1>17. InFlight'
  <2>1. DOMAIN cache' = {}
    OBVIOUS
  <2>2. Spells(Flight, Flying, due, Len(lines))'
    BY <1>11, <1>14, <1>16
  <2>3. QED BY <2>1, <2>2 DEF InFlight
<1>18. QED BY <1>12, <1>13, <1>17 DEF Inv

\* What log_send stores of a message fits with its 0, and is at most two lines.
LEMMA KeptFits ==
    ASSUME TypeOK, sends < MaxSends, NEW len \in Lengths, len # buf.room, buf.room # 0,
           NEW m, m = Kept([k \in 1..len |-> sends + 1])
    PROVE  /\ m \in Seq(Bytes) /\ Len(m) \in Nat /\ Len(m) + 1 <= buf.room
           /\ Len(m) + 1 <= CacheMax + CacheMax
           /\ \A i \in 1..Len(m) : m[i] # 0
<1> DEFINE w == [k \in 1..len |-> sends + 1]
<1>1. buf.room \in Nat /\ MaxSends \in Nat /\ CacheMax \in Nat
  BY Numbers
<1>2. sends \in Nat /\ sends + 1 \in Bytes /\ sends + 1 # 0
  BY <1>1 DEF TypeOK, Bytes
<1>3. len \in Nat /\ len + 1 <= CacheMax + CacheMax
  BY <1>1, LoggerAssumption
<1>4. w \in Seq(Bytes) /\ Len(w) = len /\ \A i \in 1..len : w[i] = sends + 1
  BY <1>2, <1>3, IsASeq
<1>5. m = IF len > buf.room THEN SubSeq(w, 1, buf.room - 1) ELSE w
  BY <1>4 DEF Kept
<1> HIDE DEF w
<1>6. CASE len > buf.room
  <2> DEFINE r == buf.room - 1
  <2>1. r \in Nat /\ r <= len /\ r + 1 = buf.room
    BY <1>1, <1>3, <1>6
  <2>2. m = SubSeq(w, 1, r)
    BY <1>5, <1>6
  <2> HIDE DEF r
  <2>3. \A i \in 1..r : w[i] \in Bytes /\ i \in 1..len
    BY <1>2, <1>3, <1>4, <2>1
  <2>4. /\ m \in Seq(Bytes) /\ Len(m) = (IF 1 <= r THEN r - 1 + 1 ELSE 0)
        /\ \A i \in 1..(r - 1 + 1) : m[i] = w[1 + i - 1]
    <3>1. 1 \in Int /\ r \in Int /\ \A i \in 1..r : w[i] \in Bytes
      BY <2>1, <2>3
    <3>2. /\ SubSeq(w, 1, r) \in Seq(Bytes) /\ Len(SubSeq(w, 1, r)) = (IF 1 <= r THEN r - 1 + 1 ELSE 0)
          /\ \A i \in 1..(r - 1 + 1) : SubSeq(w, 1, r)[i] = w[1 + i - 1]
      BY <3>1, SubSeqProperties
    <3>3. QED BY <2>2, <3>2
  <2>5. Len(m) = r /\ r - 1 + 1 = r /\ \A i \in 1..r : 1 + i - 1 = i
    BY <2>1, <2>4
  <2>6. \A i \in 1..r : m[i] = sends + 1
    BY <1>4, <2>3, <2>4, <2>5
  <2>7. r + 1 <= CacheMax + CacheMax /\ r + 1 <= buf.room
    BY <1>1, <1>3, <2>1
  <2>8. QED BY <1>2, <2>1, <2>4, <2>5, <2>6, <2>7
<1>7. CASE ~(len > buf.room)
  <2>1. m = w /\ len + 1 <= buf.room
    BY <1>1, <1>3, <1>5, <1>7
  <2>2. QED BY <1>2, <1>3, <1>4, <2>1
<1>8. QED BY <1>6, <1>7

\* c is the first T bytes of b, then the message m and its 0.
Stored(c, b, T, m) ==
    /\ Len(m) + 1 <= CacheMax + CacheMax
    /\ \A i \in 1..Len(m) : m[i] # 0
    /\ \A i \in 1..T : c[i] = b[i]
    /\ \A i \in 1..Len(m) : c[T + i] = m[i]
    /\ c[T + Len(m) + 1] = 0

\* The lines of a message, at the end of what is in flight, are due.
LEMMA MessageSpells ==
    ASSUME NEW S, NEW b, NEW c, NEW T \in Nat, NEW ls \in Seq(Seq(S)), NEW n \in Nat, NEW m \in Seq(S),
           CacheMax \in Nat, CacheMax > 0, Spells(b, T, ls, n),
           Stored(c, b, T, m)
    PROVE  /\ ls \o LinesOf(m) \in Seq(Seq(S))
           /\ Spells(c, T + Len(m) + 1, ls \o LinesOf(m), n)
           /\ \A i \in DOMAIN ls : i \in DOMAIN (ls \o LinesOf(m)) /\ (ls \o LinesOf(m))[i] = ls[i]
<1> DEFINE k == Len(m)
<1>1. k \in Nat /\ Len(ls) \in Nat /\ DOMAIN ls = 1..Len(ls)
  BY LenProperties
<1>2. /\ k + 1 <= CacheMax + CacheMax /\ \A i \in 1..k : m[i] # 0
      /\ \A i \in 1..k : c[T + i] = m[i]
      /\ c[T + k + 1] = 0
      /\ \A i \in 1..T : c[i] = b[i]
  BY DEF Stored
<1>3. CASE k < CacheMax
  <2>1. ls \o LinesOf(m) = Append(ls, m)
    BY <1>3, AppendIsConcat DEF LinesOf
  <2>2. Line(c, m, T, T + k + 1)
    <3> DEFINE e == T + k + 1
    <3>1. e \in Nat /\ T < e /\ e - T <= CacheMax /\ e - T - 1 = k /\ c[e] = 0
      BY <1>1, <1>2, <1>3
    <3>2. ASSUME NEW i \in (T + 1)..(e - 1) PROVE c[i] # 0
      <4>1. i - T \in 1..k /\ T + (i - T) = i
        BY <1>1
      <4>2. QED BY <1>2, <4>1
    <3> HIDE DEF e
    <3>3. Len(m) = e - T - 1 /\ \A i \in 1..Len(m) : m[i] = c[T + i]
      BY <1>2, <3>1
    <3>4. Line(c, m, T, e)
      BY <3>1, <3>2, <3>3 DEF Line
    <3>5. QED BY <3>4 DEF e
  <2>3. T + k + 1 \in Nat
    BY <1>1
  <2>4. Spells(c, T + k + 1, Append(ls, m), n)
    BY <1>2, <2>2, <2>3, SpellsMore
  <2>5. /\ Append(ls, m) \in Seq(Seq(S)) /\ Len(Append(ls, m)) = Len(ls) + 1
        /\ \A i \in 1..Len(ls) : Append(ls, m)[i] = ls[i]
    BY AppendProperties
  <2>6. DOMAIN Append(ls, m) = 1..(Len(ls) + 1)
    BY <2>5, LenProperties
  <2>7. \A i \in 1..Len(ls) : i \in 1..(Len(ls) + 1)
    BY <1>1
  <2>8. QED BY <1>1, <2>1, <2>4, <2>5, <2>6, <2>7
<1>4. CASE CacheMax <= k
  <2> DEFINE u == SubSeq(m, 1, CacheMax)
             v == SubSeq(m, CacheMax + 1, k)
             e == T + CacheMax
             d == T + k + 1
  <2>1. LinesOf(m) = <<u, v>>
    BY <1>1, <1>4 DEF LinesOf
  <2>2. \A i \in 1..k : m[i] \in S
    BY ElementOfSeq
  <2>3. /\ u \in Seq(S) /\ Len(u) = CacheMax
        /\ \A i \in 1..CacheMax : u[i] = m[i]
    <3>1. /\ \A i \in 1..CacheMax : m[i] \in S
          /\ 1 <= CacheMax /\ CacheMax - 1 + 1 = CacheMax /\ \A i \in 1..CacheMax : 1 + i - 1 = i
      BY <1>1, <1>4, <2>2
    <3>2. /\ u \in Seq(S) /\ Len(u) = (IF 1 <= CacheMax THEN CacheMax - 1 + 1 ELSE 0)
          /\ \A i \in 1..(CacheMax - 1 + 1) : u[i] = m[1 + i - 1]
      BY <3>1, SubSeqProperties
    <3>3. QED BY <3>1, <3>2
  <2>4. /\ v \in Seq(S) /\ Len(v) = k - CacheMax
        /\ \A i \in 1..(k - CacheMax) : v[i] = m[CacheMax + i]
    <3> DEFINE g == CacheMax + 1
    <3>1. /\ g \in Nat /\ \A i \in g..k : m[i] \in S
          /\ k - g + 1 = k - CacheMax /\ \A i \in 1..(k - CacheMax) : g + i - 1 = CacheMax + i
          /\ (IF g <= k THEN k - g + 1 ELSE 0) = k - CacheMax
      BY <1>1, <1>4, <2>2
    <3> HIDE DEF g, k
    <3>2. /\ SubSeq(m, g, k) \in Seq(S) /\ Len(SubSeq(m, g, k)) = (IF g <= k THEN k - g + 1 ELSE 0)
          /\ \A i \in 1..(k - g + 1) : SubSeq(m, g, k)[i] = m[g + i - 1]
      BY <1>1, <3>1, SubSeqProperties
    <3>3. v = SubSeq(m, g, k)
      BY DEF g
    <3>4. QED BY <3>1, <3>2, <3>3
  <2> HIDE DEF u, v
  <2>5. Line(c, u, T, e)
    <3>1. e \in Nat /\ T < e /\ e - T = CacheMax
      OBVIOUS
    <3>2. \A i \in 1..CacheMax : i \in 1..k /\ c[T + i] = m[i] /\ m[i] # 0
      BY <1>1, <1>2, <1>4
    <3>3. ASSUME NEW i \in (T + 1)..e PROVE c[i] # 0
      <4>1. i - T \in 1..CacheMax /\ T + (i - T) = i
        OBVIOUS
      <4>2. QED BY <3>2, <4>1
    <3> HIDE DEF e, k
    <3>4. c[e] # 0 /\ \A i \in (T + 1)..(e - 1) : c[i] # 0
      BY <3>1, <3>3
    <3>5. \A i \in 1..Len(u) : u[i] = c[T + i]
      BY <2>3, <3>2
    <3>6. Len(u) = e - T
      BY <2>3, <3>1
    <3>7. QED BY <3>1, <3>4, <3>5, <3>6 DEF Line
  <2>6. Line(c, v, e, d)
    <3>1. e \in Nat /\ d \in Nat /\ e < d /\ d - e <= CacheMax /\ d - e - 1 = k - CacheMax /\ c[d] = 0
      BY <1>1, <1>2, <1>4
    <3>2. ASSUME NEW i \in (e + 1)..(d - 1) PROVE c[i] # 0
      <4>1. i - T \in 1..k /\ T + (i - T) = i
        BY <1>1, <1>4
      <4>2. QED BY <1>2, <4>1
    <3>3. ASSUME NEW i \in 1..(k - CacheMax) PROVE v[i] = c[e + i]
      <4>1. CacheMax + i \in 1..k /\ T + (CacheMax + i) = e + i
        BY <1>1, <1>4
      <4>2. QED BY <1>2, <2>4, <4>1
    <3> HIDE DEF e, d, k
    <3>4. Len(v) = d - e - 1 /\ \A i \in 1..Len(v) : v[i] = c[e + i]
      BY <2>4, <3>1, <3>3
    <3>5. QED BY <3>1, <3>2, <3>4 DEF Line
  <2> DEFINE la == Append(ls, u)
             lb == Append(la, v)
  <2>7. e \in Nat /\ d \in Nat
    BY <1>1
  <2>8. Spells(c, e, la, n)
    BY <1>2, <2>3, <2>5, <2>7, SpellsMore
  <2>9. /\ la \in Seq(Seq(S)) /\ Len(la) = Len(ls) + 1
        /\ \A i \in 1..Len(ls) : la[i] = ls[i]
    BY <2>3, AppendProperties
  <2> HIDE DEF la
  <2>10. Spells(c, d, lb, n)
    <3> HIDE DEF e, d
    <3>1. \A i \in 1..e : c[i] = c[i]
      OBVIOUS
    <3>2. QED BY <2>4, <2>6, <2>7, <2>8, <2>9, <3>1, SpellsMore
  <2>11. /\ lb \in Seq(Seq(S)) /\ Len(lb) = Len(la) + 1
         /\ \A i \in 1..Len(la) : lb[i] = la[i]
    BY <2>4, <2>9, AppendProperties
  <2>12. lb = ls \o LinesOf(m)
    <3>0. lb = la \o <<v>>
      BY <2>4, <2>9, AppendIsConcat
    <3>1. lb = (ls \o <<u>>) \o <<v>>
      BY <2>3, <3>0, AppendIsConcat DEF la
    <3>2. <<u>> \in Seq(Seq(S)) /\ <<v>> \in Seq(Seq(S))
      BY <2>3, <2>4
    <3>3. (ls \o <<u>>) \o <<v>> = ls \o (<<u>> \o <<v>>)
      BY <3>2, ConcatAssociative
    <3>4. <<u>> \o <<v>> = <<u, v>>
      <4> DEFINE p == <<u>>  r == <<v>>  z == <<u, v>>
      <4>1. Len(p) = 1 /\ Len(r) = 1 /\ Len(z) = 2 /\ p[1] = u /\ r[1] = v /\ z[1] = u /\ z[2] = v
        OBVIOUS
      <4>2. p \in Seq(Seq(S)) /\ r \in Seq(Seq(S)) /\ z \in Seq(Seq(S))
        BY <2>3, <2>4
      <4> HIDE DEF p, r, z
      <4>3. /\ p \o r \in Seq(Seq(S)) /\ Len(p \o r) = 2
            /\ \A i \in 1..2 : (p \o r)[i] = IF i <= 1 THEN p[i] ELSE r[i - 1]
        <5>1. /\ p \o r \in Seq(Seq(S)) /\ Len(p \o r) = Len(p) + Len(r)
              /\ \A i \in 1..(Len(p) + Len(r)) :
                    (p \o r)[i] = IF i <= Len(p) THEN p[i] ELSE r[i - Len(p)]
          BY <4>2, ConcatProperties
        <5>2. Len(p) + Len(r) = 2
          BY <4>1
        <5>3. QED BY <4>1, <5>1, <5>2
      <4>4. \A i \in 1..2 : (p \o r)[i] = z[i]
        BY <4>1, <4>3
      <4>5. p \o r = z
        BY <4>1, <4>2, <4>3, <4>4, SeqEqual
      <4>6. QED BY <4>5 DEF p, r, z
    <3>5. QED BY <2>1, <3>1, <3>3, <3>4
  <2> HIDE DEF lb
  <2>13. DOMAIN lb = 1..(Len(ls) + 2)
    BY <1>1, <2>9, <2>11, LenProperties
  <2>14. \A i \in 1..Len(ls) : i \in 1..(Len(ls) + 2) /\ i \in 1..Len(la)
    BY <1>1, <2>9
  <2>15. QED BY <1>1, <2>9, <2>10, <2>11, <2>12, <2>13, <2>14
<1>5. QED BY <1>1, <1>3, <1>4

\* log_send stores a message and its 0 behind everything in flight.
LEMMA MessageStored ==
    ASSUME Inv, sends < MaxSends, NEW len \in Lengths, len # buf.room, buf.room # 0,
           NEW m, m = Kept([k \in 1..len |-> sends + 1]),
           buf' = Filled(buf, Append(m, 0)), due' = due \o LinesOf(m), watched' = TRUE,
           sends' = sends + 1, UNCHANGED <<main, written, pipe, thread, cache, lines>>
    PROVE  Inv'
<1> DEFINE k == Len(m)
           w == Append(m, 0)
           q == Len(buf.q)
<1>1. TypeOK
  BY DEF Inv
<1>2. /\ m \in Seq(Bytes) /\ k \in Nat /\ k + 1 <= buf.room /\ k + 1 <= CacheMax + CacheMax
      /\ \A i \in 1..k : m[i] # 0
  BY <1>1, KeptFits
<1>3. /\ buf.q \in Seq(Bytes) /\ q \in Nat /\ Len(pipe) \in Nat /\ Len(cache) \in Nat
      /\ written \in Nat /\ written <= q /\ Flying \in Nat /\ buf.room \in Nat /\ buf.room <= LogCap
      /\ LogCap \in Nat /\ CacheMax \in Nat /\ CacheMax > 0 /\ MaxSends \in Nat /\ Len(lines) \in Nat
      /\ DOMAIN lines = 1..Len(lines) /\ DOMAIN due = 1..Len(due)
  BY <1>1, Numbers
<1>4. /\ w \in Seq(Bytes) /\ Len(w) = k + 1 /\ w[k + 1] = 0 /\ \A i \in 1..k : w[i] = m[i]
  <2>1. 0 \in Bytes
    BY <1>3 DEF Bytes
  <2>2. QED BY <1>2, <2>1, AppendProperties
<1> HIDE DEF k, w, q
<1>5. buf' = [q |-> buf.q \o w, room |-> buf.room - (k + 1)]
  BY <1>4 DEF Filled, w
<1>6. buf'.q = buf.q \o w /\ buf'.room = buf.room - (k + 1)
  <2> DEFINE g == buf.q \o w  r == buf.room - (k + 1)
  <2>1. buf' = [q |-> g, room |-> r]
    BY <1>5
  <2> HIDE DEF g, r
  <2>2. buf'.q = g /\ buf'.room = r
    BY ONLY <2>1
  <2>3. QED BY <2>2 DEF g, r
<1>7. /\ buf'.q \in Seq(Bytes) /\ Len(buf'.q) = q + (k + 1)
      /\ \A i \in 1..(q + (k + 1)) : buf'.q[i] = IF i <= q THEN buf.q[i] ELSE w[i - q]
  <2> DEFINE g == buf.q
  <2>1. g \in Seq(Bytes)
    BY <1>3
  <2>2. Len(g) = q
    BY DEF q
  <2>3. buf'.q = g \o w
    BY <1>6
  <2> HIDE DEF g
  <2>4. /\ g \o w \in Seq(Bytes) /\ Len(g \o w) = Len(g) + Len(w)
        /\ \A i \in 1..(Len(g) + Len(w)) : (g \o w)[i] = IF i <= Len(g) THEN g[i] ELSE w[i - Len(g)]
    BY <1>4, <2>1, ConcatProperties
  <2>5. /\ g \o w \in Seq(Bytes) /\ Len(g \o w) = q + (k + 1)
        /\ \A i \in 1..(q + (k + 1)) : (g \o w)[i] = IF i <= q THEN g[i] ELSE w[i - q]
    BY <1>4, <2>2, <2>4
  <2>6. QED BY <2>3, <2>5 DEF g
<1>8. due \in Seq(Seq(Bytes)) /\ Spells(Flight, Flying, due, Len(lines))
  BY <1>1 DEF TypeOK, Bytes, Inv, InFlight
<1>9. Flying' = Flying + k + 1
  <2> DEFINE c == Len(cache)  p == Len(pipe)
  <2>1. c \in Nat /\ p \in Nat /\ q \in Nat /\ written \in Nat /\ k \in Nat
    BY <1>2, <1>3
  <2>2. Flying' = c + p + ((q + (k + 1)) - written) /\ Flying = c + p + (q - written)
    BY <1>7 DEF Flying, q
  <2> HIDE DEF c, p
  <2>3. c + p + ((q + (k + 1)) - written) = (c + p + (q - written)) + k + 1
    BY <2>1
  <2>4. QED BY <2>2, <2>3
<1>10. ASSUME NEW i \in 1..Flying PROVE Flight'[i] = Flight[i]
  <2>1. i \in Nat /\ i >= 1 /\ i \in 1..Flying'
    BY <1>2, <1>3, <1>9
  <2>2. CASE i <= Len(cache) + Len(pipe)
    BY <2>1, <2>2 DEF Flight
  <2>3. CASE ~(i <= Len(cache) + Len(pipe))
    <3> DEFINE h == written + (i - Len(cache) - Len(pipe))
    <3>1. ~(i <= Len(cache))
      BY <1>3, <2>1, <2>3
    <3>2. Flight'[i] = buf'.q[h] /\ Flight[i] = buf.q[h]
      BY <2>1, <2>3, <3>1 DEF Flight
    <3>3. h \in 1..(q + (k + 1)) /\ h <= q
      <4> DEFINE c == Len(cache)  p == Len(pipe)
      <4>1. c \in Nat /\ p \in Nat /\ q \in Nat /\ written \in Nat /\ k \in Nat
            /\ i > c + p /\ i <= c + p + (q - written)
        <5>1. Flying = c + p + (q - written)
          BY DEF Flying, q
        <5>2. i <= Flying
          BY <1>3
        <5>3. i > c + p
          BY <1>3, <2>1, <2>3
        <5>4. QED BY <1>2, <1>3, <5>1, <5>2, <5>3
      <4> HIDE DEF c, p
      <4>2. written + (i - c - p) >= 1 /\ written + (i - c - p) <= q /\ written + (i - c - p) \in Int
        BY <2>1, <4>1
      <4>3. h = written + (i - c - p)
        BY DEF c, p
      <4> HIDE DEF h
      <4>4. QED BY <4>1, <4>2, <4>3
    <3> HIDE DEF h
    <3>4. QED BY <1>7, <3>2, <3>3
  <2>4. QED BY <2>2, <2>3
<1>11. ASSUME NEW i \in 1..(k + 1) PROVE Flight'[Flying + i] = w[i]
  <2> DEFINE j == Flying + i  c == Len(cache)  p == Len(pipe)
  <2>1. c \in Nat /\ p \in Nat /\ q \in Nat /\ written \in Nat /\ k \in Nat /\ i \in Nat /\ i >= 1
        /\ i <= k + 1 /\ written <= q /\ Flying = c + p + (q - written)
    BY <1>2, <1>3 DEF Flying, q
  <2> HIDE DEF c, p
  <2>2. j \in 1..Flying' /\ ~(j <= c) /\ ~(j <= c + p) /\ written + (j - c - p) = q + i
    BY <1>9, <2>1
  <2> HIDE DEF j
  <2>3. Flight'[j] = buf'.q[q + i]
    BY <2>2 DEF Flight, c, p
  <2>4. q + i \in 1..(q + (k + 1)) /\ ~(q + i <= q) /\ q + i - q = i
    BY <2>1
  <2>5. buf'.q[q + i] = w[i]
    <3> DEFINE g == buf'.q  h == q + i
    <3>1. \A x \in 1..(q + (k + 1)) : g[x] = IF x <= q THEN buf.q[x] ELSE w[x - q]
      BY <1>7
    <3>2. h \in 1..(q + (k + 1)) /\ ~(h <= q) /\ h - q = i
      BY <2>1, <2>4
    <3> HIDE DEF g, h
    <3>3. g[h] = w[h - q]
      BY <3>1, <3>2
    <3>4. QED BY <3>2, <3>3 DEF g, h
  <2>6. QED BY <2>3, <2>5 DEF j
<1>12. \A i \in 1..k : Flight'[Flying + i] = m[i]
  <2>1. \A i \in 1..k : i \in 1..(k + 1)
    BY <1>2
  <2>2. QED BY <1>4, <1>11, <2>1
<1>13. Flight'[Flying + k + 1] = 0
  <2>1. k + 1 \in 1..(k + 1) /\ Flying + (k + 1) = Flying + k + 1
    BY <1>2, <1>3
  <2>2. QED BY <1>4, <1>11, <2>1
<1>14. /\ due' \in Seq(Seq(Bytes))
       /\ Spells(Flight', Flying + k + 1, due', Len(lines))
       /\ \A i \in DOMAIN due : i \in DOMAIN due' /\ due'[i] = due[i]
  <2> DEFINE b == Flight  c == Flight'  T == Flying  n == Len(lines)
  <2>1. T \in Nat /\ n \in Nat /\ CacheMax \in Nat /\ CacheMax > 0
    BY <1>3
  <2>2. due \in Seq(Seq(Bytes)) /\ m \in Seq(Bytes) /\ Spells(b, T, due, n)
    BY <1>2, <1>8
  <2>3. Stored(c, b, T, m)
    BY <1>2, <1>10, <1>12, <1>13 DEF k, Stored
  <2> HIDE DEF b, c, T, n
  <2>4. /\ due \o LinesOf(m) \in Seq(Seq(Bytes))
        /\ Spells(c, T + Len(m) + 1, due \o LinesOf(m), n)
        /\ \A i \in DOMAIN due :
              i \in DOMAIN (due \o LinesOf(m)) /\ (due \o LinesOf(m))[i] = due[i]
    <3>1. Spells(c, T + Len(m) + 1, due \o LinesOf(m), n)
      BY ONLY <2>1, <2>2, <2>3, MessageSpells, Zenon
    <3>2. due \o LinesOf(m) \in Seq(Seq(Bytes))
      BY <2>1, <2>2, <2>3, MessageSpells
    <3>3. \A i \in DOMAIN due :
              i \in DOMAIN (due \o LinesOf(m)) /\ (due \o LinesOf(m))[i] = due[i]
      BY <2>1, <2>2, <2>3, MessageSpells
    <3>4. QED BY <3>1, <3>2, <3>3
  <2>5. QED BY <2>4 DEF c, T, n, k
<1>15. TypeOK'
  <2>1. buf'.room \in 0..LogCap /\ Len(buf'.q) + buf'.room <= LogCap
    <3>1. q + buf.room <= LogCap
      BY <1>1 DEF TypeOK, q
    <3> DEFINE r == buf.room
    <3>2. r \in Nat /\ q \in Nat /\ k \in Nat /\ k + 1 <= r /\ q + r <= LogCap /\ LogCap \in Nat
      BY <1>2, <1>3, <3>1
    <3> HIDE DEF r
    <3>3. r - (k + 1) \in 0..LogCap /\ (q + (k + 1)) + (r - (k + 1)) <= LogCap
      BY <3>2
    <3>4. QED BY <1>6, <1>7, <3>3 DEF r
  <2>2. buf' \in [q : Seq(Bytes), room : 0..LogCap]
    BY <1>5, <1>6, <1>7, <2>1
  <2>3. written' \in 0..Len(buf'.q)
    BY <1>2, <1>3, <1>7
  <2>4. sends' \in 0..MaxSends
    BY <1>1, <1>3 DEF TypeOK
  <2>5. QED BY <1>1, <1>14, <2>1, <2>2, <2>3, <2>4 DEF TypeOK, Bytes
<1>16. InFlight'
  BY <1>9, <1>14 DEF Inv, InFlight
<1>17. LinesInOrder'
  BY <1>14 DEF Inv, LinesInOrder
<1>18. QED BY <1>15, <1>16, <1>17 DEF Inv

\* log_send: the message is stored, or there is no space, or the process ends.
LEMMA LogSendStep == ASSUME Inv, NEW len \in Lengths, LogSend(len) PROVE Inv'
<1> DEFINE m == Kept([k \in 1..len |-> sends + 1])
<1>1. /\ sends < MaxSends /\ sends' = sends + 1
      /\ UNCHANGED <<written, pipe, thread, cache, lines>>
      /\ \/ main' = "aborted" /\ UNCHANGED <<buf, watched, due>>
         \/ /\ len # buf.room /\ watched' = TRUE /\ UNCHANGED main
            /\ IF buf.room = 0 THEN UNCHANGED <<buf, due>>
               ELSE buf' = Filled(buf, Append(m, 0)) /\ due' = due \o LinesOf(m)
  BY DEF LogSend
<1> HIDE DEF m
<1>2. CASE UNCHANGED <<buf, due>>
  <2>1. sends' \in 0..MaxSends
    BY <1>1, Numbers DEF Inv, TypeOK
  <2>2. TypeOK'
    BY <1>1, <1>2, <2>1 DEF Inv, TypeOK
  <2>3. QED BY <1>1, <1>2, <2>2, KeptStep
<1>3. CASE /\ len # buf.room /\ buf.room # 0 /\ watched' = TRUE /\ UNCHANGED main
           /\ buf' = Filled(buf, Append(m, 0)) /\ due' = due \o LinesOf(m)
  BY <1>1, <1>3, MessageStored DEF m
<1>4. QED BY <1>1, <1>2, <1>3

\* Every step preserves the invariant.
LEMMA NextInv == Inv /\ [Next]_vars => Inv'
<1> SUFFICES ASSUME Inv, [Next]_vars PROVE Inv'
  OBVIOUS
<1>1. CASE LogWrite \/ LogClose \/ ThreadEnds \/ UNCHANGED vars
  <2>1. TypeOK' /\ UNCHANGED <<buf, written, pipe, cache, lines, due>>
    BY <1>1 DEF LogWrite, LogClose, ThreadEnds, vars, Inv, TypeOK
  <2>2. QED BY <2>1, KeptStep
<1>2. CASE LogThread
  <2>1. /\ pipe # <<>> /\ pipe' = Tail(pipe)
        /\ UNCHANGED <<buf, watched, main, written, thread, sends, due>>
    BY <1>2 DEF LogThread
  <2>2. cache \in Seq(Bytes) /\ Head(pipe) \in Bytes /\ Len(cache) \in Nat /\ CacheMax \in Nat
        /\ Len(cache) < CacheMax
    BY <2>1, Numbers, NextByte DEF Inv, TypeOK
  <2>3. Len(Append(cache, Head(pipe))) = Len(cache) + 1
    BY <2>2, AppendProperties
  <2>4. CASE Head(pipe) = 0 \/ Len(cache) + 1 = CacheMax
    BY <1>2, <2>1, <2>3, <2>4, ThreadEndsLine DEF LogThread
  <2>5. CASE Head(pipe) # 0 /\ Len(cache) + 1 # CacheMax
    <3>1. cache' = Append(cache, Head(pipe)) /\ lines' = lines
      BY <1>2, <2>3, <2>5 DEF LogThread
    <3>2. Len(cache) + 1 < CacheMax
      BY <2>2, <2>5
    <3>3. QED BY <2>1, <2>5, <3>1, <3>2, ThreadReads
  <2>6. QED BY <2>4, <2>5
<1>3. QED
  BY <1>1, <1>2, WriteByteStep, WriteReturnsStep, LogSendStep DEF Next, Writing, Reading

-----------------------------------------------------------------------------
(* The results. *)

\* Every variable keeps its type: log_send never stores more than the buffer has
\* space for, write(2) more than the pipe holds, nor the thread more than its
\* cache.
THEOREM TypeCorrect == Spec => []TypeOK
<1>1. Inv => TypeOK
  BY DEF Inv
<1>2. QED BY <1>1, InitInv, NextInv, PTL DEF Spec

\* The lines that log_thread hands to syslog are those of the messages log_send
\* stored, in order and none of them joined, cut elsewhere, lost or repeated,
\* for every size of the buffer, the pipe and the cache.
THEOREM LoggedInOrder == Spec => []LinesInOrder
<1>1. Inv => LinesInOrder
  BY DEF Inv
<1>2. QED BY <1>1, InitInv, NextInv, PTL DEF Spec

=============================================================================
