-------------------------- MODULE ClientDataProofs --------------------------
(***************************************************************************)
(* What reading, parsing, copying and writing do to the units that are in  *)
(* flight, for every message, every cut of it and every size of a buffer:  *)
(* the lemmas ClientProofs needs of the operators of Client.               *)
(***************************************************************************)
EXTENDS Client, SelectorOpsProofs, SequenceTheorems

\* A part of a sequence.
LEMMA Piece ==
    ASSUME NEW S, NEW s \in Seq(S), NEW j \in Nat \ {0}, NEW k \in 0..Len(s)
    PROVE  LET p == SubSeq(s, j, k)
           IN  /\ p \in Seq(S) /\ Len(p) \in Nat /\ DOMAIN p = 1..Len(p)
               /\ Len(p) = IF j <= k THEN k - j + 1 ELSE 0
               /\ \A i \in DOMAIN p : i \in Int /\ j + i - 1 \in DOMAIN s /\ p[i] = s[j + i - 1]
<1> DEFINE p == SubSeq(s, j, k)
<1>1. Len(s) \in Nat /\ DOMAIN s = 1..Len(s) /\ k \in Int /\ j \in Int /\ k <= Len(s) /\ 1 <= j
  BY LenProperties
<1>2. \A i \in j..k : s[i] \in S
  BY <1>1, ElementOfSeq
<1>3. /\ p \in Seq(S) /\ Len(p) = (IF j <= k THEN k - j + 1 ELSE 0)
      /\ \A i \in 1 .. k - j + 1 : p[i] = s[j + i - 1]
  BY <1>1, <1>2, SubSeqProperties
<1>4. Len(p) \in Nat /\ DOMAIN p = 1..Len(p)
  BY <1>3, LenProperties
<1> DEFINE n == Len(p)
<1> HIDE DEF p, n
<1>5. n = (IF j <= k THEN k - j + 1 ELSE 0) /\ n \in Nat
  BY <1>3, <1>4 DEF n
<1>6. \A i \in 1..n : i \in 1 .. k - j + 1 /\ j + i - 1 \in 1..Len(s) /\ i \in Int
  BY <1>1, <1>5
<1>7. QED BY <1>1, <1>3, <1>4, <1>6 DEF p, n

\* The first k elements, and the others.
LEMMA Cut ==
    ASSUME NEW S, NEW s \in Seq(S), NEW k \in 0..Len(s)
    PROVE  LET p == SubSeq(s, 1, k)
               r == SubSeq(s, k + 1, Len(s))
           IN  /\ p \in Seq(S) /\ Len(p) = k /\ DOMAIN p = 1..k
               /\ \A i \in 1..k : i \in DOMAIN s /\ p[i] = s[i]
               /\ r \in Seq(S) /\ Len(r) = Len(s) - k /\ DOMAIN r = 1..(Len(s) - k)
               /\ \A i \in 1..(Len(s) - k) : k + i \in DOMAIN s /\ r[i] = s[k + i]
<1> DEFINE p == SubSeq(s, 1, k)  r == SubSeq(s, k + 1, Len(s))  m == Len(s)
<1>1. m \in Nat /\ k \in Nat /\ k <= m /\ k + 1 \in Nat \ {0} /\ m \in 0..m /\ k \in 0..m
  BY LenProperties
<1>2. /\ p \in Seq(S) /\ Len(p) \in Nat /\ DOMAIN p = 1..Len(p)
      /\ Len(p) = IF 1 <= k THEN k - 1 + 1 ELSE 0
      /\ \A i \in DOMAIN p : i \in Int /\ 1 + i - 1 \in DOMAIN s /\ p[i] = s[1 + i - 1]
  BY <1>1, Piece
<1>3. /\ r \in Seq(S) /\ Len(r) \in Nat /\ DOMAIN r = 1..Len(r)
      /\ Len(r) = IF k + 1 <= m THEN m - (k + 1) + 1 ELSE 0
      /\ \A i \in DOMAIN r : i \in Int /\ k + 1 + i - 1 \in DOMAIN s /\ r[i] = s[k + 1 + i - 1]
  BY <1>1, Piece
<1> HIDE DEF p, r, m
<1>4. Len(p) = k
  BY <1>1, <1>2
<1>5. Len(r) = m - k
  BY <1>1, <1>3
<1>6. \A i \in 1..k : 1 + i - 1 = i
  BY <1>1
<1>7. \A i \in 1..(m - k) : k + 1 + i - 1 = k + i
  BY <1>1
<1>8. \A i \in 1..k : i \in DOMAIN s /\ p[i] = s[i]
  BY <1>2, <1>4, <1>6
<1>9. \A i \in 1..(m - k) : k + i \in DOMAIN s /\ r[i] = s[k + i]
  BY <1>3, <1>5, <1>7
<1>10. QED BY <1>2, <1>3, <1>4, <1>5, <1>8, <1>9 DEF p, r, m

-----------------------------------------------------------------------------
(* Sequences of units that are in order. *)

\* The units of s that a peer sent.
Elems(s) == {s[i] : i \in DOMAIN s} \ {0}

Below(S, T) == \A x \in S, y \in T : x < y

\* A part of a sequence in order is in order.
LEMMA PieceOrdered ==
    ASSUME NEW n \in Nat, NEW s \in Seq(0..n), Ordered(s),
           NEW j \in Nat \ {0}, NEW k \in 0..Len(s)
    PROVE  /\ Ordered(SubSeq(s, j, k))
           /\ Elems(SubSeq(s, j, k)) \subseteq Elems(s)
<1> DEFINE p == SubSeq(s, j, k)
           S == 0..n
<1>0. s \in Seq(S)
  OBVIOUS
<1>1. \A i \in DOMAIN p : i \in Int /\ j + i - 1 \in DOMAIN s /\ p[i] = s[j + i - 1]
  <2> HIDE DEF S
  <2>1. QED BY ONLY <1>0, j \in Nat \ {0}, k \in 0..Len(s), Piece
<1> HIDE DEF p
<1>4. ASSUME NEW i \in DOMAIN p, NEW h \in DOMAIN p, i < h, p[i] # 0, p[h] # 0
      PROVE  p[i] < p[h]
  <2>1. j + i - 1 < j + h - 1
    BY <1>1, <1>4
  <2>2. QED BY <1>1, <1>4, <2>1 DEF Ordered
<1>5. Elems(p) \subseteq Elems(s)
  <2> SUFFICES ASSUME NEW i \in DOMAIN p PROVE \E h \in DOMAIN s : p[i] = s[h]
    BY DEF Elems
  <2>1. QED BY <1>1
<1>6. QED BY <1>4, <1>5 DEF p, Ordered

\* Cutting a sequence in order leaves all of its front below its rest.
LEMMA CutBelow ==
    ASSUME NEW n \in Nat, NEW s \in Seq(0..n), Ordered(s), NEW k \in 0..Len(s)
    PROVE  Below(Elems(SubSeq(s, 1, k)), Elems(SubSeq(s, k + 1, Len(s))))
<1> DEFINE p == SubSeq(s, 1, k)  r == SubSeq(s, k + 1, Len(s))
<1>1. /\ DOMAIN p = 1..k /\ \A i \in 1..k : i \in DOMAIN s /\ p[i] = s[i]
      /\ DOMAIN r = 1..(Len(s) - k)
      /\ \A i \in 1..(Len(s) - k) : k + i \in DOMAIN s /\ r[i] = s[k + i]
  BY Cut
<1>2. Len(s) \in Nat /\ k \in Int
  BY LenProperties
<1> HIDE DEF p, r
<1>4. ASSUME NEW x \in Elems(p), NEW y \in Elems(r) PROVE x < y
  <2>1. PICK i \in DOMAIN p : x = p[i] /\ x # 0
    BY DEF Elems
  <2>2. PICK j \in DOMAIN r : y = r[j] /\ y # 0
    BY DEF Elems
  <2>3. i \in 1..k /\ j \in 1..(Len(s) - k)
    BY <1>1
  <2>4. i < k + j
    BY <1>2, <2>3
  <2>5. i \in DOMAIN s /\ x = s[i] /\ k + j \in DOMAIN s /\ y = s[k + j]
    BY <1>1, <2>1, <2>2, <2>3
  <2>6. QED BY <2>1, <2>2, <2>4, <2>5 DEF Ordered
<1>5. QED BY <1>4 DEF Below, p, r

\* Joining two sequences adds nothing, and keeps them in order when the first is
\* below the second.
LEMMA Joined ==
    ASSUME NEW n \in Nat, NEW s \in Seq(0..n), NEW t \in Seq(0..n)
    PROVE  /\ s \o t \in Seq(0..n)
           /\ Elems(s \o t) \subseteq Elems(s) \cup Elems(t)
           /\ Ordered(s) /\ Ordered(t) /\ Below(Elems(s), Elems(t)) => Ordered(s \o t)
<1> DEFINE c == s \o t
<1>1. /\ c \in Seq(0..n) /\ Len(c) = Len(s) + Len(t)
      /\ \A i \in 1 .. Len(s) + Len(t) : c[i] = IF i <= Len(s) THEN s[i] ELSE t[i - Len(s)]
  BY ConcatProperties
<1>2. /\ Len(s) \in Nat /\ Len(t) \in Nat
      /\ DOMAIN s = 1..Len(s) /\ DOMAIN t = 1..Len(t) /\ DOMAIN c = 1..(Len(s) + Len(t))
  BY <1>1, LenProperties
<1> HIDE DEF c
<1>3. \A i \in DOMAIN c : \/ i \in DOMAIN s /\ c[i] = s[i]
                          \/ i > Len(s) /\ i - Len(s) \in DOMAIN t /\ c[i] = t[i - Len(s)]
  BY <1>1, <1>2
<1>4. Elems(c) \subseteq Elems(s) \cup Elems(t)
  BY <1>3 DEF Elems
<1>5. ASSUME Ordered(s), Ordered(t), Below(Elems(s), Elems(t)) PROVE Ordered(c)
  <2> SUFFICES ASSUME NEW i \in DOMAIN c, NEW j \in DOMAIN c, i < j, c[i] # 0, c[j] # 0
               PROVE  c[i] < c[j]
    BY DEF Ordered
  <2>1. i \in Int /\ j \in Int
    BY <1>2
  <2>2. CASE j \in DOMAIN s /\ c[j] = s[j]
    <3>1. i \in DOMAIN s /\ c[i] = s[i]
      BY <1>2, <1>3, <2>1, <2>2
    <3>2. QED BY <1>5, <2>2, <3>1 DEF Ordered
  <2>3. CASE j > Len(s) /\ j - Len(s) \in DOMAIN t /\ c[j] = t[j - Len(s)]
    <3>1. CASE i \in DOMAIN s /\ c[i] = s[i]
      <4>1. c[i] \in Elems(s) /\ c[j] \in Elems(t)
        BY <2>3, <3>1 DEF Elems
      <4>2. QED BY <1>5, <4>1 DEF Below
    <3>2. CASE i > Len(s) /\ i - Len(s) \in DOMAIN t /\ c[i] = t[i - Len(s)]
      <4>1. i - Len(s) < j - Len(s)
        BY <1>2, <2>1
      <4>2. QED BY <1>5, <2>3, <3>2, <4>1 DEF Ordered
    <3>3. QED BY <1>3, <3>1, <3>2
  <2>4. QED BY <1>3, <2>2, <2>3
<1>6. QED BY <1>1, <1>4, <1>5 DEF c

-----------------------------------------------------------------------------
(* The helpers of the parsers. *)

\* The first unit of one of the kinds, and the end only if there is none.
LEMMA FirstOfFound ==
    ASSUME NEW S, NEW s \in Seq(S), s # <<>>, NEW m, NEW kinds
    PROVE  /\ FirstOf(s, m, kinds) \in 1..Len(s)
           /\ m[s[FirstOf(s, m, kinds)]] \in kinds \/ FirstOf(s, m, kinds) = Len(s)
<1> DEFINE hits == {i \in 1..Len(s) : m[s[i]] \in kinds}
<1>1. Len(s) \in Nat \ {0}
  BY EmptySeq
<1>2. CASE hits = {}
  BY <1>1, <1>2 DEF FirstOf
<1>3. CASE hits # {}
  <2>1. hits \subseteq Nat
    BY <1>1
  <2>2. \E i \in hits : \A j \in hits : i <= j
    BY <1>3, <2>1, LeastNat
  <2>3. FirstOf(s, m, kinds) = CHOOSE i \in hits : \A j \in hits : i <= j
    BY <1>3 DEF FirstOf
  <2>4. FirstOf(s, m, kinds) \in hits
    BY <2>2, <2>3
  <2>5. QED BY <2>4
<1>4. QED BY <1>2, <1>3

\* The header that is added is no unit of a peer: the others stay in order.
LEMMA WithHeaderOrdered ==
    ASSUME NEW n \in Nat, NEW s \in Seq(0..n), Ordered(s), NEW m, NEW kinds
    PROVE  /\ WithHeader(s, m, kinds) \in Seq(0..n)
           /\ Ordered(WithHeader(s, m, kinds))
           /\ Elems(WithHeader(s, m, kinds)) \subseteq Elems(s)
<1> DEFINE at == {i \in 1..Len(s) : m[s[i]] \in kinds}
           i == CHOOSE i \in at : \A j \in at : i <= j
<1>1. CASE at = {}
  <2>1. WithHeader(s, m, kinds) = s
    BY <1>1 DEF WithHeader
  <2>2. QED BY <2>1
<1>2. CASE at # {}
  <2> DEFINE p == SubSeq(s, 1, i)  r == SubSeq(s, i + 1, Len(s))  h == <<0>>
  <2>1. at \subseteq Nat /\ Len(s) \in Nat
    BY LenProperties
  <2>2. \E k \in at : \A j \in at : k <= j
    BY <1>2, <2>1, LeastNat
  <2>3. i \in at
    BY <2>2
  <2>4. WithHeader(s, m, kinds) = p \o h \o r
    BY <1>2 DEF WithHeader
  <2>5. i \in 0..Len(s) /\ i + 1 \in Nat \ {0} /\ 1 \in Nat \ {0} /\ Len(s) \in 0..Len(s)
    BY <2>1, <2>3
  <2> HIDE DEF i, at
  <2>6. /\ p \in Seq(0..n) /\ Ordered(p) /\ Elems(p) \subseteq Elems(s)
        /\ r \in Seq(0..n) /\ Ordered(r) /\ Elems(r) \subseteq Elems(s)
        /\ Below(Elems(p), Elems(r))
    BY <2>5, Cut, PieceOrdered, CutBelow
  <2>7. h \in Seq(0..n) /\ Elems(h) = {} /\ Ordered(h)
    BY DEF Elems, Ordered
  <2> HIDE DEF p, r, h
  <2>8. /\ p \o h \in Seq(0..n) /\ Ordered(p \o h) /\ Elems(p \o h) \subseteq Elems(p)
    <3>1. Below(Elems(p), Elems(h))
      BY <2>7 DEF Below
    <3>2. QED BY <2>6, <2>7, <3>1, Joined
  <2>9. Below(Elems(p \o h), Elems(r))
    BY <2>6, <2>8 DEF Below
  <2>10. /\ (p \o h) \o r \in Seq(0..n) /\ Ordered((p \o h) \o r)
         /\ Elems((p \o h) \o r) \subseteq Elems(p \o h) \cup Elems(r)
    BY <2>6, <2>8, <2>9, Joined
  <2>11. QED BY <2>4, <2>6, <2>8, <2>10
<1>3. QED BY <1>1, <1>2

-----------------------------------------------------------------------------
(* The queues. *)

\* How much fits.
LEMMA ShorterBound ==
    ASSUME NEW m \in Nat, NEW k \in Nat
    PROVE  Shorter(m, k) \in 0..k /\ Shorter(m, k) <= m
BY DEF Shorter

\* buffer_write_adv after a read(2) that fits.
LEMMA FilledType ==
    ASSUME NEW m, Len(m) \in Nat, cap \in Nat, NEW b, QueueType(b, m),
           NEW s \in Seq(Units(m)), Len(s) <= b.room
    PROVE  QueueType(Filled(b, s), m) /\ Filled(b, s).q = b.q \o s
<1>1. b.q \o s \in Seq(Units(m))
  BY ConcatProperties DEF QueueType
<1>2. Len(s) \in Nat /\ b.room \in Nat /\ b.room <= cap
  BY LenProperties DEF QueueType
<1>3. b.room - Len(s) \in 0..cap
  BY <1>2
<1>4. QED BY <1>1, <1>3 DEF Filled, QueueType

\* buffer_read_adv.
LEMMA AdvancedType ==
    ASSUME NEW m, Len(m) \in Nat, cap \in Nat, NEW b, QueueType(b, m), NEW k \in 0..Len(b.q)
    PROVE  /\ QueueType(Advanced(b, k, cap), m)
           /\ Advanced(b, k, cap).q = SubSeq(b.q, k + 1, Len(b.q))
           /\ k = Len(b.q) => Advanced(b, k, cap).q = <<>> /\ Advanced(b, k, cap).room = cap
<1> DEFINE r == SubSeq(b.q, k + 1, Len(b.q))
<1>1. r \in Seq(Units(m)) /\ Len(r) = Len(b.q) - k
  BY Cut DEF QueueType
<1>2. Advanced(b, k, cap) = [q |-> r, room |-> IF r = <<>> THEN cap ELSE b.room]
  BY DEF Advanced
<1>3. ASSUME k = Len(b.q) PROVE r = <<>>
  <2>1. Len(r) = 0
    BY <1>1, <1>3, LenProperties DEF QueueType
  <2>2. QED BY <1>1, <2>1, EmptySeq
<1> HIDE DEF r
<1>4. QED BY <1>1, <1>2, <1>3 DEF QueueType, r

\* read(2) takes what fits and leaves the rest in the socket.
LEMMA ReadTypes ==
    ASSUME NEW S, NEW net \in Seq(S), NEW room \in Nat
    PROVE  LET k == Shorter(room, Len(net))
           IN  /\ k \in 0..Len(net)
               /\ ReadUnits(net, room) = SubSeq(net, 1, k) /\ Unread(net, room) = SubSeq(net, k + 1, Len(net))
               /\ ReadUnits(net, room) \in Seq(S) /\ Unread(net, room) \in Seq(S)
               /\ Len(ReadUnits(net, room)) = k /\ k <= room
<1> DEFINE k == Shorter(room, Len(net))
<1>1. Len(net) \in Nat
  BY LenProperties
<1>2. k \in 0..Len(net) /\ k <= room
  BY <1>1, ShorterBound
<1> HIDE DEF k
<1>3. SubSeq(net, 1, k) \in Seq(S) /\ Len(SubSeq(net, 1, k)) = k /\ SubSeq(net, k + 1, Len(net)) \in Seq(S)
  BY <1>2, Cut
<1>4. QED BY <1>2, <1>3 DEF ReadUnits, Unread, k

-----------------------------------------------------------------------------
(* From one buffer to the next. *)

\* Two queues one after the other: all of `post' was sent before any of `pre'.
Pair(post, pre) == Ordered(post.q) /\ Ordered(pre.q) /\ Below(Elems(post.q), Elems(pre.q))

\* Units went from pre to post, or were dropped; none was added and they are
\* still in order.
Moved(pre, post, pre2, post2, m) ==
    /\ QueueType(pre2, m) /\ QueueType(post2, m)
    /\ Pair(post2, pre2)
    /\ Elems(pre2.q) \subseteq Elems(pre.q)
    /\ Elems(post2.q) \subseteq Elems(post.q) \cup Elems(pre.q)

\* Consuming the first k units of pre and writing to post some of them, as many as
\* fit.
LEMMA Move ==
    ASSUME NEW m, Len(m) \in Nat, cap \in Nat,
           NEW pre, QueueType(pre, m), NEW post, QueueType(post, m), Pair(post, pre),
           NEW k \in 0..Len(pre.q),
           NEW w \in Seq(Units(m)), Ordered(w), Elems(w) \subseteq Elems(SubSeq(pre.q, 1, k))
    PROVE  Moved(pre, post, Advanced(pre, k, cap), WrittenAll(post, w), m)
<1> DEFINE p == SubSeq(pre.q, 1, k)
           r == SubSeq(pre.q, k + 1, Len(pre.q))
           j == Shorter(post.room, Len(w))
           v == SubSeq(w, 1, j)
           n == Len(m)
<1>1. /\ pre.q \in Seq(0..n) /\ post.q \in Seq(0..n) /\ w \in Seq(0..n) /\ Units(m) = 0..n
      /\ post.room \in Nat /\ Len(pre.q) \in Nat /\ Len(w) \in Nat
  BY LenProperties DEF QueueType, Units
<1>2. j \in 0..Len(w) /\ j <= post.room
  BY <1>1, ShorterBound
<1>3. 1 \in Nat \ {0} /\ k + 1 \in Nat \ {0} /\ Len(pre.q) \in 0..Len(pre.q)
  BY <1>1
<1> HIDE DEF j, n
<1>4. v \in Seq(0..n) /\ Len(v) = j /\ Ordered(v) /\ Elems(v) \subseteq Elems(w)
  BY <1>1, <1>2, <1>3, Cut, PieceOrdered DEF n
<1>5. /\ Ordered(r) /\ Elems(r) \subseteq Elems(pre.q) /\ Elems(p) \subseteq Elems(pre.q)
      /\ Below(Elems(p), Elems(r))
  BY <1>1, <1>3, PieceOrdered, CutBelow DEF Pair, n
<1>6. QueueType(Advanced(pre, k, cap), m) /\ Advanced(pre, k, cap).q = r
  BY AdvancedType
<1> HIDE DEF p, r, v
<1>7. QueueType(WrittenAll(post, w), m) /\ WrittenAll(post, w).q = post.q \o v
  BY <1>1, <1>2, <1>4, FilledType DEF WrittenAll, v, j
<1>8. Below(Elems(post.q), Elems(v)) /\ Below(Elems(v), Elems(r)) /\ Below(Elems(post.q), Elems(r))
  BY <1>4, <1>5 DEF Below, Pair, p
<1>9. Ordered(post.q \o v) /\ Elems(post.q \o v) \subseteq Elems(post.q) \cup Elems(v)
  BY <1>1, <1>4, <1>8, Joined DEF Pair, n
<1>10. Below(Elems(post.q \o v), Elems(r))
  BY <1>8, <1>9 DEF Below
<1>11. Elems(v) \subseteq Elems(pre.q)
  BY <1>4, <1>5 DEF p
<1>12. QED BY <1>5, <1>6, <1>7, <1>9, <1>10, <1>11 DEF Moved, Pair

\* Two moves are a move.
LEMMA MovedTwice ==
    ASSUME NEW m, NEW a, NEW b, NEW a1, NEW b1, NEW a2, NEW b2,
           Moved(a, b, a1, b1, m), Moved(a1, b1, a2, b2, m)
    PROVE  Moved(a, b, a2, b2, m)
BY DEF Moved

\* Doing nothing is a move.
LEMMA NotMoved ==
    ASSUME NEW m, NEW a, NEW b, QueueType(a, m), QueueType(b, m), Pair(b, a)
    PROVE  Moved(a, b, a, b, m)
BY DEF Moved

\* checkRequest moves units; it fails only while it looks for the host, and does
\* not look for it again.
LEMMA CheckRequestMoves ==
    ASSUME Len(request) \in Nat, cap \in Nat, NEW ps \in {"SEARCH", "FINISHED"},
           NEW pre, QueueType(pre, request), NEW post, QueueType(post, request), Pair(post, pre)
    PROVE  LET r == CheckRequest(ps, pre, post)
           IN  /\ Moved(pre, post, r.pre, r.post, request)
               /\ r.ps \in {"SEARCH", "FINISHED"} /\ r.ok \in BOOLEAN
               /\ ps = "FINISHED" => r.ps = "FINISHED" /\ r.ok
               /\ ~r.ok => r.ps = "SEARCH"
<1> DEFINE r == CheckRequest(ps, pre, post)
<1>1. CASE ps = "FINISHED" \/ pre.q = <<>>
  <2>1. r = [ps |-> ps, ok |-> TRUE, pre |-> pre, post |-> post]
    BY <1>1 DEF CheckRequest
  <2> HIDE DEF r
  <2>2. r.ps = ps /\ r.ok = TRUE /\ r.pre = pre /\ r.post = post
    BY <2>1
  <2>3. Moved(pre, post, r.pre, r.post, request)
    BY <2>2, NotMoved
  <2>4. QED BY <2>2, <2>3 DEF r
<1>2. CASE ~(ps = "FINISHED" \/ pre.q = <<>>)
  <2> DEFINE k    == FirstOf(pre.q, request, {"host", "bad"})
             last == request[pre.q[k]]
             used == SubSeq(pre.q, 1, k)
             w    == WithHeader(used, request, {"line"})
  <2>1. r = [ps   |-> IF last = "host" THEN "FINISHED" ELSE "SEARCH",
             ok   |-> last # "bad",
             pre  |-> Advanced(pre, k, cap),
             post |-> WrittenAll(post, w)]
    BY <1>2 DEF CheckRequest
  <2>2. pre.q \in Seq(0..Len(request)) /\ Len(pre.q) \in Nat /\ Units(request) = 0..Len(request)
    BY LenProperties DEF QueueType, Units
  <2>3. k \in 1..Len(pre.q)
    BY <1>2, <2>2, FirstOfFound
  <2>4. k \in 0..Len(pre.q) /\ 1 \in Nat \ {0}
    BY <2>2, <2>3
  <2> HIDE DEF k, last
  <2>5. used \in Seq(0..Len(request)) /\ Ordered(used)
    BY <2>2, <2>4, Cut, PieceOrdered DEF Pair
  <2>6. w \in Seq(0..Len(request)) /\ Ordered(w) /\ Elems(w) \subseteq Elems(used)
    BY <2>5, WithHeaderOrdered
  <2> HIDE DEF w
  <2>7. Moved(pre, post, Advanced(pre, k, cap), WrittenAll(post, w), request)
    BY <2>2, <2>4, <2>6, Move
  <2> HIDE DEF r
  <2>8. /\ r.ps = (IF last = "host" THEN "FINISHED" ELSE "SEARCH") /\ r.ok = (last # "bad")
        /\ r.pre = Advanced(pre, k, cap) /\ r.post = WrittenAll(post, w)
    BY <2>1
  <2>9. QED BY <1>2, <2>7, <2>8 DEF r
<1>3. QED BY <1>1, <1>2

\* The loop around readAndWrite moves units.
LEMMA DrainedMoves ==
    ASSUME Len(request) \in Nat, cap \in Nat,
           NEW pre, QueueType(pre, request), NEW post, QueueType(post, request), Pair(post, pre)
    PROVE  Moved(pre, post, Drained(pre, post).pre, Drained(pre, post).post, request)
<1> DEFINE r == Drained(pre, post)
<1>1. CASE pre.q = <<>>
  <2>1. r = [pre |-> pre, post |-> post]
    BY <1>1 DEF Drained
  <2> HIDE DEF r
  <2>2. r.pre = pre /\ r.post = post
    BY <2>1
  <2>3. QED BY <2>2, NotMoved DEF r
<1>2. CASE pre.q # <<>>
  <2> DEFINE k    == FirstOf(pre.q, request, {"nul"})
             kept == IF request[pre.q[k]] = "nul" THEN k - 1 ELSE k
             used == SubSeq(pre.q, 1, k)
             w    == SubSeq(pre.q, 1, kept)
  <2>1. r = [pre |-> Advanced(pre, k, cap), post |-> WrittenAll(post, w)]
    BY <1>2 DEF Drained
  <2>2. pre.q \in Seq(0..Len(request)) /\ Len(pre.q) \in Nat /\ Units(request) = 0..Len(request)
    BY LenProperties DEF QueueType, Units
  <2>3. k \in 1..Len(pre.q)
    BY <1>2, <2>2, FirstOfFound
  <2> HIDE DEF k
  <2>4. k \in 0..Len(pre.q) /\ 1 \in Nat \ {0} /\ kept \in 0..Len(pre.q) /\ kept <= k
    BY <2>2, <2>3
  <2> HIDE DEF kept
  <2>5. w \in Seq(0..Len(request)) /\ Ordered(w)
    BY <2>2, <2>4, Cut, PieceOrdered DEF Pair
  <2>6. Elems(w) \subseteq Elems(used)
    <3>1. DOMAIN w = 1..kept /\ \A i \in 1..kept : w[i] = pre.q[i]
      BY <2>2, <2>4, Cut
    <3>2. DOMAIN used = 1..k /\ \A i \in 1..k : used[i] = pre.q[i]
      BY <2>2, <2>4, Cut
    <3>3. \A i \in 1..kept : i \in 1..k
      BY <2>2, <2>4
    <3> HIDE DEF w, used
    <3>4. QED BY <3>1, <3>2, <3>3 DEF Elems
  <2> HIDE DEF w
  <2>7. Moved(pre, post, Advanced(pre, k, cap), WrittenAll(post, w), request)
    BY <2>2, <2>4, <2>5, <2>6, Move
  <2> HIDE DEF r
  <2>8. r.pre = Advanced(pre, k, cap) /\ r.post = WrittenAll(post, w)
    BY <2>1
  <2>9. QED BY <2>7, <2>8 DEF r
<1>3. QED BY <1>1, <1>2

\* checkResponse moves units; a response that is neither finished nor rejected has
\* been consumed to the last unit, which gives its buffer all of its space back.
LEMMA CheckResponseMoves ==
    ASSUME Len(response) \in Nat, cap \in Nat,
           NEW pre, QueueType(pre, response), NEW post, QueueType(post, response), Pair(post, pre),
           pre.q # <<>>
    PROVE  LET r == CheckResponse(pre, post)
           IN  /\ Moved(pre, post, r.pre, r.post, response)
               /\ r.rs \in {"PARSING", "FINISHED"}
               /\ r.ok /\ r.rs # "FINISHED" => r.pre.room = cap
<1> DEFINE r    == CheckResponse(pre, post)
           k    == FirstOf(pre.q, response, {"last", "bare", "bad"})
           last == response[pre.q[k]]
           used == SubSeq(pre.q, 1, k)
           w    == WithHeader(used, response, {"head", "bare"})
<1>1. r = [rs   |-> IF last \in {"last", "bare"} THEN "FINISHED" ELSE "PARSING",
           ok   |-> last # "bad",
           pre  |-> Advanced(pre, k, cap),
           post |-> WrittenAll(post, w)]
  BY DEF CheckResponse
<1>2. pre.q \in Seq(0..Len(response)) /\ Len(pre.q) \in Nat /\ Units(response) = 0..Len(response)
  BY LenProperties DEF QueueType, Units
<1>3. k \in 1..Len(pre.q) /\ (last \in {"last", "bare", "bad"} \/ k = Len(pre.q))
  BY <1>2, FirstOfFound
<1>4. k \in 0..Len(pre.q) /\ 1 \in Nat \ {0}
  BY <1>2, <1>3
<1> HIDE DEF k, last
<1>5. used \in Seq(0..Len(response)) /\ Ordered(used)
  BY <1>2, <1>4, Cut, PieceOrdered DEF Pair
<1>6. w \in Seq(0..Len(response)) /\ Ordered(w) /\ Elems(w) \subseteq Elems(used)
  BY <1>5, WithHeaderOrdered
<1> HIDE DEF w
<1>7. Moved(pre, post, Advanced(pre, k, cap), WrittenAll(post, w), response)
  BY <1>2, <1>4, <1>6, Move
<1>8. k = Len(pre.q) => Advanced(pre, k, cap).room = cap
  BY <1>4, AdvancedType
<1> HIDE DEF r
<1>9. /\ r.rs = (IF last \in {"last", "bare"} THEN "FINISHED" ELSE "PARSING") /\ r.ok = (last # "bad")
      /\ r.pre = Advanced(pre, k, cap) /\ r.post = WrittenAll(post, w)
  BY <1>1
<1>10. QED BY <1>3, <1>7, <1>8, <1>9 DEF r

-----------------------------------------------------------------------------
(* The four stages of a message: what its receiver got, the two buffers and *)
(* the socket it arrives at, and how much of it was sent.                   *)

Flow(a, b, c, d, n) ==
    /\ Ordered(a) /\ Ordered(b) /\ Ordered(c) /\ Ordered(d)
    /\ Below(Elems(a), Elems(b) \cup Elems(c) \cup Elems(d))
    /\ Below(Elems(b), Elems(c) \cup Elems(d))
    /\ Below(Elems(c), Elems(d))
    /\ Elems(a) \cup Elems(b) \cup Elems(c) \cup Elems(d) \subseteq 1..n

\* The stages one after the other are in order.
LEMMA FlowInOrder ==
    ASSUME NEW L \in Nat, NEW a \in Seq(0..L), NEW b \in Seq(0..L),
           NEW c \in Seq(0..L), NEW d \in Seq(0..L), NEW n, Flow(a, b, c, d, n)
    PROVE  Ordered(a \o b \o c \o d)
<1>1. a \o b \in Seq(0..L) /\ Elems(a \o b) \subseteq Elems(a) \cup Elems(b) /\ Ordered(a \o b)
  <2>1. Below(Elems(a), Elems(b))
    BY DEF Flow, Below
  <2>2. QED BY <2>1, Joined DEF Flow
<1>2. /\ (a \o b) \o c \in Seq(0..L) /\ Ordered((a \o b) \o c)
      /\ Elems((a \o b) \o c) \subseteq Elems(a) \cup Elems(b) \cup Elems(c)
  <2>1. Below(Elems(a \o b), Elems(c))
    BY <1>1 DEF Flow, Below
  <2>2. QED BY <1>1, <2>1, Joined DEF Flow
<1>3. Below(Elems((a \o b) \o c), Elems(d))
  BY <1>2 DEF Flow, Below
<1>4. QED BY <1>2, <1>3, Joined DEF Flow

\* Nothing sent, nothing received.
LEMMA FlowEmpty == Flow(<<>>, <<>>, <<>>, <<>>, 0)
<1>1. Elems(<<>>) = {} /\ Ordered(<<>>)
  BY DEF Elems, Ordered
<1>2. QED BY <1>1 DEF Flow, Below

\* read(2): the front of the socket's units goes behind those of the buffer.
LEMMA FlowRead ==
    ASSUME NEW L \in Nat, NEW a, NEW b, NEW c \in Seq(0..L), NEW d \in Seq(0..L), NEW n,
           Flow(a, b, c, d, n), NEW k \in 0..Len(d)
    PROVE  Flow(a, b, c \o SubSeq(d, 1, k), SubSeq(d, k + 1, Len(d)), n)
<1> DEFINE p == SubSeq(d, 1, k)  r == SubSeq(d, k + 1, Len(d))
<1>1. k + 1 \in Nat \ {0} /\ 1 \in Nat \ {0} /\ Len(d) \in 0..Len(d)
  BY LenProperties
<1>2. /\ p \in Seq(0..L) /\ Ordered(p) /\ Ordered(r)
      /\ Elems(p) \subseteq Elems(d) /\ Elems(r) \subseteq Elems(d) /\ Below(Elems(p), Elems(r))
  BY <1>1, Cut, PieceOrdered, CutBelow DEF Flow
<1> HIDE DEF p, r
<1>3. Below(Elems(c), Elems(p)) /\ Below(Elems(c), Elems(r))
  BY <1>2 DEF Flow, Below
<1>4. Ordered(c \o p) /\ Elems(c \o p) \subseteq Elems(c) \cup Elems(p)
  BY <1>2, <1>3, Joined DEF Flow
<1>5. Elems(c \o p) \subseteq Elems(c) \cup Elems(d)
  BY <1>2, <1>4
<1>6. Below(Elems(c \o p), Elems(r))
  BY <1>2, <1>3, <1>4 DEF Below
<1>7. /\ Below(Elems(a), Elems(b) \cup Elems(c \o p) \cup Elems(r))
      /\ Below(Elems(b), Elems(c \o p) \cup Elems(r))
  BY <1>2, <1>5 DEF Flow, Below
<1>8. Elems(a) \cup Elems(b) \cup Elems(c \o p) \cup Elems(r) \subseteq 1..n
  BY <1>2, <1>5 DEF Flow
<1>9. QED BY <1>2, <1>4, <1>6, <1>7, <1>8 DEF Flow, p, r

\* Parsing and copying: from one buffer to the next.
LEMMA FlowMove ==
    ASSUME NEW m, NEW a, NEW d, NEW n, NEW pre, NEW post, NEW pre2, NEW post2,
           Flow(a, post.q, pre.q, d, n), Moved(pre, post, pre2, post2, m)
    PROVE  Flow(a, post2.q, pre2.q, d, n)
<1>1. /\ Ordered(post2.q) /\ Ordered(pre2.q) /\ Below(Elems(post2.q), Elems(pre2.q))
      /\ Elems(pre2.q) \subseteq Elems(pre.q)
      /\ Elems(post2.q) \subseteq Elems(post.q) \cup Elems(pre.q)
  BY DEF Moved, Pair
<1>2. /\ Below(Elems(a), Elems(post2.q) \cup Elems(pre2.q) \cup Elems(d))
      /\ Below(Elems(post2.q), Elems(pre2.q) \cup Elems(d))
      /\ Below(Elems(pre2.q), Elems(d))
  BY <1>1 DEF Flow, Below
<1>3. Elems(a) \cup Elems(post2.q) \cup Elems(pre2.q) \cup Elems(d) \subseteq 1..n
  BY <1>1 DEF Flow
<1>4. QED BY <1>1, <1>2, <1>3 DEF Flow

\* The two buffers of a flow are a pair.
LEMMA FlowPair ==
    ASSUME NEW a, NEW d, NEW n, NEW pre, NEW post, Flow(a, post.q, pre.q, d, n)
    PROVE  Pair(post, pre)
BY DEF Flow, Pair, Below

\* write(2): the front of the buffer goes to the receiver, or is lost.
LEMMA FlowWrite ==
    ASSUME NEW L \in Nat, NEW a \in Seq(0..L), NEW b \in Seq(0..L), NEW c, NEW d, NEW n,
           Flow(a, b, c, d, n), NEW k \in 0..Len(b)
    PROVE  /\ Flow(a \o SubSeq(b, 1, k), SubSeq(b, k + 1, Len(b)), c, d, n)
           /\ Flow(a, SubSeq(b, k + 1, Len(b)), c, d, n)
<1> DEFINE p == SubSeq(b, 1, k)  r == SubSeq(b, k + 1, Len(b))
<1>1. k + 1 \in Nat \ {0} /\ 1 \in Nat \ {0} /\ Len(b) \in 0..Len(b)
  BY LenProperties
<1>2. /\ p \in Seq(0..L) /\ Ordered(p) /\ Ordered(r)
      /\ Elems(p) \subseteq Elems(b) /\ Elems(r) \subseteq Elems(b) /\ Below(Elems(p), Elems(r))
  BY <1>1, Cut, PieceOrdered, CutBelow DEF Flow
<1> HIDE DEF p, r
<1>3. Below(Elems(a), Elems(p))
  BY <1>2 DEF Flow, Below
<1>4. Ordered(a \o p) /\ Elems(a \o p) \subseteq Elems(a) \cup Elems(p)
  BY <1>2, <1>3, Joined DEF Flow
<1>5. /\ Below(Elems(a \o p), Elems(r) \cup Elems(c) \cup Elems(d))
      /\ Below(Elems(a), Elems(r) \cup Elems(c) \cup Elems(d))
      /\ Below(Elems(r), Elems(c) \cup Elems(d))
  BY <1>2, <1>4 DEF Flow, Below
<1>6. Elems(a \o p) \cup Elems(r) \cup Elems(c) \cup Elems(d) \subseteq 1..n
  BY <1>2, <1>4 DEF Flow
<1>7. QED BY <1>2, <1>4, <1>5, <1>6 DEF Flow, p, r

\* A reset drops what the socket had received.
LEMMA FlowReset ==
    ASSUME NEW a, NEW b, NEW c, NEW d, NEW n, Flow(a, b, c, d, n)
    PROVE  Flow(a, b, c, <<>>, n)
<1>1. Elems(<<>>) = {} /\ Ordered(<<>>)
  BY DEF Elems, Ordered
<1>2. QED BY <1>1 DEF Flow, Below

\* The units from n + 1 to n2.
LEMMA Interval ==
    ASSUME NEW L \in Nat, NEW n \in Nat, NEW n2 \in n..L
    PROVE  LET e == [i \in 1..(n2 - n) |-> n + i]
           IN  e \in Seq(0..L) /\ Len(e) = n2 - n /\ \A i \in 1..Len(e) : e[i] = n + i
<1> DEFINE e == [i \in 1..(n2 - n) |-> n + i]
<1>1. n2 \in Int /\ n <= n2 /\ n2 <= L /\ n2 - n \in Nat
  OBVIOUS
<1>2. ASSUME NEW i \in 1..(n2 - n) PROVE n + i \in 0..L
  BY <1>1
<1>3. e \in [1..(n2 - n) -> 0..L]
  BY <1>2
<1>4. \A i \in 1..(n2 - n) : e[i] = n + i
  OBVIOUS
<1> HIDE DEF e
<1>5. e \in Seq(0..L) /\ Len(e) = n2 - n
  BY <1>1, <1>3
<1>6. QED BY <1>4, <1>5 DEF e

\* The sender sends the units from n + 1 to n2.
LEMMA FlowSend ==
    ASSUME NEW L \in Nat, NEW a, NEW b, NEW c, NEW d \in Seq(0..L), NEW n \in Nat,
           Flow(a, b, c, d, n), NEW n2 \in n..L, NEW e \in Seq(0..L),
           Len(e) = n2 - n, \A i \in 1..Len(e) : e[i] = n + i
    PROVE  Flow(a, b, c, d \o e, n2)
<1>1. DOMAIN e = 1..Len(e) /\ n2 \in Nat /\ n <= n2 /\ Len(e) = n2 - n
  BY LenProperties
<1>2. Ordered(e)
  BY <1>1 DEF Ordered
<1>3. \A x \in Elems(e) : x \in (n + 1)..n2
  BY <1>1 DEF Elems
<1>4. ASSUME NEW S, S \subseteq 1..n PROVE Below(S, Elems(e)) /\ S \subseteq 1..n2
  BY <1>1, <1>3, <1>4 DEF Below
<1>5. Elems(e) \subseteq 1..n2
  BY <1>1, <1>3
<1>6. /\ Below(Elems(a), Elems(e)) /\ Below(Elems(b), Elems(e))
      /\ Below(Elems(c), Elems(e)) /\ Below(Elems(d), Elems(e))
      /\ Elems(a) \cup Elems(b) \cup Elems(c) \cup Elems(d) \subseteq 1..n2
  BY <1>4 DEF Flow
<1>7. Ordered(d \o e) /\ Elems(d \o e) \subseteq Elems(d) \cup Elems(e)
  BY <1>2, <1>6, Joined DEF Flow
<1>8. /\ Below(Elems(a), Elems(b) \cup Elems(c) \cup Elems(d \o e))
      /\ Below(Elems(b), Elems(c) \cup Elems(d \o e))
      /\ Below(Elems(c), Elems(d \o e))
  BY <1>6, <1>7 DEF Flow, Below
<1>9. Elems(a) \cup Elems(b) \cup Elems(c) \cup Elems(d \o e) \subseteq 1..n2
  BY <1>5, <1>6, <1>7
<1>10. QED BY <1>7, <1>8, <1>9 DEF Flow

-----------------------------------------------------------------------------
(* Whole messages: what passes on of a message that nothing is dropped of.  *)

\* The units after a, up to b.
Span(a, b) == [i \in 1..(b - a) |-> a + i]

\* The header the proxy adds to a message, and the first n units of the message
\* with it.
Added(m, kinds) == IF m[1] \in kinds THEN <<0>> ELSE <<>>
Passed(m, kinds, n) == IF n = 0 THEN <<>> ELSE <<1>> \o Added(m, kinds) \o Span(1, n)

\* A span is a sequence of units.
LEMMA SpanSeq ==
    ASSUME NEW L \in Nat, NEW b \in 0..L, NEW a \in 0..b
    PROVE  /\ Span(a, b) \in Seq(0..L) /\ Len(Span(a, b)) = b - a
           /\ \A i \in 1..(b - a) : Span(a, b)[i] = a + i
<1>1. a \in Nat /\ b \in a..L
  OBVIOUS
<1>2. QED BY <1>1, Interval DEF Span

\* The first unit.
LEMMA SpanOne == Span(0, 1) = <<1>>
<1> DEFINE s == Span(0, 1)
<1>1. 1 \in Nat /\ 1 \in 0..1 /\ 0 \in 0..1 /\ 1 - 0 = 1 /\ 0 + 1 = 1
  OBVIOUS
<1>2. s \in Seq(0..1) /\ Len(s) = 1 - 0 /\ \A i \in 1..(1 - 0) : s[i] = 0 + i
  BY <1>1, SpanSeq
<1> HIDE DEF s
<1>3. s \in Seq(0..1) /\ Len(s) = 1 /\ s[1] = 1
  BY <1>2
<1>4. <<1>> \in Seq(0..1) /\ Len(<<1>>) = 1 /\ <<1>>[1] = 1
  OBVIOUS
<1>5. \A i \in 1..Len(s) : s[i] = <<1>>[i]
  BY <1>3, <1>4
<1>6. s = <<1>>
  BY <1>3, <1>4, <1>5, SeqEqual
<1>7. QED BY <1>6 DEF s

\* Two spans that follow each other are one.
LEMMA SpanJoin ==
    ASSUME NEW L \in Nat, NEW c \in 0..L, NEW b \in 0..c, NEW a \in 0..b
    PROVE  Span(a, b) \o Span(b, c) = Span(a, c)
<1> DEFINE s == Span(a, b)  t == Span(b, c)  u == Span(a, c)  S == 0..L
<1>0. b \in 0..L /\ a \in 0..c /\ L \in Nat
  OBVIOUS
<1>1. /\ s \in Seq(S) /\ Len(s) = b - a /\ \A i \in 1..(b - a) : s[i] = a + i
      /\ t \in Seq(S) /\ Len(t) = c - b /\ \A i \in 1..(c - b) : t[i] = b + i
      /\ u \in Seq(S) /\ Len(u) = c - a /\ \A i \in 1..(c - a) : u[i] = a + i
  BY <1>0, SpanSeq
<1> HIDE DEF s, t, u, S
<1>2. /\ s \o t \in Seq(S) /\ Len(s \o t) = Len(s) + Len(t)
      /\ \A i \in 1 .. Len(s) + Len(t) : (s \o t)[i] = IF i <= Len(s) THEN s[i] ELSE t[i - Len(s)]
  BY <1>1, ConcatProperties
<1> DEFINE v == s \o t
<1> HIDE DEF v
<1>3. v \in Seq(S) /\ Len(v) = c - a
  BY <1>1, <1>2 DEF v
<1>4. \A i \in 1 .. (c - a) : v[i] = IF i <= b - a THEN s[i] ELSE t[i - (b - a)]
  BY <1>1, <1>2 DEF v
<1>5. ASSUME NEW i \in 1 .. (c - a) PROVE v[i] = u[i]
  <2>1. CASE i <= b - a
    <3>1. v[i] = s[i] /\ i \in 1..(b - a)
      BY <1>4, <2>1
    <3>2. QED BY <1>1, <3>1
  <2>2. CASE ~(i <= b - a)
    <3>1. v[i] = t[i - (b - a)] /\ i - (b - a) \in 1..(c - b)
      BY <1>4, <2>2
    <3>2. v[i] = b + (i - (b - a))
      BY <1>1, <3>1
    <3>3. QED BY <1>1, <3>2
  <2>3. QED BY <2>1, <2>2
<1>6. v = u
  <2>1. Len(v) = Len(u) /\ \A i \in 1..Len(v) : v[i] = u[i]
    BY <1>1, <1>3, <1>5
  <2>2. QED BY <1>1, <1>3, <2>1, SeqEqual
<1>7. QED BY <1>6 DEF v, s, t, u

\* The front of a span, and the rest.
LEMMA SpanCut ==
    ASSUME NEW L \in Nat, NEW b \in 0..L, NEW a \in 0..b, NEW k \in 0..(b - a)
    PROVE  /\ SubSeq(Span(a, b), 1, k) = Span(a, a + k)
           /\ SubSeq(Span(a, b), k + 1, Len(Span(a, b))) = Span(a + k, b)
<1> DEFINE s == Span(a, b)  S == 0..L  p == SubSeq(s, 1, k)  r == SubSeq(s, k + 1, Len(s))
           t == Span(a, a + k)  u == Span(a + k, b)
<1>0. a + k \in 0..b /\ a \in 0..(a + k) /\ a + k \in 0..L
  OBVIOUS
<1>1. /\ s \in Seq(S) /\ Len(s) = b - a /\ \A i \in 1..(b - a) : s[i] = a + i
      /\ t \in Seq(S) /\ Len(t) = k /\ \A i \in 1..k : t[i] = a + i
      /\ u \in Seq(S) /\ Len(u) = b - (a + k) /\ \A i \in 1..(b - (a + k)) : u[i] = (a + k) + i
  <2>1. (a + k) - a = k
    OBVIOUS
  <2>2. QED BY <1>0, <2>1, SpanSeq
<1> HIDE DEF s, S, t, u
<1>2. k \in 0..Len(s)
  BY <1>1
<1>3. /\ p \in Seq(S) /\ Len(p) = k /\ \A i \in 1..k : p[i] = s[i]
      /\ r \in Seq(S) /\ Len(r) = Len(s) - k /\ \A i \in 1..(Len(s) - k) : r[i] = s[k + i]
  BY <1>1, <1>2, Cut
<1> HIDE DEF p, r
<1>4. p = t
  <2>1. ASSUME NEW i \in 1..k PROVE p[i] = t[i]
    <3>1. i \in 1..(b - a)
      OBVIOUS
    <3>2. QED BY <1>1, <1>3, <3>1
  <2>2. QED BY <1>1, <1>3, <2>1, SeqEqual
<1>5. r = u
  <2>1. Len(r) = b - (a + k) /\ Len(s) - k = b - (a + k)
    BY <1>1, <1>3
  <2>2. ASSUME NEW i \in 1..(b - (a + k)) PROVE r[i] = u[i]
    <3>1. k + i \in 1..(b - a) /\ r[i] = s[k + i]
      BY <1>3, <2>1
    <3>2. a + (k + i) = (a + k) + i
      OBVIOUS
    <3>3. QED BY <1>1, <3>1, <3>2
  <2>3. QED BY <1>1, <1>3, <2>1, <2>2, SeqEqual
<1>6. QED BY <1>4, <1>5 DEF p, r, s, t, u

\* A message as one span.
LEMMA WholeSpan == ASSUME NEW m, Len(m) \in Nat PROVE Whole(m) = Span(0, Len(m))
<1>1. Len(m) - 0 = Len(m) /\ \A i \in 1..Len(m) : 0 + i = i
  OBVIOUS
<1>2. QED BY <1>1 DEF Whole, Span

\* What the proxy adds.
LEMMA AddedSeq ==
    ASSUME NEW L \in Nat, NEW m, NEW kinds
    PROVE  /\ Added(m, kinds) \in Seq(0..L) /\ Len(Added(m, kinds)) \in 0..1
           /\ <<>> \in Seq(0..L) /\ Len(<<>>) = 0
<1>1. 0 \in 0..L /\ <<>> \in Seq(0..L) /\ Len(<<>>) = 0
  BY EmptySeq
<1>2. <<0>> \in Seq(0..L) /\ Len(<<0>>) = 1
  BY <1>1
<1>3. CASE m[1] \in kinds
  <2>1. Added(m, kinds) = <<0>>
    BY <1>3 DEF Added
  <2>2. QED BY <1>1, <1>2, <2>1
<1>4. CASE m[1] \notin kinds
  <2>1. Added(m, kinds) = <<>>
    BY <1>4 DEF Added
  <2>2. QED BY <1>1, <2>1
<1>5. QED BY <1>3, <1>4

\* What passes on of the first n units.
LEMMA PassedSeq ==
    ASSUME NEW L \in Nat, NEW n \in 0..L, NEW m, NEW kinds
    PROVE  /\ Passed(m, kinds, n) \in Seq(0..L)
           /\ n = 0 => Len(Passed(m, kinds, n)) = 0
           /\ n # 0 => Len(Passed(m, kinds, n)) = n + Len(Added(m, kinds))
<1>0. <<>> \in Seq(0..L) /\ Len(<<>>) = 0
  BY AddedSeq
<1>1. CASE n = 0
  BY <1>0, <1>1 DEF Passed
<1>2. CASE n # 0
  <2> DEFINE S == 0..L  a == Added(m, kinds)  o == <<1>>  t == Span(1, n)
  <2>1. 1 \in 0..n /\ 1 \in S /\ n \in 0..L
    BY <1>2
  <2>2. o \in Seq(S) /\ Len(o) = 1
    BY <2>1
  <2>3. t \in Seq(S) /\ Len(t) = n - 1
    BY <2>1, SpanSeq
  <2>4. a \in Seq(S) /\ Len(a) \in Nat
    BY AddedSeq
  <2>5. Passed(m, kinds, n) = (o \o a) \o t
    BY <1>2 DEF Passed
  <2> HIDE DEF S, a, o, t
  <2>6. o \o a \in Seq(S) /\ Len(o \o a) = 1 + Len(a)
    BY <2>2, <2>4, ConcatProperties
  <2>7. (o \o a) \o t \in Seq(S) /\ Len((o \o a) \o t) = (1 + Len(a)) + (n - 1)
    <3>1. (o \o a) \o t \in Seq(S) /\ Len((o \o a) \o t) = Len(o \o a) + Len(t)
      BY <2>3, <2>6, ConcatProperties
    <3>2. QED BY <2>3, <2>6, <3>1
  <2>8. (1 + Len(a)) + (n - 1) = n + Len(a)
    BY <2>4
  <2>9. QED BY <1>2, <2>5, <2>7, <2>8 DEF S, a
<1>3. QED BY <1>1, <1>2

\* The units after the first ones pass on as they are.
LEMMA PassedMore ==
    ASSUME NEW L \in Nat, NEW c \in 0..L, NEW n \in 1..c, NEW m, NEW kinds
    PROVE  Passed(m, kinds, n) \o Span(n, c) = Passed(m, kinds, c)
<1> DEFINE S == 0..L  a == Added(m, kinds)  o == <<1>>  t == Span(1, n)  u == Span(n, c)
<1>1. 1 \in 0..n /\ n \in 0..c /\ n \in 0..L /\ 1 \in S /\ n # 0 /\ c # 0
  OBVIOUS
<1>2. o \in Seq(S) /\ a \in Seq(S) /\ t \in Seq(S) /\ u \in Seq(S)
  <2>1. o \in Seq(S)
    BY <1>1
  <2>2. QED BY <1>1, <2>1, SpanSeq, AddedSeq
<1>3. t \o u = Span(1, c)
  BY <1>1, SpanJoin
<1>4. Passed(m, kinds, n) = (o \o a) \o t /\ Passed(m, kinds, c) = (o \o a) \o Span(1, c)
  BY <1>1 DEF Passed
<1> HIDE DEF S, a, o, t, u
<1>5. o \o a \in Seq(S)
  BY <1>2, ConcatProperties
<1>6. ((o \o a) \o t) \o u = (o \o a) \o (t \o u)
  BY <1>2, <1>5, ConcatAssociative
<1>7. QED BY <1>3, <1>4, <1>6 DEF u

\* The header goes in after the first unit, and nowhere else.
LEMMA HeaderOnSpan ==
    ASSUME NEW L \in Nat, NEW b \in 0..L, NEW a \in 0..b, NEW m, NEW kinds,
           \A i \in 2..L : m[i] \notin kinds
    PROVE  /\ a # 0 => WithHeader(Span(a, b), m, kinds) = Span(a, b)
           /\ a = 0 => WithHeader(Span(a, b), m, kinds) = Passed(m, kinds, b)
<1> DEFINE s == Span(a, b)  S == 0..L  at == {i \in 1..Len(s) : m[s[i]] \in kinds}
<1>1. s \in Seq(S) /\ Len(s) = b - a /\ \A i \in 1..(b - a) : s[i] = a + i
  BY SpanSeq
<1>2. ASSUME NEW i \in at PROVE i = 1 /\ a = 0 /\ b # 0 /\ m[1] \in kinds
  <2>1. i \in 1..(b - a) /\ m[a + i] \in kinds
    BY <1>1, <1>2
  <2>2. a + i \in 1..L /\ ~(a + i \in 2..L)
    BY <2>1
  <2>3. a + i = 1
    BY <2>2
  <2>4. i = 1 /\ a = 0 /\ b # 0
    BY <2>1, <2>3
  <2>5. QED BY <2>1, <2>3, <2>4
<1>3. CASE at = {}
  <2>1. WithHeader(s, m, kinds) = s
    BY <1>3 DEF WithHeader
  <2>2. ASSUME a = 0 PROVE s = Passed(m, kinds, b)
    <3>1. CASE b = 0
      <4>1. Len(s) = 0
        BY <1>1, <2>2, <3>1
      <4>2. s = <<>>
        BY <1>1, <4>1, EmptySeq
      <4>3. QED BY <3>1, <4>2 DEF Passed
    <3>2. CASE b # 0
      <4>1. 1 \in 1..Len(s) /\ s[1] = 1
        BY <1>1, <2>2, <3>2
      <4>2. m[1] \notin kinds
        BY <1>3, <4>1
      <4>3. Added(m, kinds) = <<>>
        BY <4>2 DEF Added
      <4>4. Passed(m, kinds, b) = (<<1>> \o <<>>) \o Span(1, b)
        BY <3>2, <4>3 DEF Passed
      <4>5. 1 \in S /\ <<1>> \in Seq(S)
        BY <3>2
      <4>6. <<1>> \o <<>> = <<1>>
        BY <4>5, ConcatEmptySeq
      <4>7. Span(0, 1) = <<1>>
        BY SpanOne
      <4>8. Span(0, 1) \o Span(1, b) = Span(0, b)
        <5>1. 1 \in 0..b /\ 0 \in 0..1
          BY <3>2
        <5>2. QED BY <5>1, SpanJoin
      <4>9. QED BY <2>2, <4>4, <4>6, <4>7, <4>8
    <3>3. QED BY <3>1, <3>2
  <2>3. QED BY <2>1, <2>2
<1>4. CASE at # {}
  <2>1. at = {1} /\ a = 0 /\ b # 0 /\ m[1] \in kinds
    BY <1>2, <1>4
  <2> DEFINE i == CHOOSE i \in at : \A j \in at : i <= j
  <2>2. i = 1
    BY <2>1
  <2>3. WithHeader(s, m, kinds) = SubSeq(s, 1, i) \o <<0>> \o SubSeq(s, i + 1, Len(s))
    BY <1>4 DEF WithHeader
  <2> HIDE DEF i
  <2>4. 1 \in 0..(b - a) /\ a + 1 = 1
    BY <2>1
  <2>5. SubSeq(s, 1, 1) = Span(0, 1) /\ SubSeq(s, 1 + 1, Len(s)) = Span(1, b)
    <3>1. SubSeq(Span(a, b), 1, 1) = Span(a, a + 1)
          /\ SubSeq(Span(a, b), 1 + 1, Len(Span(a, b))) = Span(a + 1, b)
      BY <2>4, SpanCut
    <3>2. QED BY <2>1, <2>4, <3>1
  <2>6. Span(0, 1) = <<1>>
    BY SpanOne
  <2>7. Passed(m, kinds, b) = <<1>> \o <<0>> \o Span(1, b)
    BY <2>1 DEF Passed, Added
  <2>8. QED BY <2>1, <2>2, <2>3, <2>5, <2>6, <2>7
<1>5. QED BY <1>3, <1>4

\* A message that is parsed in pieces passes on as if it were parsed at once.
LEMMA PassedPiece ==
    ASSUME NEW L \in Nat, NEW b \in 0..L, NEW a \in 0..b, NEW m, NEW kinds,
           \A i \in 2..L : m[i] \notin kinds
    PROVE  /\ Passed(m, kinds, a) \o WithHeader(Span(a, b), m, kinds) = Passed(m, kinds, b)
           /\ Passed(m, kinds, b) \in Seq(0..L)
<1>1. CASE a = 0
  <2>1. Passed(m, kinds, a) = <<>>
    BY <1>1 DEF Passed
  <2>2. WithHeader(Span(a, b), m, kinds) = Passed(m, kinds, b)
    BY <1>1, HeaderOnSpan
  <2>3. Passed(m, kinds, b) \in Seq(0..L)
    BY PassedSeq
  <2>4. QED BY <2>1, <2>2, <2>3, ConcatEmptySeq
<1>2. CASE a # 0
  <2>1. WithHeader(Span(a, b), m, kinds) = Span(a, b)
    BY <1>2, HeaderOnSpan
  <2>2. a \in 1..b
    BY <1>2
  <2>3. Passed(m, kinds, a) \o Span(a, b) = Passed(m, kinds, b)
    BY <2>2, PassedMore
  <2>4. Passed(m, kinds, b) \in Seq(0..L)
    BY PassedSeq
  <2>5. QED BY <2>1, <2>3, <2>4
<1>3. QED BY <1>1, <1>2

\* How much passes on grows with the message.
LEMMA PassedGrows ==
    ASSUME NEW L \in Nat, NEW b \in 0..L, NEW a \in 0..b, NEW m, NEW kinds
    PROVE  /\ Len(Passed(m, kinds, a)) <= Len(Passed(m, kinds, b))
           /\ b <= Len(Passed(m, kinds, b))
<1>1. a \in 0..L /\ Len(Added(m, kinds)) \in Nat
  BY AddedSeq
<1> DEFINE n == Len(Added(m, kinds))  x == Len(Passed(m, kinds, a))  y == Len(Passed(m, kinds, b))
<1>2. /\ Passed(m, kinds, a) \in Seq(0..L) /\ (a = 0 => x = 0) /\ (a # 0 => x = a + n)
      /\ Passed(m, kinds, b) \in Seq(0..L) /\ (b = 0 => y = 0) /\ (b # 0 => y = b + n)
  <2>1. Passed(m, kinds, a) \in Seq(0..L) /\ (a = 0 => x = 0) /\ (a # 0 => x = a + n)
    BY ONLY L \in Nat, a \in 0..L, PassedSeq, ZenonT(60)
  <2>2. Passed(m, kinds, b) \in Seq(0..L) /\ (b = 0 => y = 0) /\ (b # 0 => y = b + n)
    BY ONLY L \in Nat, b \in 0..L, PassedSeq, ZenonT(60)
  <2>3. QED BY <2>1, <2>2
<1>3. n \in Nat
  BY <1>1
<1> HIDE DEF n, x, y
<1>4. x <= y /\ b <= y
  BY <1>2, <1>3
<1>5. QED BY <1>4 DEF x, y

\* The lengths of the parts of a message add up.
LEMMA PassedRest ==
    ASSUME NEW L \in Nat, NEW b \in 0..L, NEW a \in 0..b, NEW m, NEW kinds,
           \A i \in 2..L : m[i] \notin kinds
    PROVE  LET w == WithHeader(Span(a, b), m, kinds)
           IN  /\ w \in Seq(0..L)
               /\ Len(Passed(m, kinds, a)) + Len(w) = Len(Passed(m, kinds, b))
<1> DEFINE w == WithHeader(Span(a, b), m, kinds)  S == 0..L  P == Passed(m, kinds, a)
<1>1. P \in Seq(S) /\ Passed(m, kinds, b) \in Seq(S) /\ Span(a, b) \in Seq(S)
  <2>1. a \in 0..L
    OBVIOUS
  <2>2. QED BY <2>1, PassedSeq, SpanSeq
<1>2. w \in Seq(S)
  BY <1>1, HeaderOnSpan
<1>3. P \o w = Passed(m, kinds, b)
  BY PassedPiece
<1> HIDE DEF w, S, P
<1>4. Len(P \o w) = Len(P) + Len(w)
  BY <1>1, <1>2, ConcatProperties
<1>5. QED BY <1>2, <1>3, <1>4 DEF w, S, P

\* Nothing is dropped when there is room.
LEMMA WrittenFits ==
    ASSUME NEW S, NEW b, b.room \in Nat, NEW w \in Seq(S), Len(w) <= b.room
    PROVE  WrittenAll(b, w) = [q |-> b.q \o w, room |-> b.room - Len(w)]
<1>1. Shorter(b.room, Len(w)) = Len(w)
  BY LenProperties DEF Shorter
<1>2. SubSeq(w, 1, Len(w)) = w
  BY SubSeqFull
<1>3. QED BY <1>1, <1>2 DEF WrittenAll, Filled

\* Nothing but the last unit may be of the kinds looked for: all is taken.
LEMMA FirstIsLast ==
    ASSUME NEW S, NEW s \in Seq(S), s # <<>>, NEW m, NEW kinds,
           \A i \in 1..Len(s) : m[s[i]] \in kinds => i = Len(s)
    PROVE  FirstOf(s, m, kinds) = Len(s)
BY FirstOfFound

\* Units consumed to the last give the buffer all of its space back.
LEMMA AdvancedSpan ==
    ASSUME NEW L \in Nat, NEW c \in 0..L, NEW a \in 0..c, NEW k \in 0..(c - a),
           NEW b, b.q = Span(a, c)
    PROVE  /\ Advanced(b, k, cap).q = Span(a + k, c)
           /\ k = c - a => Advanced(b, k, cap).q = <<>> /\ Advanced(b, k, cap).room = cap
<1> DEFINE r == SubSeq(b.q, k + 1, Len(b.q))
<1>1. r = Span(a + k, c)
  BY SpanCut
<1>2. Advanced(b, k, cap) = [q |-> r, room |-> IF r = <<>> THEN cap ELSE b.room]
  BY DEF Advanced
<1>3. ASSUME k = c - a PROVE r = <<>>
  <2>1. a + k = c /\ c \in 0..c /\ c - c = 0
    BY <1>3
  <2>2. Span(c, c) \in Seq(0..L) /\ Len(Span(c, c)) = 0
    BY <2>1, SpanSeq
  <2>3. Span(c, c) = <<>>
    BY <2>2, EmptySeq
  <2>4. QED BY <1>1, <2>1, <2>3
<1> HIDE DEF r
<1>4. QED BY <1>1, <1>2, <1>3

\* checkRequest and the copy after it, on a whole request that fits: the request
\* passes on, unless the parser rejects it.
LEMMA RequestPasses ==
    ASSUME cap \in Nat, NEW L \in Nat \ {0}, L = Len(request),
           \A i \in 2..L : request[i] # "line", \A i \in 1..L : request[i] # "nul",
           Len(Passed(request, {"line"}, L)) <= cap,
           NEW pre, pre.q = Span(0, L), NEW post, post.q = <<>>, post.room = cap
    PROVE  LET r == CheckRequest("SEARCH", pre, post)
               d == Drained(r.pre, r.post)
           IN  d.pre.q = <<>> /\ d.pre.room = cap /\ d.post.q = Passed(request, {"line"}, L)
<1> DEFINE K == {"line"}
           S == 0..L
           r == CheckRequest("SEARCH", pre, post)
           k == FirstOf(pre.q, request, {"host", "bad"})
           w == WithHeader(SubSeq(pre.q, 1, k), request, K)
           d == Drained(r.pre, r.post)
           P(n) == Passed(request, K, n)
<1>1. L \in Nat /\ L \in 0..L /\ 0 \in 0..L /\ 0 \in 0..0 /\ L - 0 = L
  OBVIOUS
<1>2. pre.q \in Seq(S) /\ Len(pre.q) = L /\ pre.q # <<>>
  <2>1. Span(0, L) \in Seq(S) /\ Len(Span(0, L)) = L
    BY <1>1, SpanSeq
  <2>2. QED BY <2>1, EmptySeq
<1>3. k \in 1..L
  BY <1>2, FirstOfFound
<1>4. r.pre = Advanced(pre, k, cap) /\ r.post = WrittenAll(post, w)
  BY <1>2 DEF CheckRequest
<1> HIDE DEF k, r
<1>5. k \in 0..L /\ k \in 0..(L - 0) /\ 0 + k = k /\ 0 \in 0..k
  BY <1>3
<1>6. SubSeq(pre.q, 1, k) = Span(0, k)
  <2>1. SubSeq(Span(0, L), 1, k) = Span(0, 0 + k)
    BY <1>1, <1>5, SpanCut
  <2>2. QED BY <1>5, <2>1
<1>7. \A i \in 2..L : request[i] \notin K
  OBVIOUS
<1> HIDE DEF K
<1>8. w = P(k)
  <2>1. WithHeader(Span(0, k), request, K) = Passed(request, K, k)
    BY <1>1, <1>5, <1>7, HeaderOnSpan
  <2>2. QED BY <1>6, <2>1
<1>9. P(k) \in Seq(S) /\ P(L) \in Seq(S) /\ Len(P(k)) <= Len(P(L))
  BY <1>1, <1>5, PassedSeq, PassedGrows
<1>10. Len(P(k)) + (L - k) = Len(P(L)) /\ P(k) \o Span(k, L) = P(L)
  <2>1. P(k) \o Span(k, L) = P(L)
    BY ONLY <1>1, <1>3, PassedMore, Zenon
  <2>2. Span(k, L) \in Seq(S) /\ Len(Span(k, L)) = L - k
    BY <1>1, <1>5, SpanSeq
  <2> HIDE DEF S, P
  <2>3. Len(P(k) \o Span(k, L)) = Len(P(k)) + Len(Span(k, L))
    BY ONLY <1>9, <2>2, ConcatProperties
  <2>4. QED BY <2>1, <2>2, <2>3
<1> HIDE DEF w, P
<1>11. Len(P(k)) \in Nat /\ Len(P(L)) \in Nat /\ Len(P(L)) <= cap
  BY <1>9, LenProperties DEF P, K
<1>12. r.post = [q |-> P(k), room |-> cap - Len(P(k))]
  <2>1. post.room \in Nat /\ Len(w) <= post.room
    BY <1>8, <1>9, <1>11
  <2>2. WrittenAll(post, w) = [q |-> <<>> \o w, room |-> cap - Len(w)]
    BY <1>8, <1>9, <2>1, WrittenFits
  <2>3. <<>> \o w = w
    BY <1>8, <1>9, ConcatEmptySeq
  <2>4. QED BY <1>4, <1>8, <2>2, <2>3
<1>13. /\ r.pre.q = Span(k, L)
       /\ k = L => r.pre.q = <<>> /\ r.pre.room = cap
  BY <1>1, <1>4, <1>5, AdvancedSpan
<1>14. CASE k = L
  <2>1. d = [pre |-> r.pre, post |-> r.post]
    BY <1>13, <1>14 DEF Drained
  <2>2. d.pre.q = <<>> /\ d.pre.room = cap /\ d.post.q = P(L)
    <3> HIDE DEF d
    <3>1. QED BY <1>12, <1>13, <1>14, <2>1
  <2>3. QED BY <2>2 DEF P, K, d, r
<1>15. CASE k # L
  <2> DEFINE s == Span(k, L)
             j == FirstOf(s, request, {"nul"})
  <2>0. L - k \in Nat \ {0}
    BY <1>3, <1>15
  <2>1. /\ s \in Seq(S) /\ Len(s) = L - k
        /\ \A i \in 1..(L - k) : s[i] = k + i
    BY <1>1, <1>5, SpanSeq
  <2> HIDE DEF s
  <2>2. s # <<>>
    BY <2>0, <2>1, EmptySeq
  <2>3. ASSUME NEW i \in 1..Len(s) PROVE request[s[i]] \notin {"nul"}
    <3>1. s[i] \in 1..L
      BY <1>3, <2>1
    <3>2. QED BY <3>1
  <2>4. j = Len(s)
    BY <2>1, <2>2, <2>3, FirstIsLast
  <2>5. j \in 1..Len(s) /\ request[s[j]] # "nul"
    <3>1. Len(s) \in 1..Len(s)
      BY <2>0, <2>1
    <3>2. QED BY <2>3, <2>4, <3>1
  <2>6. d = [pre |-> Advanced(r.pre, j, cap), post |-> WrittenAll(r.post, SubSeq(s, 1, j))]
    BY <1>13, <2>2, <2>5 DEF Drained, s
  <2> HIDE DEF j, d
  <2>7. SubSeq(s, 1, j) = s
    BY <2>1, <2>4, SubSeqFull
  <2>8. d.pre.q = <<>> /\ d.pre.room = cap
    <3>1. j \in 0..(L - k) /\ j = L - k
      BY <2>1, <2>4
    <3>2. QED BY <1>1, <1>5, <1>13, <2>6, <3>1, AdvancedSpan DEF s
  <2>9. d.post.q = P(L)
    <3>1. r.post.room \in Nat /\ Len(s) <= r.post.room
      BY <1>3, <1>10, <1>11, <1>12, <2>1
    <3>2. WrittenAll(r.post, s) = [q |-> r.post.q \o s, room |-> r.post.room - Len(s)]
      BY <2>1, <3>1, WrittenFits
    <3>3. d.post = WrittenAll(r.post, s)
      BY ONLY <2>6, <2>7
    <3>4. r.post.q = P(k) /\ P(k) \o s = P(L)
      BY ONLY <1>10, <1>12 DEF s
    <3>5. QED BY ONLY <3>2, <3>3, <3>4
  <2>10. QED BY <2>8, <2>9 DEF d, P, K, r
<1>16. QED BY <1>14, <1>15

\* checkResponse on the next units of a response: all of them pass on, and the
\* parser finishes at the end of the response.
LEMMA ResponsePasses ==
    ASSUME cap \in Nat, Len(response) \in Nat \ {0},
           \A i \in 2..Len(response) : response[i] \notin {"head", "bare"},
           \A i \in 1..(Len(response) - 1) : response[i] \notin {"last", "bare"},
           \A i \in 1..Len(response) : response[i] # "bad",
           response[Len(response)] \in {"last", "bare"},
           Len(Passed(response, {"head", "bare"}, Len(response))) <= cap,
           resSent \in 1..Len(response), resSent - Len(onet) \in 0..(resSent - 1),
           gotC \in Seq(0..Len(response)), postRes.q \in Seq(0..Len(response)), postRes.room \in Nat,
           gotC \o postRes.q = Passed(response, {"head", "bare"}, resSent - Len(onet)),
           cap <= postRes.room + Len(gotC) + Len(postRes.q),
           NEW pre, pre.q = Span(resSent - Len(onet), resSent)
    PROVE  LET r == CheckResponse(pre, postRes)
           IN  /\ r.ok /\ r.pre.q = <<>> /\ r.pre.room = cap
               /\ gotC \o r.post.q = Passed(response, {"head", "bare"}, resSent)
               /\ cap <= r.post.room + Len(gotC) + Len(r.post.q)
               /\ r.rs = IF resSent = Len(response) THEN "FINISHED" ELSE "PARSING"
<1> DEFINE L == Len(response)  a == resSent - Len(onet)
<1> SUFFICES ASSUME
           cap \in Nat, L \in Nat \ {0},
           \A i \in 2..L : response[i] \notin {"head", "bare"},
           \A i \in 1..(L - 1) : response[i] \notin {"last", "bare"},
           \A i \in 1..L : response[i] # "bad", response[L] \in {"last", "bare"},
           Len(Passed(response, {"head", "bare"}, L)) <= cap,
           resSent \in 1..L, a \in 0..(resSent - 1), pre.q = Span(a, resSent),
           gotC \in Seq(0..L), postRes.q \in Seq(0..L), postRes.room \in Nat,
           gotC \o postRes.q = Passed(response, {"head", "bare"}, a),
           cap <= postRes.room + Len(gotC) + Len(postRes.q)
    PROVE  LET r == CheckResponse(pre, postRes)
           IN  /\ r.ok /\ r.pre.q = <<>> /\ r.pre.room = cap
               /\ gotC \o r.post.q = Passed(response, {"head", "bare"}, resSent)
               /\ cap <= r.post.room + Len(gotC) + Len(r.post.q)
               /\ r.rs = IF resSent = L THEN "FINISHED" ELSE "PARSING"
  OBVIOUS
<1> HIDE DEF L, a
<1> DEFINE K == {"head", "bare"}
           E == {"last", "bare", "bad"}
           S == 0..L
           s == Span(a, resSent)
           k == FirstOf(pre.q, response, E)
           w == WithHeader(SubSeq(pre.q, 1, k), response, K)
           r == CheckResponse(pre, postRes)
           P(n) == Passed(response, K, n)
<1>1. L \in Nat /\ resSent \in 0..L /\ a \in 0..resSent /\ a \in 0..L /\ L \in 0..L /\ resSent - a \in Nat \ {0}
  OBVIOUS
<1>2. s \in Seq(S) /\ Len(s) = resSent - a /\ \A i \in 1..(resSent - a) : s[i] = a + i
  BY ONLY <1>1, SpanSeq
<1>3. s # <<>>
  BY <1>1, <1>2, EmptySeq
<1>4. ASSUME NEW i \in 1..Len(s), response[s[i]] \in E PROVE i = Len(s)
  <2>1. s[i] = a + i /\ a + i \in 1..resSent /\ i \in 1..(resSent - a)
    BY <1>1, <1>2
  <2>2. a + i \in 1..L /\ ~(a + i \in 1..(L - 1))
    BY <1>1, <1>4, <2>1
  <2>3. a + i = L
    BY <1>1, <2>2
  <2>4. QED BY <1>1, <1>2, <2>1, <2>3
<1>5. k = Len(s) /\ k = resSent - a
  BY <1>2, <1>3, <1>4, FirstIsLast
<1>6. /\ r.rs = (IF response[s[k]] \in {"last", "bare"} THEN "FINISHED" ELSE "PARSING")
      /\ r.ok = (response[s[k]] # "bad")
      /\ r.pre = Advanced(pre, k, cap) /\ r.post = WrittenAll(postRes, w)
  BY DEF CheckResponse
<1> HIDE DEF k, r, s
<1>7. s[k] = resSent
  BY ONLY <1>1, <1>2, <1>5
<1> HIDE DEF K
<1>8. r.ok /\ r.rs = IF resSent = L THEN "FINISHED" ELSE "PARSING"
  <2>1. response[resSent] # "bad"
    OBVIOUS
  <2>2. resSent # L => resSent \in 1..(L - 1)
    OBVIOUS
  <2>3. response[resSent] \in {"last", "bare"} <=> resSent = L
    BY <2>2
  <2>4. QED BY <1>6, <1>7, <2>1, <2>3
<1>9. r.pre.q = <<>> /\ r.pre.room = cap
  <2>1. resSent - a \in 0..(resSent - a)
    BY <1>1
  <2>2. k \in 0..(resSent - a)
    BY <1>5, <2>1
  <2>3. Advanced(pre, k, cap).q = <<>> /\ Advanced(pre, k, cap).room = cap
    BY ONLY pre.q = Span(a, resSent), <1>1, <1>5, <2>2, AdvancedSpan
  <2>4. QED BY <1>6, <2>3
<1>10. SubSeq(pre.q, 1, k) = s
  BY <1>2, <1>5, SubSeqFull DEF s
<1>11. w \in Seq(S) /\ Len(P(a)) + Len(w) = Len(P(resSent)) /\ P(a) \o w = P(resSent)
  <2>1. \A i \in 2..L : response[i] \notin K
    BY DEF K
  <2> DEFINE v == WithHeader(Span(a, resSent), response, K)
  <2>2. v \in Seq(0..L) /\ Len(Passed(response, K, a)) + Len(v) = Len(Passed(response, K, resSent))
    BY ONLY <1>1, <2>1, PassedRest
  <2>3. /\ Passed(response, K, a) \o v = Passed(response, K, resSent)
        /\ Passed(response, K, resSent) \in Seq(0..L)
    BY ONLY <1>1, <2>1, PassedPiece
  <2>4. w = v
    BY <1>10 DEF s
  <2>5. QED BY <2>2, <2>3, <2>4
<1>12. Len(P(resSent)) <= Len(P(L)) /\ P(resSent) \in Seq(S) /\ P(L) \in Seq(S)
  BY <1>1, PassedSeq, PassedGrows
<1> HIDE DEF w, P
<1>13. Len(gotC) + Len(postRes.q) = Len(P(a)) /\ gotC \o postRes.q = P(a)
  <2>1. gotC \in Seq(S) /\ postRes.q \in Seq(S) /\ gotC \o postRes.q = P(a)
    BY DEF P, K
  <2>2. Len(gotC \o postRes.q) = Len(gotC) + Len(postRes.q)
    BY ONLY <2>1, ConcatProperties
  <2>3. QED BY ONLY <2>1, <2>2
<1>14. /\ Len(gotC) \in Nat /\ Len(postRes.q) \in Nat /\ Len(w) \in Nat
       /\ Len(P(resSent)) \in Nat /\ Len(P(L)) \in Nat /\ Len(P(L)) <= cap
  BY <1>11, <1>12, LenProperties DEF P, K
<1>15. Len(w) <= postRes.room
  <2>1. postRes.room \in Nat /\ cap \in Nat /\ cap <= postRes.room + Len(gotC) + Len(postRes.q)
    OBVIOUS
  <2>2. QED BY ONLY <1>11, <1>12, <1>13, <1>14, <2>1
<1>16. r.post = [q |-> postRes.q \o w, room |-> postRes.room - Len(w)]
  BY <1>6, <1>11, <1>15, WrittenFits
<1>17. gotC \o (postRes.q \o w) = P(resSent)
  <2> HIDE DEF S
  <2> DEFINE p == postRes.q
  <2>1. gotC \in Seq(S) /\ p \in Seq(S) /\ w \in Seq(S)
    BY <1>11 DEF S
  <2>2. ASSUME NEW x \in Seq(S), NEW y \in Seq(S), NEW z \in Seq(S)
        PROVE  (x \o y) \o z = x \o (y \o z)
    BY ONLY x \in Seq(S), y \in Seq(S), z \in Seq(S), ConcatAssociative
  <2> HIDE DEF p
  <2>3. (gotC \o p) \o w = gotC \o (p \o w)
    BY ONLY <2>1, <2>2, Zenon
  <2>4. QED BY <1>11, <1>13, <2>3 DEF p
<1>18. Len(postRes.q \o w) = Len(postRes.q) + Len(w)
  BY <1>11, ConcatProperties
<1>19. cap <= (postRes.room - Len(w)) + Len(gotC) + (Len(postRes.q) + Len(w))
  <2> DEFINE x == Len(w)  y == Len(gotC)  z == Len(postRes.q)
  <2>1. /\ x \in Nat /\ y \in Nat /\ z \in Nat /\ cap \in Nat /\ postRes.room \in Nat
        /\ cap <= postRes.room + y + z
    BY <1>14
  <2> HIDE DEF x, y, z
  <2>2. cap <= (postRes.room - x) + y + (z + x)
    BY ONLY <2>1
  <2>3. QED BY <2>2 DEF x, y, z
<1>20. r.post.q = postRes.q \o w /\ r.post.room = postRes.room - Len(w)
  BY ONLY <1>16
<1>21. /\ gotC \o r.post.q = P(resSent)
       /\ cap <= r.post.room + Len(gotC) + Len(r.post.q)
  BY <1>17, <1>18, <1>19, <1>20
<1>22. QED BY <1>8, <1>9, <1>21 DEF r, P, K

\* What a partial write takes from a buffer, the peer has: nothing is lost.
LEMMA Handed ==
    ASSUME NEW S, NEW g \in Seq(S), NEW q \in Seq(S), NEW k \in 1..Len(q)
    PROVE  LET h == g \o SubSeq(q, 1, k)
               r == SubSeq(q, k + 1, Len(q))
           IN  h \in Seq(S) /\ r \in Seq(S) /\ h \o r = g \o q /\ Len(h) + Len(r) = Len(g) + Len(q)
<1> DEFINE x == SubSeq(q, 1, k)  y == SubSeq(q, k + 1, Len(q))
<1>1. k \in 0..Len(q)
  BY LenProperties
<1>2. x \in Seq(S) /\ y \in Seq(S)
  BY <1>1, Cut
<1>3. x \o y = q
  BY <1>1, Cut
<1> HIDE DEF x, y
<1>4. (g \o x) \o y = g \o (x \o y)
  <2> DEFINE T == S  f == g
  <2>1. f \in Seq(T) /\ x \in Seq(T) /\ y \in Seq(T)
    BY <1>2
  <2> HIDE DEF f, T
  <2>2. (f \o x) \o y = f \o (x \o y)
    BY ONLY <2>1, ConcatAssociative
  <2>3. QED BY <2>2 DEF f
<1>5. g \o x \in Seq(S) /\ Len((g \o x) \o y) = Len(g \o x) + Len(y)
  BY <1>2, ConcatProperties
<1>6. Len(g \o q) = Len(g) + Len(q)
  BY ConcatProperties
<1>7. QED BY <1>2, <1>3, <1>4, <1>5, <1>6 DEF x, y

\* The unit after the first n.
LEMMA SpanNext == ASSUME NEW n \in Nat PROVE Span(n, n + 1) = <<n + 1>>
<1> DEFINE L == n + 1  S == 0..L  s == Span(n, L)  t == <<L>>
<1>1. L \in Nat /\ L \in 0..L /\ n \in 0..L /\ L - n = 1 /\ L \in S
  OBVIOUS
<1>2. s \in Seq(S) /\ Len(s) = L - n /\ \A i \in 1..(L - n) : s[i] = n + i
  BY <1>1, SpanSeq
<1>3. t \in Seq(S) /\ Len(t) = 1 /\ t[1] = L
  BY <1>1
<1> HIDE DEF S, s, t
<1>4. Len(s) = Len(t) /\ \A i \in 1..Len(s) : s[i] = t[i]
  BY <1>1, <1>2, <1>3
<1>5. QED BY <1>2, <1>3, <1>4, SeqEqual DEF s, t

=============================================================================
