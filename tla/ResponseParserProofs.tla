------------------------ MODULE ResponseParserProofs ------------------------
(***************************************************************************)
(* For every set of responses, all sizes of the buffers and of the         *)
(* reserved zone, and wherever a response is cut: the response parser      *)
(* keeps its buffers within their limits and every call of it returns.     *)
(* The first half are lemmas on ParserUtils, among them that a number      *)
(* which was pushed back is read again as the same number.                 *)
(***************************************************************************)
EXTENDS ResponseParser, SequenceTheorems, WellFoundedInduction, TLAPS

-----------------------------------------------------------------------------
(* Choosing and recursion, over intervals of numbers. *)

\* A nonempty set of natural numbers has a least element.
LEMMA Least ==
    ASSUME NEW S, S \subseteq Nat, S # {}
    PROVE  \E x \in S : \A y \in S : x <= y
<1> DEFINE R == OpToRel(<, Nat)
<1>1. IsWellFoundedOn(R, Nat)
  BY NatLessThanWellFounded, Zenon
<1>2. \A x, y \in Nat : x < y => <<x, y>> \in R
  BY Zenon DEF OpToRel
<1> HIDE DEF R
<1>3. PICK x \in S : \A y \in S : ~(<<y, x>> \in R)
  BY <1>1, WFMin
<1>4. ASSUME NEW y \in S PROVE x <= y
  <2>1. x \in Nat /\ y \in Nat
    OBVIOUS
  <2>2. ~(y < x)
    BY <1>2, <1>3, <2>1
  <2>3. QED BY <2>1, <2>2
<1>5. QED BY <1>4

\* A loop over n positions stops before the first position of a set, or at the end.
LEMMA LoopStops ==
    ASSUME NEW n \in Nat, NEW Bad
    PROVE  \E m \in 0..n : (\A k \in 1..m : k \notin Bad) /\ (m < n => m + 1 \in Bad)
<1> DEFINE S == {k \in 1..n : k \in Bad}
<1>1. CASE S = {}
  BY <1>1
<1>2. CASE S # {}
  <2>1. S \subseteq Nat
    OBVIOUS
  <2>2. PICK x \in S : \A y \in S : x <= y
    BY <1>2, <2>1, Least
  <2>3. x - 1 \in 0..n /\ (\A k \in 1..(x - 1) : k \notin Bad) /\ (x - 1) + 1 \in Bad
    BY <2>2
  <2>4. QED BY <2>3
<1>3. QED BY <1>1, <1>2

\* The shape of a recursive definition of a function on 0..n: init on stop, and
\* elsewhere step from the value at prev, a smaller number.
IsRecursion(n, T, stop, init, prev, step) ==
    /\ n \in Nat
    /\ init \in [0..n -> T]
    /\ step \in [0..n -> [T -> T]]
    /\ prev \in [0..n -> Int]
    /\ \A k \in 0..n : k \notin stop => prev[k] \in 0..(k - 1)

Solves(f, n, stop, init, prev, step) ==
    \A k \in 0..n : f[k] = IF k \in stop THEN init[k] ELSE step[k][f[prev[k]]]

\* There is such a function.
LEMMA Recursion ==
    ASSUME NEW n, NEW T, NEW stop, NEW init, NEW prev, NEW step,
           IsRecursion(n, T, stop, init, prev, step)
    PROVE  \E f \in [0..n -> T] : Solves(f, n, stop, init, prev, step)
<1> USE DEF IsRecursion, Solves
<1> DEFINE Good(m, f) == \A k \in 0..m :
                            f[k] = IF k \in stop THEN init[k] ELSE step[k][f[prev[k]]]
           S == {m \in 0..n : ~ \E f \in [0..m -> T] : Good(m, f)}
<1>1. SUFFICES ASSUME S # {} PROVE FALSE
  <2>1. n \in 0..n
    OBVIOUS
  <2>2. PICK f \in [0..n -> T] : Good(n, f)
    BY <1>1, <2>1
  <2>3. QED BY <2>2
<1>2. S \subseteq Nat
  OBVIOUS
<1>3. PICK m \in S : \A y \in S : m <= y
  BY <1>1, <1>2, Least
<1>4. m \in 0..n
  OBVIOUS
<1>5. CASE m = 0
  <2>1. 0 \in stop
    BY <1>4, <1>5
  <2>2. [k \in 0..0 |-> init[0]] \in [0..0 -> T]
    OBVIOUS
  <2>3. Good(0, [k \in 0..0 |-> init[0]])
    BY <2>1
  <2>4. QED BY <1>5, <2>2, <2>3
<1>6. CASE m # 0
  <2>1. m - 1 \in 0..n /\ m - 1 \notin S
    <3>1. m \in Nat /\ m - 1 \in 0..n /\ ~(m <= m - 1)
      BY <1>4, <1>6
    <3> HIDE DEF S
    <3>2. QED BY <3>1, <1>3
  <2>2. PICK h \in [0..(m - 1) -> T] : Good(m - 1, h)
    BY <2>1
  <2> DEFINE g == [k \in 0..m |-> IF k < m THEN h[k]
                                  ELSE IF m \in stop THEN init[m] ELSE step[m][h[prev[m]]]]
  <2>3. m \notin stop => step[m][h[prev[m]]] \in T
    <3>1. m \notin stop => h[prev[m]] \in T
      BY <1>4, <1>6
    <3>2. step[m] \in [T -> T]
      BY <1>4
    <3>3. QED BY <3>1, <3>2
  <2>4. g \in [0..m -> T]
    BY <1>4, <1>6, <2>3
  <2>5. ASSUME NEW k \in 0..m
        PROVE  g[k] = IF k \in stop THEN init[k] ELSE step[k][g[prev[k]]]
    <3>1. k \notin stop => prev[k] \in 0..(m - 1) /\ prev[k] < k
      BY <1>4
    <3>2. k \notin stop => g[prev[k]] = h[prev[k]]
      BY <3>1, <1>4
    <3> HIDE DEF g
    <3>3. CASE k < m
      <4>1. g[k] = h[k] /\ k \in 0..(m - 1)
        BY <3>3, <1>4 DEF g
      <4>2. QED BY <4>1, <3>2, <2>2
    <3>4. CASE k = m
      <4>1. g[k] = IF m \in stop THEN init[m] ELSE step[m][h[prev[m]]]
        BY <3>4, <1>4 DEF g
      <4>2. QED BY <4>1, <3>2, <3>4
    <3>5. QED BY <3>3, <3>4, <1>4
  <2>6. QED
    <3>1. Good(m, g)
      BY <2>5
    <3>2. QED BY <2>4, <3>1
<1>7. QED BY <1>5, <1>6

-----------------------------------------------------------------------------
(* Numbers: what is read of one, and what is pushed back. *)

Bases == {10, 16}

\* A digit stands for a number below its base, the one it was made of.
LEMMA DigitValue ==
    ASSUME NEW base \in Bases
    PROVE  /\ \A c \in Digits(base) : hexCharToDec(c) \in 0..(base - 1)
           /\ \A d \in 0..(base - 1) :
                 Digit[d + 1] \in Digits(base) /\ hexCharToDec(Digit[d + 1]) = d
<1>1. \A j, k \in 1..16 : Digit[j] = Digit[k] => j = k
  BY DEF Digit
<1>2. \A k \in 1..16 : ToUpper(Digit[k]) = Digit[k]
  <2>1. DOMAIN UpperOf = {"g", "et", "h", "ttp", "ost", "x", "b", "c", "on", "t", "ed"}
    BY DEF UpperOf
  <2>2. \A k \in 1..16 : Digit[k] \notin DOMAIN UpperOf
    BY <2>1 DEF Digit
  <2>3. QED BY <2>2 DEF ToUpper
<1>3. ToUpper("b") = Digit[12] /\ ToUpper("c") = Digit[13]
  BY DEF Digit, ToUpper, UpperOf
<1>4. \A k \in 1..16 : \A c : ToUpper(c) = Digit[k] => hexCharToDec(c) = k - 1
  BY <1>1 DEF hexCharToDec
<1>5. ASSUME NEW d \in 0..(base - 1)
      PROVE  Digit[d + 1] \in Digits(base) /\ hexCharToDec(Digit[d + 1]) = d
  <2>1. d + 1 \in 1..16 /\ d + 1 \in 1..base
    BY DEF Bases
  <2>2. hexCharToDec(Digit[d + 1]) = (d + 1) - 1
    BY <2>1, <1>2, <1>4
  <2>3. QED BY <2>1, <2>2 DEF Digits
<1>6. ASSUME NEW c \in Digits(base)
      PROVE  hexCharToDec(c) \in 0..(base - 1)
  <2>1. CASE \E k \in 1..base : c = Digit[k]
    <3>1. PICK k \in 1..base : c = Digit[k]
      BY <2>1
    <3>2. k \in 1..16
      BY DEF Bases
    <3>3. hexCharToDec(c) = k - 1
      BY <3>1, <3>2, <1>2, <1>4
    <3>4. QED BY <3>3 DEF Bases
  <2>2. CASE base = 16 /\ (c = "b" \/ c = "c")
    <3>1. hexCharToDec(c) = 11 \/ hexCharToDec(c) = 12
      BY <2>2, <1>3, <1>4
    <3>2. QED BY <2>2, <3>1
  <2>3. QED BY <2>1, <2>2 DEF Digits
<1>7. QED BY <1>5, <1>6

\* Value satisfies its recursive definition.
LEMMA ValueRecursion ==
    ASSUME NEW base \in Bases, NEW s \in Seq(Digits(base))
    PROVE  \E f \in [0..Len(s) -> Nat] :
              /\ Value(s, base) = f[Len(s)]
              /\ f[0] = 0
              /\ \A k \in 1..Len(s) : f[k] = base * f[k - 1] + hexCharToDec(s[k])
<1> DEFINE n == Len(s)
           init == [k \in 0..n |-> 0]
           prev == [k \in 0..n |-> k - 1]
           stop == {0}
           step == [k \in 0..n |-> [x \in Nat |->
                       IF k = 0 THEN 0 ELSE base * x + hexCharToDec(s[k])]]
<1>1. n \in Nat
  OBVIOUS
<1>2. \A k \in 1..n : hexCharToDec(s[k]) \in Nat
  <2>1. \A k \in 1..n : s[k] \in Digits(base)
    OBVIOUS
  <2>2. \A c \in Digits(base) : hexCharToDec(c) \in 0..(base - 1)
    BY DigitValue
  <2>3. QED BY <2>1, <2>2 DEF Bases
<1>3. \A x \in Nat, y \in Nat : base * x + y \in Nat
  BY DEF Bases
<1>4. step \in [0..n -> [Nat -> Nat]]
  <2>1. \A k \in 0..n, x \in Nat : (IF k = 0 THEN 0 ELSE base * x + hexCharToDec(s[k])) \in Nat
    <3> TAKE k \in 0..n, x \in Nat
    <3>1. k # 0 => k \in 1..n
      BY <1>1
    <3>2. QED BY <3>1, <1>2, <1>3
  <2>2. QED BY <2>1
<1>5. init \in [0..n -> Nat] /\ prev \in [0..n -> Int]
      /\ \A k \in 0..n : k \notin stop => prev[k] \in 0..(k - 1)
  BY <1>1
<1> HIDE DEF n
<1>6. PICK f \in [0..n -> Nat] :
         \A k \in 0..n : f[k] = IF k \in stop THEN init[k] ELSE step[k][f[prev[k]]]
  <2> HIDE DEF init, prev, step, stop
  <2>1. IsRecursion(n, Nat, stop, init, prev, step)
    BY <1>1, <1>4, <1>5 DEF IsRecursion
  <2>2. PICK f \in [0..n -> Nat] : Solves(f, n, stop, init, prev, step)
    BY <2>1, Recursion
  <2>3. QED BY <2>2 DEF Solves
<1>7. \A k \in 0..n : f[k] = IF k = 0 THEN 0 ELSE base * f[k - 1] + hexCharToDec(s[k])
  <2> TAKE k \in 0..n
  <2>1. CASE k = 0
    BY <2>1, <1>6
  <2>2. CASE k # 0
    <3>1. f[k] = step[k][f[prev[k]]] /\ prev[k] = k - 1
      BY <2>2, <1>6
    <3>2. k - 1 \in 0..n
      BY <2>2, <1>1
    <3>3. f[k - 1] \in Nat
      BY <3>2
    <3>4. QED BY <3>1, <3>3, <2>2
  <2>3. QED BY <2>1, <2>2
<1> DEFINE Eq(g) == g = [k \in 0..n |-> IF k = 0 THEN 0 ELSE base * g[k - 1] + hexCharToDec(s[k])]
<1>8. f = [k \in 0..n |-> IF k = 0 THEN 0 ELSE base * f[k - 1] + hexCharToDec(s[k])]
  BY <1>7
<1>9. PICK g : Eq(g) /\ Value(s, base) = g[n]
  BY <1>8, Zenon DEF Value, n
<1>10. g = f
  <2> DEFINE D == {k \in 0..n : g[k] # f[k]}
  <2>1. D = {}
    <3> SUFFICES ASSUME D # {} PROVE FALSE
      OBVIOUS
    <3>1. D \subseteq Nat
      OBVIOUS
    <3>2. PICK m \in D : \A y \in D : m <= y
      BY <3>1, Least
    <3>3. m \in 0..n /\ g[m] # f[m]
      OBVIOUS
    <3>4. m # 0
      BY <1>7, <1>9, <3>3
    <3>5. m - 1 \in 0..n /\ ~(m <= m - 1)
      BY <1>1, <3>3, <3>4
    <3>6. g[m - 1] = f[m - 1]
      BY <3>2, <3>5
    <3>7. g[m] = base * g[m - 1] + hexCharToDec(s[m])
      BY <1>9, <3>3, <3>4
    <3>8. f[m] = base * f[m - 1] + hexCharToDec(s[m])
      BY <1>7, <3>3, <3>4
    <3>9. QED BY <3>3, <3>6, <3>7, <3>8
  <2>2. \A k \in 0..n : g[k] = f[k]
    BY <2>1
  <2>3. g = [k \in 0..n |-> g[k]]
    BY <1>9
  <2>4. QED BY <2>2, <2>3
<1>11. f[0] = 0 /\ \A k \in 1..n : f[k] = base * f[k - 1] + hexCharToDec(s[k])
  BY <1>1, <1>7
<1>12. QED BY <1>9, <1>10, <1>11 DEF n

\* One digit more.
LEMMA ValueAppend ==
    ASSUME NEW base \in Bases, NEW s \in Seq(Digits(base)), NEW c \in Digits(base)
    PROVE  /\ Value(s, base) \in Nat
           /\ Value(Append(s, c), base) = base * Value(s, base) + hexCharToDec(c)
<1> DEFINE n == Len(s)
           t == Append(s, c)
<1>1. n \in Nat /\ t \in Seq(Digits(base)) /\ Len(t) = n + 1 /\ t[n + 1] = c
      /\ \A k \in 1..n : t[k] = s[k]
  OBVIOUS
<1>2. PICK f \in [0..n -> Nat] :
         /\ Value(s, base) = f[n]
         /\ f[0] = 0
         /\ \A k \in 1..n : f[k] = base * f[k - 1] + hexCharToDec(s[k])
  BY ValueRecursion
<1> HIDE DEF n, t
<1>3. PICK g \in [0..(n + 1) -> Nat] :
         /\ Value(t, base) = g[n + 1]
         /\ g[0] = 0
         /\ \A k \in 1..(n + 1) : g[k] = base * g[k - 1] + hexCharToDec(t[k])
  <2>1. t \in Seq(Digits(base))
    BY <1>1
  <2>2. PICK g \in [0..Len(t) -> Nat] :
           /\ Value(t, base) = g[Len(t)]
           /\ g[0] = 0
           /\ \A k \in 1..Len(t) : g[k] = base * g[k - 1] + hexCharToDec(t[k])
    BY <2>1, ValueRecursion
  <2>3. Len(t) = n + 1
    BY <1>1
  <2>4. QED BY <2>2, <2>3
<1> DEFINE D == {k \in 0..n : g[k] # f[k]}
<1>4. D = {}
  <2> SUFFICES ASSUME D # {} PROVE FALSE
    OBVIOUS
  <2>1. D \subseteq Nat
    OBVIOUS
  <2>2. PICK m \in D : \A y \in D : m <= y
    BY <2>1, Least
  <2>3. m \in 0..n /\ g[m] # f[m]
    OBVIOUS
  <2>4. m # 0
    BY <1>2, <1>3, <2>3
  <2>5. m - 1 \in 0..n /\ ~(m <= m - 1) /\ m \in 1..n /\ m \in 1..(n + 1)
    BY <1>1, <2>3, <2>4
  <2>6. g[m - 1] = f[m - 1]
    BY <2>2, <2>5
  <2> HIDE DEF D
  <2>7. g[m] = base * g[m - 1] + hexCharToDec(t[m])
    BY <1>3, <2>5
  <2>8. f[m] = base * f[m - 1] + hexCharToDec(s[m])
    BY <1>2, <2>5
  <2>9. t[m] = s[m]
    BY <1>1, <2>5
  <2>10. QED BY <2>3, <2>6, <2>7, <2>8, <2>9
<1>5. g[n] = f[n]
  BY <1>1, <1>4
<1> HIDE DEF D
<1>6. g[n + 1] = base * g[n] + hexCharToDec(c)
  <2>1. n + 1 \in 1..(n + 1) /\ (n + 1) - 1 = n
    BY <1>1
  <2>2. g[n + 1] = base * g[(n + 1) - 1] + hexCharToDec(t[n + 1])
    BY <1>3, <2>1
  <2>3. QED BY <2>1, <2>2, <1>1
<1>7. f[n] \in Nat
  BY <1>1
<1>8. QED BY <1>2, <1>3, <1>5, <1>6, <1>7 DEF t

\* Numeral satisfies its recursive definition.
LEMMA NumeralRecursion ==
    ASSUME NEW base \in Bases, NEW n \in Nat
    PROVE  \E f \in [0..n -> Seq(Digits(base))] :
              /\ Numeral(n, base) = f[n]
              /\ \A k \in 0..n : f[k] = IF k < base THEN <<Digit[k + 1]>>
                                        ELSE Append(f[k \div base], Digit[(k % base) + 1])
<1> DEFINE T == Seq(Digits(base))
           stop == 0..(base - 1)
           init == [k \in 0..n |-> IF k < base THEN <<Digit[k + 1]>> ELSE <<>>]
           prev == [k \in 0..n |-> k \div base]
           step == [k \in 0..n |-> [x \in T |-> Append(x, Digit[(k % base) + 1])]]
<1>1. \A k \in Nat : /\ k % base \in 0..(base - 1) /\ k \div base \in Int
                     /\ k < base <=> k \in stop
                     /\ k >= base => k \div base \in 0..(k - 1)
  <2>1. CASE base = 10
    BY <2>1
  <2>2. CASE base = 16
    BY <2>2
  <2>3. QED BY <2>1, <2>2 DEF Bases
<1>2. \A d \in 0..(base - 1) : Digit[d + 1] \in Digits(base)
  BY DigitValue
<1>3. \A k \in Nat : Digit[(k % base) + 1] \in Digits(base)
  BY <1>1, <1>2
<1>4. \A k \in Nat : k < base => <<Digit[k + 1]>> \in T
  <2> TAKE k \in Nat
  <2>1. k < base => Digit[k + 1] \in Digits(base)
    BY <1>1, <1>2
  <2> HIDE DEF stop
  <2>2. QED BY <2>1
<1>5. init \in [0..n -> T]
  <2>1. <<>> \in T
    OBVIOUS
  <2> HIDE DEF T
  <2>2. QED BY <1>4, <2>1
<1>6. step \in [0..n -> [T -> T]]
  <2>1. ASSUME NEW k \in 0..n, NEW x \in T PROVE Append(x, Digit[(k % base) + 1]) \in T
    <3>1. k \in Nat
      OBVIOUS
    <3>2. Digit[(k % base) + 1] \in Digits(base)
      BY <3>1, <1>3
    <3>3. QED BY <3>2
  <2> HIDE DEF T
  <2>2. QED BY <2>1
<1>7. prev \in [0..n -> Int] /\ \A k \in 0..n : k \notin stop => prev[k] \in 0..(k - 1)
  <2>1. \A k \in 0..n : k \in Nat
    OBVIOUS
  <2>2. base \in Int
    BY DEF Bases
  <2>3. \A k \in Nat : k >= base \/ k < base
    BY <2>2
  <2> HIDE DEF stop
  <2>4. QED BY <1>1, <2>1, <2>3
<1>8. PICK f \in [0..n -> T] : Solves(f, n, stop, init, prev, step)
  <2> HIDE DEF T, stop, init, prev, step
  <2>1. IsRecursion(n, T, stop, init, prev, step)
    BY <1>5, <1>6, <1>7 DEF IsRecursion
  <2>2. QED BY <2>1, Recursion
<1>9. \A k \in 0..n : f[k] = IF k < base THEN <<Digit[k + 1]>>
                             ELSE Append(f[k \div base], Digit[(k % base) + 1])
  <2> TAKE k \in 0..n
  <2>0. k \in Nat
    OBVIOUS
  <2> HIDE DEF stop, T
  <2>1. k \in Nat /\ (k < base <=> k \in stop)
    BY <2>0, <1>1
  <2>2. f[k] = IF k \in stop THEN init[k] ELSE step[k][f[prev[k]]]
    BY <1>8 DEF Solves
  <2>3. CASE k < base
    BY <2>1, <2>2, <2>3
  <2>4. CASE ~(k < base)
    <3>1. k \div base \in 0..n
      <4>1. base \in Int /\ k >= base
        BY <2>1, <2>4 DEF Bases
      <4>2. k \div base \in 0..(k - 1)
        BY <4>1, <2>1, <1>1
      <4>3. QED BY <4>2
    <3>2. f[k \div base] \in T
      BY <3>1
    <3>3. f[k] = step[k][f[k \div base]]
      BY <2>1, <2>2, <2>4
    <3>4. QED BY <3>2, <3>3, <2>4
  <2>5. QED BY <2>3, <2>4
<1> HIDE DEF T, stop, init, prev, step
<1>10. f = [k \in 0..n |-> IF k < base THEN <<Digit[k + 1]>>
                           ELSE Append(f[k \div base], Digit[(k % base) + 1])]
  BY <1>9
<1>11. PICK g : /\ g = [k \in 0..n |-> IF k < base THEN <<Digit[k + 1]>>
                                       ELSE Append(g[k \div base], Digit[(k % base) + 1])]
                /\ Numeral(n, base) = g[n]
  BY <1>10, Zenon DEF Numeral
<1>12. g = f
  <2> DEFINE D == {k \in 0..n : g[k] # f[k]}
  <2>1. D = {}
    <3> SUFFICES ASSUME D # {} PROVE FALSE
      OBVIOUS
    <3>1. D \subseteq Nat
      OBVIOUS
    <3>2. PICK m \in D : \A y \in D : m <= y
      BY <3>1, Least
    <3>3. m \in 0..n /\ g[m] # f[m]
      OBVIOUS
    <3>4. m >= base
      <4>1. base \in Int /\ m \in Int
        BY <3>3 DEF Bases
      <4>2. m < base => g[m] = f[m]
        BY <1>9, <1>11, <3>3
      <4>3. QED BY <4>1, <4>2, <3>3
    <3>5. m \div base \in 0..(m - 1)
      BY <1>1, <3>3, <3>4
    <3>6. m \div base \in 0..n /\ ~(m <= m \div base)
      BY <3>3, <3>5
    <3>7. g[m \div base] = f[m \div base]
      BY <3>2, <3>6
    <3>8. ~(m < base)
      BY <3>3, <3>4 DEF Bases
    <3> HIDE DEF D
    <3>9. g[m] = Append(g[m \div base], Digit[(m % base) + 1])
      BY <1>11, <3>3, <3>8
    <3>10. f[m] = Append(f[m \div base], Digit[(m % base) + 1])
      BY <1>9, <3>3, <3>8
    <3>11. QED BY <3>3, <3>7, <3>9, <3>10
  <2>2. \A k \in 0..n : g[k] = f[k]
    BY <2>1
  <2>3. g = [k \in 0..n |-> g[k]]
    BY <1>11
  <2>4. QED BY <2>2, <2>3
<1>13. QED BY <1>9, <1>11, <1>12 DEF T

\* The number whose digits are pushed back when the input ends is the number that
\* is read again: nothing is lost of a length or of the size of a chunk, whatever
\* its value, by writing it as a numeral of the base it is read with.
THEOREM NumberSurvives ==
    ASSUME NEW base \in {10, 16}, NEW n \in Nat
    PROVE  /\ Numeral(n, base) \in Seq(Digits(base))
           /\ Value(Numeral(n, base), base) = n
<1>0. base \in Bases /\ base \in Nat
  BY DEF Bases
<1>1. PICK f \in [0..n -> Seq(Digits(base))] :
         /\ Numeral(n, base) = f[n]
         /\ \A k \in 0..n : f[k] = IF k < base THEN <<Digit[k + 1]>>
                                   ELSE Append(f[k \div base], Digit[(k % base) + 1])
  BY <1>0, NumeralRecursion
<1>2. \A d \in 0..(base - 1) : Digit[d + 1] \in Digits(base) /\ hexCharToDec(Digit[d + 1]) = d
  BY <1>0, DigitValue
<1>3. Value(<<>>, base) = 0
  <2>1. <<>> \in Seq(Digits(base)) /\ Len(<<>>) = 0
    OBVIOUS
  <2>2. QED BY <1>0, <2>1, ValueRecursion
<1>4. \A d \in 0..(base - 1) : Value(<<Digit[d + 1]>>, base) = d
  <2> TAKE d \in 0..(base - 1)
  <2> DEFINE c == Digit[d + 1]
  <2>1. c \in Digits(base) /\ hexCharToDec(c) = d
    BY <1>2
  <2> HIDE DEF c
  <2>2. <<>> \in Seq(Digits(base)) /\ Append(<<>>, c) = <<c>>
    OBVIOUS
  <2>3. Value(Append(<<>>, c), base) = base * Value(<<>>, base) + hexCharToDec(c)
    BY <1>0, <2>1, <2>2, ValueAppend
  <2>4. QED BY <1>0, <1>3, <2>1, <2>2, <2>3 DEF c
<1>5. \A k \in Nat : /\ k % base \in 0..(base - 1)
                     /\ k >= base => k \div base \in 0..(k - 1)
                     /\ k = base * (k \div base) + (k % base)
  <2>1. CASE base = 10
    BY <2>1
  <2>2. CASE base = 16
    BY <2>2
  <2>3. QED BY <2>1, <2>2
<1> DEFINE D == {k \in 0..n : Value(f[k], base) # k}
<1>6. D = {}
  <2> SUFFICES ASSUME D # {} PROVE FALSE
    OBVIOUS
  <2>1. D \subseteq Nat
    OBVIOUS
  <2>2. PICK m \in D : \A y \in D : m <= y
    BY <2>1, Least
  <2>3. m \in 0..n /\ m \in Nat /\ Value(f[m], base) # m
    OBVIOUS
  <2>4. CASE m < base
    <3>1. m \in 0..(base - 1)
      BY <1>0, <2>3, <2>4
    <3>2. f[m] = <<Digit[m + 1]>>
      BY <1>1, <2>3, <2>4
    <3> HIDE DEF D
    <3>3. QED BY <1>4, <2>3, <3>1, <3>2
  <2>5. CASE m >= base
    <3> DEFINE j == m \div base
               d == m % base
    <3>1. j \in 0..(m - 1) /\ d \in 0..(base - 1) /\ m = base * j + d
      BY <1>5, <2>3, <2>5
    <3>2. ~(m < base)
      BY <1>0, <2>3, <2>5
    <3>3. f[m] = Append(f[j], Digit[d + 1])
      BY <1>1, <2>3, <3>2
    <3> HIDE DEF j, d
    <3>4. j \in 0..n /\ ~(m <= j)
      BY <2>3, <3>1
    <3>5. Value(f[j], base) = j /\ f[j] \in Seq(Digits(base))
      BY <2>2, <3>4
    <3> HIDE DEF D
    <3>6. Digit[d + 1] \in Digits(base) /\ hexCharToDec(Digit[d + 1]) = d
      BY <1>2, <3>1
    <3>7. Value(Append(f[j], Digit[d + 1]), base)
             = base * Value(f[j], base) + hexCharToDec(Digit[d + 1])
      BY <1>0, <3>5, <3>6, ValueAppend
    <3>8. QED BY <2>3, <3>1, <3>3, <3>5, <3>6, <3>7
  <2>6. QED BY <1>0, <2>3, <2>4, <2>5
<1>7. n \in 0..n
  OBVIOUS
<1>8. QED BY <1>1, <1>6, <1>7

-----------------------------------------------------------------------------
(* Symbols and buffers. *)

\* What the parser itself writes or pushes back.
Literals ==
    {NUL, CR, LF, SP, "H", "TTP", "/1.", "C", "ON", "TENT-", "NECTION:", "L", "E", "T",
     "ENGTH:", "NCODING:", "YPE:", "RANSFER-ENCODING:", "CHUNK", "ED", "GZ", "IP", "close",
     "Transfer-Encoding: chunked", "Connection: close"}
    \cup Digits(10) \cup Digits(16)

Symbols == (UNION {{Text(r)[k] : k \in DOMAIN Text(r)} : r \in Responses}) \cup Literals

\* The input, whose write pointer is at most Cap - low above the reserved zone,
\* and an output of cap bytes.
Inputs(low) ==
    {b \in [q : Seq(Symbols), room : 0..Cap] : low <= b.room /\ Len(b.q) + b.room <= Cap + Reserve}
Outputs(cap) ==
    {b \in [q : Seq(Symbols), room : 0..cap] : Len(b.q) + b.room = cap}

\* NonZero of a sequence of symbols is one.
LEMMA NonZeroSeq ==
    ASSUME NEW S, NEW s \in Seq(S)
    PROVE  NonZero(s) \in Seq(S)
<1> DEFINE T == Seq(S)
           n == Len(s)
           stop == {0}
           init == [k \in 0..n |-> <<>>]
           prev == [k \in 0..n |-> k - 1]
           step == [k \in 0..n |-> [x \in T |->
                       IF k = 0 \/ s[k] = NUL THEN x ELSE Append(x, s[k])]]
<1>1. n \in Nat
  OBVIOUS
<1>2. step \in [0..n -> [T -> T]]
  <2>1. ASSUME NEW k \in 0..n, NEW x \in T
        PROVE  (IF k = 0 \/ s[k] = NUL THEN x ELSE Append(x, s[k])) \in T
    <3>1. k # 0 => s[k] \in S
      BY <1>1
    <3>2. QED BY <3>1
  <2> HIDE DEF T, n
  <2>2. QED BY <2>1
<1>3. init \in [0..n -> T]
  OBVIOUS
<1>4. prev \in [0..n -> Int] /\ \A k \in 0..n : k \notin stop => prev[k] \in 0..(k - 1)
  BY <1>1
<1>5. PICK f \in [0..n -> T] : Solves(f, n, stop, init, prev, step)
  <2> HIDE DEF T, n, stop, init, prev, step
  <2>1. IsRecursion(n, T, stop, init, prev, step)
    BY <1>1, <1>2, <1>3, <1>4 DEF IsRecursion
  <2>2. QED BY <2>1, Recursion
<1> HIDE DEF n, T
<1>6. \A k \in 0..n : f[k] = IF k = 0 THEN <<>>
                             ELSE IF s[k] = NUL THEN f[k - 1] ELSE Append(f[k - 1], s[k])
  <2> TAKE k \in 0..n
  <2>1. f[k] = IF k \in stop THEN init[k] ELSE step[k][f[prev[k]]]
    BY <1>5 DEF Solves
  <2>2. CASE k = 0
    BY <2>1, <2>2
  <2>3. CASE k # 0
    <3>1. k - 1 \in 0..n
      BY <1>1, <2>3
    <3>2. f[k - 1] \in T
      BY <3>1
    <3>3. f[k] = step[k][f[k - 1]]
      BY <2>1, <2>3
    <3>4. QED BY <2>3, <3>2, <3>3
  <2>4. QED BY <2>2, <2>3
<1> HIDE DEF stop, init, prev, step
<1>7. f = [k \in 0..n |-> IF k = 0 THEN <<>>
                          ELSE IF s[k] = NUL THEN f[k - 1] ELSE Append(f[k - 1], s[k])]
  BY <1>6
<1>8. PICK g : /\ g = [k \in 0..n |-> IF k = 0 THEN <<>>
                                      ELSE IF s[k] = NUL THEN g[k - 1] ELSE Append(g[k - 1], s[k])]
               /\ NonZero(s) = g[n]
  BY <1>7, Zenon DEF NonZero, n
<1> DEFINE D == {k \in 0..n : g[k] \notin T}
<1>9. D = {}
  <2> SUFFICES ASSUME D # {} PROVE FALSE
    OBVIOUS
  <2>1. D \subseteq Nat
    OBVIOUS
  <2>2. PICK m \in D : \A y \in D : m <= y
    BY <2>1, Least
  <2>3. m \in 0..n /\ g[m] \notin T
    OBVIOUS
  <2>4. m # 0
    <3>1. g[0] = <<>> /\ <<>> \in T
      BY <1>1, <1>8 DEF T
    <3>2. QED BY <2>3, <3>1
  <2>5. m - 1 \in 0..n /\ ~(m <= m - 1) /\ m \in 1..n
    BY <1>1, <2>3, <2>4
  <2>6. g[m - 1] \in T
    BY <2>2, <2>5
  <2> HIDE DEF D
  <2>7. g[m] = IF s[m] = NUL THEN g[m - 1] ELSE Append(g[m - 1], s[m])
    BY <1>8, <2>3, <2>4
  <2>8. s[m] \in S
    BY <2>5 DEF n
  <2>9. QED BY <2>3, <2>6, <2>7, <2>8 DEF T
<1>10. n \in 0..n
  BY <1>1
<1>11. QED BY <1>8, <1>9, <1>10 DEF T

\* A queue with the right parts is an input, or an output.
LEMMA MakeInput ==
    ASSUME NEW low \in Int, NEW q \in Seq(Symbols), NEW room \in 0..Cap,
           low <= room, Len(q) + room <= Cap + Reserve
    PROVE  [q |-> q, room |-> room] \in Inputs(low)
BY DEF Inputs

\* The same of an output.
LEMMA MakeOutput ==
    ASSUME NEW cap \in Nat, NEW q \in Seq(Symbols), NEW room \in 0..cap, Len(q) + room = cap
    PROVE  [q |-> q, room |-> room] \in Outputs(cap)
BY DEF Outputs

\* Reading keeps an input within its limits: buffer_read_adv only gives room back.
LEMMA AdvancedInput ==
    ASSUME NEW low \in Int, low <= Cap, NEW b \in Inputs(low), NEW k \in 0..Len(b.q)
    PROVE  /\ Advanced(b, k, Cap) \in Inputs(low)
           /\ Len(Advanced(b, k, Cap).q) = Len(b.q) - k
<1> DEFINE rest == SubSeq(b.q, k + 1, Len(b.q))
           room == IF rest = <<>> THEN Cap ELSE b.room
<1>1. b.q \in Seq(Symbols) /\ b.room \in 0..Cap /\ low <= b.room
      /\ Len(b.q) + b.room <= Cap + Reserve /\ Len(b.q) \in Nat
  BY DEF Inputs
<1>2. rest \in Seq(Symbols) /\ Len(rest) = Len(b.q) - k
  BY <1>1, SubSeqProperties
<1>3. Advanced(b, k, Cap) = [q |-> rest, room |-> room]
  BY DEF Advanced
<1>4. room \in 0..Cap /\ low <= room /\ Len(rest) + room <= Cap + Reserve
  <2>1. CASE rest = <<>>
    <3>1. room = Cap /\ Len(rest) = 0
      BY <2>1
    <3> HIDE DEF room, rest
    <3>2. QED BY <3>1, BufferAssumption
  <2>2. CASE rest # <<>>
    BY <2>2, <1>1, <1>2, BufferAssumption
  <2>3. QED BY <2>1, <2>2
<1> HIDE DEF rest, room
<1>5. [q |-> rest, room |-> room] \in Inputs(low)
  BY <1>2, <1>4, MakeInput
<1>6. QED BY <1>2, <1>3, <1>5

\* Pushing back keeps an input within its limits: what does not fit is dropped.
LEMMA PushedInput ==
    ASSUME NEW low \in Int, NEW b \in Inputs(low), NEW s \in Seq(Symbols)
    PROVE  /\ writeToBufReverse(s, b) \in Inputs(low)
           /\ \E back \in Seq(Symbols) :
                 /\ writeToBufReverse(s, b).q = back \o b.q
                 /\ back # <<>> => \E k \in 1..Len(s) : back[1] = s[k]
<1> DEFINE n == Smaller(Len(s), Cap + Reserve - b.room - Len(b.q))
           back == SubSeq(s, Len(s) - n + 1, Len(s))
<1>1. b.q \in Seq(Symbols) /\ b.room \in 0..Cap /\ low <= b.room
      /\ Len(b.q) + b.room <= Cap + Reserve /\ Len(b.q) \in Nat /\ Len(s) \in Nat
      /\ b \in [q : Seq(Symbols), room : 0..Cap]
  BY DEF Inputs
<1>2. n \in 0..Len(s) /\ n + b.room + Len(b.q) <= Cap + Reserve
  BY <1>1, BufferAssumption DEF Smaller
<1>3. writeToBufReverse(s, b) = [q |-> back \o b.q, room |-> b.room]
  <2>1. writeToBufReverse(s, b) = [b EXCEPT !.q = back \o b.q]
    BY Zenon DEF writeToBufReverse
  <2> HIDE DEF back
  <2>2. QED BY <1>1, <2>1
<1> HIDE DEF n
<1>4. back \in Seq(Symbols) /\ Len(back) = n
  <2>1. Len(s) - n + 1 \in 1..(Len(s) + 1)
    BY <1>1, <1>2
  <2>2. QED BY <1>1, <1>2, <2>1, SubSeqProperties
<1>5. back # <<>> => \E k \in 1..Len(s) : back[1] = s[k]
  <2> SUFFICES ASSUME back # <<>> PROVE \E k \in 1..Len(s) : back[1] = s[k]
    OBVIOUS
  <2>1. n # 0
    BY <1>4, EmptySeq
  <2>2. Len(s) - n + 1 \in 1..Len(s)
    BY <1>1, <1>2, <2>1
  <2>3. back[1] = s[Len(s) - n + 1]
    BY <1>1, <1>2, <2>1, <2>2
  <2>4. QED BY <2>2, <2>3
<1> HIDE DEF back
<1>6. back \o b.q \in Seq(Symbols) /\ Len(back \o b.q) = n + Len(b.q)
  BY <1>1, <1>4, ConcatProperties
<1>7. [q |-> back \o b.q, room |-> b.room] \in Inputs(low)
  <2>1. Len(back \o b.q) + b.room <= Cap + Reserve
    BY <1>1, <1>2, <1>6, BufferAssumption
  <2>2. QED BY <1>1, <1>6, <2>1, MakeInput
<1>8. writeToBufReverse(s, b).q = back \o b.q
  BY <1>3
<1>9. QED BY <1>3, <1>4, <1>5, <1>7, <1>8, Zenon

\* Writing keeps an output within its limits, and full of what was written.
LEMMA WrittenOutput ==
    ASSUME NEW cap \in Nat, NEW b \in Outputs(cap), NEW s \in Seq(Symbols)
    PROVE  writeToBuf(s, b) \in Outputs(cap)
<1> DEFINE n == Smaller(Len(s), b.room)
           t == SubSeq(s, 1, n)
<1>1. b.q \in Seq(Symbols) /\ b.room \in 0..cap /\ Len(b.q) + b.room = cap
      /\ Len(b.q) \in Nat /\ Len(s) \in Nat
  BY DEF Outputs
<1>2. n \in 0..Len(s) /\ n <= b.room
  BY <1>1 DEF Smaller
<1>3. writeToBuf(s, b) = [q |-> b.q \o t, room |-> b.room - Len(t)]
  BY DEF writeToBuf, Filled
<1> HIDE DEF n
<1>4. t \in Seq(Symbols) /\ Len(t) = n
  BY <1>1, <1>2, SubSeqProperties
<1> HIDE DEF t
<1>5. b.q \o t \in Seq(Symbols) /\ Len(b.q \o t) = Len(b.q) + n
  BY <1>1, <1>4, ConcatProperties
<1>6. b.room - n \in 0..cap /\ Len(b.q \o t) + (b.room - n) = cap
  BY <1>1, <1>2, <1>5
<1>7. QED BY <1>3, <1>4, <1>5, <1>6, MakeOutput

\* buffer_write is writeToBuf of one byte.
LEMMA WrittenByte ==
    ASSUME NEW cap \in Nat, NEW b \in Outputs(cap), NEW c \in Symbols
    PROVE  Written(b, c) \in Outputs(cap)
<1>1. b.q \in Seq(Symbols) /\ b.room \in 0..cap /\ Len(b.q) + b.room = cap /\ Len(b.q) \in Nat
  BY DEF Outputs
<1>2. CASE b.room > 0
  <2>1. Written(b, c) = [q |-> b.q \o <<c>>, room |-> b.room - 1]
    BY <1>2 DEF Written, CanWrite, Filled
  <2>2. b.q \o <<c>> \in Seq(Symbols) /\ Len(b.q \o <<c>>) = Len(b.q) + 1
    BY <1>1
  <2>3. b.room - 1 \in 0..cap /\ Len(b.q \o <<c>>) + (b.room - 1) = cap
    BY <1>1, <1>2, <2>2
  <2>4. QED BY <2>1, <2>2, <2>3, MakeOutput
<1>3. CASE ~(b.room > 0)
  BY <1>3 DEF Written, CanWrite
<1>4. QED BY <1>2, <1>3

\* How far the input matches: Run and Matched stop within it.
LEMMA RunFound ==
    ASSUME NEW S, NEW T, NEW s \in Seq(T)
    PROVE  /\ Run(s, S) \in 0..Len(s)
           /\ \A k \in 1..Run(s, S) : s[k] \in S
<1>1. \E n \in 0..Len(s) : (\A k \in 1..n : s[k] \in S) /\ (n < Len(s) => s[n + 1] \notin S)
  <2> DEFINE Bad == {k \in 1..Len(s) : s[k] \notin S}
  <2>1. Len(s) \in Nat
    OBVIOUS
  <2>2. PICK m \in 0..Len(s) : (\A k \in 1..m : k \notin Bad) /\ (m < Len(s) => m + 1 \in Bad)
    <3> HIDE DEF Bad
    <3>1. QED BY <2>1, LoopStops
  <2>3. (\A k \in 1..m : s[k] \in S) /\ (m < Len(s) => s[m + 1] \notin S)
    BY <2>1, <2>2
  <2>4. QED BY <2>3
<1>2. QED BY <1>1 DEF Run

\* The same of Matched.
LEMMA MatchedFound ==
    ASSUME NEW T, NEW fmt \in Seq(T), NEW q \in Seq(T)
    PROVE  /\ Matched(fmt, q) \in 0..Len(fmt) /\ Matched(fmt, q) \in 0..Len(q)
           /\ \A k \in 1..Matched(fmt, q) : ToUpper(q[k]) = fmt[k]
<1> DEFINE n == Smaller(Len(fmt), Len(q))
           Bad == {k \in 1..n : ToUpper(q[k]) # fmt[k]}
<1>1. n \in Nat /\ n <= Len(fmt) /\ n <= Len(q) /\ Len(fmt) \in Nat /\ Len(q) \in Nat
  BY DEF Smaller
<1> HIDE DEF n
<1>2. PICK m \in 0..n : (\A k \in 1..m : k \notin Bad) /\ (m < n => m + 1 \in Bad)
  <2> HIDE DEF Bad
  <2>1. QED BY <1>1, LoopStops
<1>3. (\A k \in 1..m : ToUpper(q[k]) = fmt[k]) /\ (m < n => ToUpper(q[m + 1]) # fmt[m + 1])
  BY <1>1, <1>2
<1>4. Matched(fmt, q) \in 0..n /\ \A k \in 1..Matched(fmt, q) : ToUpper(q[k]) = fmt[k]
  BY <1>2, <1>3 DEF Matched, n
<1>5. QED BY <1>1, <1>4

-----------------------------------------------------------------------------
(* What the functions of ParserUtils do to the parser's data. *)

Results == {"RES_OK", "RES_VERSION_ERROR", "STATUS_ERROR", "CHUNKS_ERROR"}

\* The parser's data when its input's room is at least low and its outputs have
\* out and transf bytes.
Data(low, out, transf) ==
    [parserState : ParserStates, next : ParserStates, empty : BOOLEAN, ok : BOOLEAN,
     state : Results, version : {"UNDEFINED", "V_1_0", "V_1_1"}, status : Nat,
     num : {n \in Int : n >= NO_BODY_LENGTH}, cEncoding : {"IDENTITY", "GZIP"},
     isClose : BOOLEAN, isChunked : BOOLEAN, withTransf : BOOLEAN, more : BOOLEAN,
     in : Inputs(low), out : Outputs(out), transf : Outputs(transf)]

Sizes(low, out, transf) == low \in Int /\ low <= Cap /\ out \in Nat /\ transf \in Nat

\* t differs from s in its buffers and its results only.
Kept(s, t) == t.parserState = s.parserState /\ t.next = s.next /\ t.more = s.more

\* The input was read, nothing was pushed back.
Read(s, t, k) == Kept(s, t) /\ t.num = s.num /\ t.empty = s.empty /\ Len(t.in.q) = Len(s.in.q) - k

\* The types of the fields that the proofs use.
LEMMA Fields ==
    ASSUME NEW low, NEW oc, NEW tc, NEW s \in Data(low, oc, tc)
    PROVE  /\ s.in \in Inputs(low) /\ s.out \in Outputs(oc) /\ s.transf \in Outputs(tc)
           /\ s.in.q \in Seq(Symbols) /\ Len(s.in.q) \in Nat
           /\ s.ok \in BOOLEAN /\ s.empty \in BOOLEAN /\ s.more \in BOOLEAN
           /\ s.next \in ParserStates /\ s.parserState \in ParserStates
           /\ s.num \in Int /\ s.num >= NO_BODY_LENGTH
BY DEF Data, Inputs

\* buffer_read, k times.
LEMMA SkipData ==
    ASSUME NEW low, NEW oc, NEW tc, Sizes(low, oc, tc), NEW s \in Data(low, oc, tc),
           NEW k \in 0..Len(s.in.q)
    PROVE  Skip(s, k) \in Data(low, oc, tc) /\ Read(s, Skip(s, k), k)
           /\ Skip(s, k).in = Advanced(s.in, k, Cap) /\ Skip(s, k).out = s.out
<1> DEFINE i == Advanced(s.in, k, Cap)
<1>1. i \in Inputs(low) /\ Len(i.q) = Len(s.in.q) - k
  BY Fields, AdvancedInput DEF Sizes
<1>2. Skip(s, k) = [s EXCEPT !.in = i]
  BY Zenon DEF Skip
<1> HIDE DEF i
<1>3. QED BY <1>1, <1>2 DEF Data, Read, Kept, i

\* readAndWrite, k times, and readAndWriteWithZero.
LEMMA CopiedData ==
    ASSUME NEW low, NEW oc, NEW tc, Sizes(low, oc, tc), NEW s \in Data(low, oc, tc),
           NEW k \in 0..Len(s.in.q), NEW zero
    PROVE  /\ Copied(s, k, zero) \in Data(low, oc, tc)
           /\ Read(s, Copied(s, k, zero), k)
           /\ Copied(s, k, zero).in = Advanced(s.in, k, Cap)
<1> DEFINE fresh == SubSeq(s.in.q, Smaller(Reserved(s.in), k) + 1, k)
           w == IF zero THEN fresh ELSE NonZero(fresh)
           o == writeToBuf(w, s.out)
           t == [Skip(s, k) EXCEPT !.out = o]
<1>1. fresh \in Seq(Symbols)
  <2> DEFINE m == Smaller(Reserved(s.in), k) + 1
  <2>1. s.in.q \in Seq(Symbols) /\ Len(s.in.q) \in Nat /\ s.in.room \in Nat /\ Cap \in Nat
    BY Fields, BufferAssumption DEF Inputs
  <2>2. m \in 1..(k + 1)
    BY <2>1 DEF Smaller, Reserved, Larger
  <2> HIDE DEF m
  <2>3. SubSeq(s.in.q, m, k) \in Seq(Symbols)
    BY <2>1, <2>2, SubSeqProperties
  <2>4. QED BY <2>3 DEF m
<1> HIDE DEF fresh
<1>2. w \in Seq(Symbols)
  BY <1>1, NonZeroSeq
<1> HIDE DEF w
<1>3. o \in Outputs(oc)
  BY <1>2, Fields, WrittenOutput DEF Sizes
<1>4. Skip(s, k) \in Data(low, oc, tc) /\ Read(s, Skip(s, k), k) /\ Skip(s, k).out = s.out
      /\ Skip(s, k).in = Advanced(s.in, k, Cap)
  BY SkipData
<1>5. Copied(s, k, zero) = t
  BY <1>4 DEF Copied, fresh, w
<1> HIDE DEF o
<1>6. t \in Data(low, oc, tc) /\ Read(s, t, k) /\ t.in = Advanced(s.in, k, Cap)
  BY <1>3, <1>4 DEF Data, Read, Kept
<1> HIDE DEF t
<1>7. QED BY <1>5, <1>6

\* readAndWrite, k times.
LEMMA ReadWriteData ==
    ASSUME NEW low, NEW oc, NEW tc, Sizes(low, oc, tc), NEW s \in Data(low, oc, tc),
           NEW k \in 0..Len(s.in.q)
    PROVE  /\ readAndWrite(s, k) \in Data(low, oc, tc)
           /\ Read(s, readAndWrite(s, k), k)
           /\ readAndWrite(s, k).in = Advanced(s.in, k, Cap)
<1> DEFINE z == FALSE
<1>1. readAndWrite(s, k) = Copied(s, k, z)
  BY Zenon DEF readAndWrite
<1> HIDE DEF z
<1>2. QED BY <1>1, CopiedData

\* A function ended for want of input, with what it read pushed back, or it read
\* some of the input and pushed nothing back.
Stops(s, t) == Kept(s, t) /\ t.ok = FALSE /\ t.empty = TRUE
Reads(s, t) == Kept(s, t) /\ t.empty = s.empty /\ Len(t.in.q) <= Len(s.in.q)

\* What comes of matching n symbols of fmt.
MatchResult(s, t, fmt, n) ==
    /\ t.num = s.num
    /\ Stops(s, t) \/ Reads(s, t)
    /\ t.ok => Reads(s, t) /\ n = Len(fmt) /\ Len(t.in.q) = Len(s.in.q) - Len(fmt)

\* Pushing back for want of input.
LEMMA StarvedData ==
    ASSUME NEW low, NEW oc, NEW tc, Sizes(low, oc, tc), NEW s \in Data(low, oc, tc),
           NEW read \in Seq(Symbols)
    PROVE  LET t == Starved(s, read)
           IN  t \in Data(low, oc, tc) /\ Stops(s, t) /\ t.num = s.num
               /\ t.in = writeToBufReverse(read, s.in)
<1> DEFINE i == writeToBufReverse(read, s.in)
           t == [s EXCEPT !.in = i, !.empty = TRUE, !.ok = FALSE]
<1>1. i \in Inputs(low)
  BY Fields, PushedInput DEF Sizes
<1>2. Starved(s, read) = t
  BY Zenon DEF Starved
<1> HIDE DEF i
<1>3. t \in Data(low, oc, tc) /\ Stops(s, t) /\ t.num = s.num /\ t.in = i
  BY <1>1 DEF Data, Stops, Kept
<1> HIDE DEF t
<1>4. QED BY <1>2, <1>3 DEF i

\* The end of matchFormat and of simpleMatchFormat: u is s after reading n symbols.
LEMMA MatchEndData ==
    ASSUME NEW low, NEW oc, NEW tc, Sizes(low, oc, tc), NEW s \in Data(low, oc, tc),
           NEW u \in Data(low, oc, tc), NEW fmt \in Seq(Symbols), NEW prefix \in Seq(Symbols),
           NEW n \in 0..Len(fmt), n <= Len(s.in.q), Read(s, u, n),
           NEW t, t = MatchEnd(fmt, n, u, prefix)
    PROVE  t \in Data(low, oc, tc) /\ MatchResult(s, t, fmt, n)
<1>0. Len(s.in.q) \in Nat /\ Len(fmt) \in Nat
  BY Fields
<1>1. CASE n < Len(fmt) /\ Peek(u.in) = NUL
  <2> DEFINE back == prefix \o SubSeq(fmt, 1, n)
  <2>1. t = Starved(u, back)
    BY <1>1 DEF MatchEnd
  <2>2. back \in Seq(Symbols)
    <3>1. SubSeq(fmt, 1, n) \in Seq(Symbols)
      BY <1>0, SubSeqProperties
    <3>2. QED BY <3>1, ConcatProperties
  <2> HIDE DEF back
  <2>3. t \in Data(low, oc, tc) /\ Stops(u, t) /\ t.num = u.num
    BY <2>1, <2>2, StarvedData
  <2>4. QED BY <2>3 DEF MatchResult, Stops, Kept, Read
<1>2. CASE ~(n < Len(fmt) /\ Peek(u.in) = NUL)
  <2>1. t = [u EXCEPT !.ok = (n = Len(fmt))]
    BY <1>2, Zenon DEF MatchEnd
  <2>2. t \in Data(low, oc, tc) /\ Kept(u, t) /\ t.num = u.num /\ t.empty = u.empty
        /\ t.in = u.in /\ (t.ok <=> n = Len(fmt))
    BY <2>1 DEF Data, Kept
  <2>3. Kept(s, t) /\ t.num = s.num /\ t.empty = s.empty /\ Len(t.in.q) = Len(s.in.q) - n
    BY <2>2 DEF Kept, Read
  <2>4. Reads(s, t)
    BY <2>3, <1>0 DEF Reads
  <2>5. QED BY <2>2, <2>3, <2>4 DEF MatchResult
<1>3. QED BY <1>1, <1>2

\* matchFormat and simpleMatchFormat.
LEMMA MatchData ==
    ASSUME NEW low, NEW oc, NEW tc, Sizes(low, oc, tc), NEW s \in Data(low, oc, tc),
           NEW fmt \in Seq(Symbols), NEW prefix \in Seq(Symbols)
    PROVE  /\ matchFormat(fmt, s, prefix) \in Data(low, oc, tc)
           /\ MatchResult(s, matchFormat(fmt, s, prefix), fmt, Matched(fmt, s.in.q))
           /\ simpleMatchFormat(fmt, s, prefix) \in Data(low, oc, tc)
           /\ MatchResult(s, simpleMatchFormat(fmt, s, prefix), fmt, Matched(fmt, s.in.q))
<1> DEFINE n == Matched(fmt, s.in.q)
<1>1. s.in.q \in Seq(Symbols) /\ Len(s.in.q) \in Nat
  BY Fields
<1>2. n \in 0..Len(fmt) /\ n \in 0..Len(s.in.q)
  BY <1>1, MatchedFound
<1>3. n <= Len(s.in.q)
  BY <1>1, <1>2
<1> HIDE DEF n
<1>4. readAndWrite(s, n) \in Data(low, oc, tc) /\ Read(s, readAndWrite(s, n), n)
  BY <1>2, ReadWriteData
<1>5. Skip(s, n) \in Data(low, oc, tc) /\ Read(s, Skip(s, n), n)
  BY <1>2, SkipData
<1>6. ASSUME NEW u \in Data(low, oc, tc), Read(s, u, n), NEW t, t = MatchEnd(fmt, n, u, prefix)
      PROVE  t \in Data(low, oc, tc) /\ MatchResult(s, t, fmt, n)
  BY <1>2, <1>3, <1>6, MatchEndData
<1>7. matchFormat(fmt, s, prefix) = MatchEnd(fmt, n, readAndWrite(s, n), prefix)
  BY Zenon DEF matchFormat, n
<1>8. simpleMatchFormat(fmt, s, prefix) = MatchEnd(fmt, n, Skip(s, n), prefix)
  BY Zenon DEF simpleMatchFormat, n
<1>9. QED BY <1>4, <1>5, <1>6, <1>7, <1>8 DEF n

\* What comes of reading a number.
NumberResult(s, t) ==
    /\ Stops(s, t) \/ Reads(s, t)
    /\ t.ok => Reads(s, t) /\ t.num \in Nat /\ Len(t.in.q) < Len(s.in.q)

\* getNumber, getHexNumber and simpleGetHexNumber: a number takes at least a digit.
LEMMA NumberData ==
    ASSUME NEW low, NEW oc, NEW tc, Sizes(low, oc, tc), NEW s \in Data(low, oc, tc),
           NEW base \in Bases, NEW prefix \in Seq(Symbols), NEW copy \in BOOLEAN
    PROVE  /\ ReadNumber(s, base, prefix, copy) \in Data(low, oc, tc)
           /\ NumberResult(s, ReadNumber(s, base, prefix, copy))
<1> DEFINE t == ReadNumber(s, base, prefix, copy)
           n == Run(s.in.q, Digits(base))
           v == Value(SubSeq(s.in.q, 1, n), base)
           u == IF copy THEN readAndWrite(s, n) ELSE Skip(s, n)
<1>1. s.in.q \in Seq(Symbols) /\ Len(s.in.q) \in Nat
  BY Fields
<1>2. n \in 0..Len(s.in.q) /\ \A k \in 1..n : s.in.q[k] \in Digits(base)
  BY <1>1, RunFound
<1>3. v \in Nat
  <2> HIDE DEF n
  <2>1. SubSeq(s.in.q, 1, n) \in Seq(Digits(base))
    <3> DEFINE x == SubSeq(s.in.q, 1, n)
    <3>1. Len(x) = n /\ x = [k \in 1..n |-> s.in.q[k]]
      BY <1>1, <1>2
    <3> HIDE DEF x
    <3>2. x \in [1..n -> Digits(base)] /\ n \in Nat
      BY <3>1, <1>2
    <3>3. x \in Seq(Digits(base))
      BY <3>2, SeqDef
    <3>4. QED BY <3>3 DEF x
  <2>2. Digit[0 + 1] \in Digits(base)
    BY DigitValue DEF Bases
  <2>3. QED BY <2>1, <2>2, ValueAppend
<1> HIDE DEF v, n
<1>4. u \in Data(low, oc, tc) /\ Read(s, u, n) /\ u.in = Advanced(s.in, n, Cap)
  <2>1. CASE copy
    BY <2>1, <1>2, ReadWriteData
  <2>2. CASE ~copy
    BY <2>2, <1>2, SkipData
  <2>3. QED BY <2>1, <2>2
<1>5. t = IF Peek(s.in) # NUL /\ n = 0 THEN [s EXCEPT !.ok = FALSE]
          ELSE IF Peek(u.in) = NUL THEN Starved(u, prefix \o Numeral(v, base))
          ELSE [u EXCEPT !.num = v, !.ok = TRUE]
  BY Zenon DEF ReadNumber, n, v
<1> HIDE DEF t, u
<1>6. CASE Peek(s.in) # NUL /\ n = 0
  <2>1. t = [s EXCEPT !.ok = FALSE]
    BY <1>5, <1>6
  <2>2. t \in Data(low, oc, tc) /\ Kept(s, t) /\ t.empty = s.empty /\ t.in = s.in
        /\ t.ok = FALSE /\ t.num = s.num
    BY <2>1 DEF Data, Kept
  <2>3. Len(t.in.q) <= Len(s.in.q)
    BY <2>2, <1>1
  <2>4. QED BY <2>2, <2>3 DEF NumberResult, Reads, t
<1>7. CASE ~(Peek(s.in) # NUL /\ n = 0) /\ Peek(u.in) = NUL
  <2> DEFINE back == prefix \o Numeral(v, base)
  <2>1. t = Starved(u, back)
    BY <1>5, <1>7
  <2>2. back \in Seq(Symbols)
    <3>1. Numeral(v, base) \in Seq(Digits(base))
      BY <1>3, NumberSurvives DEF Bases
    <3>2. Digits(base) \subseteq Symbols
      BY DEF Bases, Symbols, Literals
    <3>3. Numeral(v, base) \in Seq(Symbols)
      BY <3>1, <3>2, SeqMonotonic
    <3>4. QED BY <3>3, ConcatProperties
  <2> HIDE DEF back
  <2>3. t \in Data(low, oc, tc) /\ Stops(u, t) /\ t.num = u.num
    BY <1>4, <2>1, <2>2, StarvedData
  <2>4. QED BY <2>3, <1>4 DEF NumberResult, Stops, Kept, Read, t
<1>8. CASE ~(Peek(s.in) # NUL /\ n = 0) /\ Peek(u.in) # NUL
  <2>1. t = [u EXCEPT !.num = v, !.ok = TRUE]
    BY <1>5, <1>8
  <2>2. t \in Data(low, oc, tc) /\ Kept(u, t) /\ t.empty = u.empty /\ t.in = u.in
        /\ t.ok = TRUE /\ t.num = v
    <3>1. v \in {m \in Int : m >= NO_BODY_LENGTH}
      BY <1>3 DEF NO_BODY_LENGTH
    <3>2. QED BY <2>1, <3>1, <1>4 DEF Data, Kept
  <2>3. n # 0
    <3> SUFFICES ASSUME n = 0 PROVE FALSE
      OBVIOUS
    <3>1. Peek(s.in) = NUL
      BY <1>8
    <3>2. SubSeq(s.in.q, 1, Len(s.in.q)) = s.in.q
      BY <1>1, SubSeqFull
    <3>3. u.in.q = s.in.q
      BY <1>4, <3>2 DEF Advanced
    <3>4. QED BY <1>8, <3>1, <3>3 DEF Peek, CanRead
  <2>4. Kept(s, t) /\ t.empty = s.empty /\ Len(t.in.q) = Len(s.in.q) - n
    BY <2>2, <1>4 DEF Kept, Read
  <2>5. Len(t.in.q) < Len(s.in.q) /\ Len(t.in.q) <= Len(s.in.q)
    BY <2>3, <2>4, <1>1, <1>2
  <2>6. QED BY <2>2, <2>4, <2>5, <1>3 DEF NumberResult, Reads, t
<1>9. QED BY <1>6, <1>7, <1>8 DEF t

\* moveThroughSpaces, and writeToTransfBufWithZero of num bytes.
LEMMA SpacesData ==
    ASSUME NEW low, NEW oc, NEW tc, Sizes(low, oc, tc), NEW s \in Data(low, oc, tc)
    PROVE  moveThroughSpaces(s) \in Data(low, oc, tc) /\ Reads(s, moveThroughSpaces(s))
<1> DEFINE n == Run(s.in.q, Blank)
<1>1. s.in.q \in Seq(Symbols) /\ Len(s.in.q) \in Nat
  BY Fields
<1>2. n \in 0..Len(s.in.q)
  BY <1>1, RunFound
<1> HIDE DEF n
<1>3. Skip(s, n) \in Data(low, oc, tc) /\ Read(s, Skip(s, n), n)
  BY <1>2, SkipData
<1>4. Len(Skip(s, n).in.q) <= Len(s.in.q)
  BY <1>1, <1>2, <1>3 DEF Read
<1>5. moveThroughSpaces(s) = Skip(s, n)
  BY Zenon DEF moveThroughSpaces, n
<1>6. QED BY <1>3, <1>4, <1>5 DEF Read, Reads

TransferResult(s, t) ==
    /\ Stops(s, t) \/ Reads(s, t)
    /\ t.ok => Reads(s, t)
    /\ t.num \in Nat

\* At most num bytes are copied.
LEMMA TransferData ==
    ASSUME NEW low, NEW oc, NEW tc, Sizes(low, oc, tc), NEW s \in Data(low, oc, tc), s.num \in Nat
    PROVE  /\ writeToTransfBufWithZero(s) \in Data(low, oc, tc)
           /\ TransferResult(s, writeToTransfBufWithZero(s))
<1> DEFINE n == Smaller(s.num, Len(s.in.q))
           z == TRUE
           u == Copied(s, n, z)
           t == [u EXCEPT !.num = u.num - n, !.ok = (n = s.num), !.empty = u.empty \/ n < s.num]
<1>1. Len(s.in.q) \in Nat
  BY Fields
<1>2. n \in 0..Len(s.in.q) /\ n <= s.num
  BY <1>1 DEF Smaller
<1>3. writeToTransfBufWithZero(s) = t
  BY Zenon DEF writeToTransfBufWithZero
<1> HIDE DEF n, z
<1>4. u \in Data(low, oc, tc) /\ Read(s, u, n)
  BY <1>2, CopiedData
<1> HIDE DEF u
<1>5. u.num - n \in Nat /\ u.num - n \in {m \in Int : m >= NO_BODY_LENGTH}
  BY <1>2, <1>4 DEF Read, NO_BODY_LENGTH
<1>6. u.empty \in BOOLEAN
  BY <1>4, Fields
<1>7. t \in Data(low, oc, tc) /\ Kept(u, t) /\ t.in = u.in /\ t.num = u.num - n
  BY <1>4, <1>5, <1>6 DEF Data, Kept
<1>8. Kept(s, t) /\ Len(t.in.q) <= Len(s.in.q)
  BY <1>1, <1>2, <1>4, <1>7 DEF Kept, Read
<1>9. CASE n = s.num
  <2>1. ~(n < s.num)
    BY <1>9
  <2>2. t.empty = u.empty
    BY <1>4, <1>5, <1>6, <2>1 DEF Data
  <2>3. Reads(s, t)
    BY <1>4, <1>8, <2>2 DEF Reads, Read
  <2> HIDE DEF t
  <2>4. QED BY <1>3, <1>5, <1>7, <2>3 DEF TransferResult
<1>10. CASE n # s.num
  <2>1. n < s.num
    BY <1>2, <1>10
  <2>2. t.empty = TRUE /\ t.ok = FALSE
    BY <1>4, <1>5, <1>6, <1>10, <2>1 DEF Data
  <2> HIDE DEF t
  <2>3. QED BY <1>3, <1>5, <1>7, <1>8, <2>2 DEF TransferResult, Stops
<1>11. QED BY <1>9, <1>10

-----------------------------------------------------------------------------
(* The functions of the parser. *)

\* The literals of the parser are sequences of symbols.
LEMMA Tokens ==
    /\ Literals \subseteq Symbols
    /\ <<>> \in Seq(Symbols) /\ HTTP_1 \in Seq(Symbols) /\ CONTENT \in Seq(Symbols)
    /\ CHUNKED \in Seq(Symbols) /\ GZIP \in Seq(Symbols) /\ CRLF \in Seq(Symbols)
    /\ AddedEncoding \in Seq(Symbols) /\ AddedConnection \in Seq(Symbols)
    /\ \A a \in Literals : <<a>> \in Seq(Symbols)
    /\ \A a, b \in Literals : <<a, b>> \in Seq(Symbols)
    /\ \A a, b, c \in Literals : <<a, b, c>> \in Seq(Symbols)
    /\ \A a, b, c, d \in Literals : <<a, b, c, d>> \in Seq(Symbols)
<1>1. Literals \subseteq Symbols
  BY DEF Symbols
<1> HIDE DEF Symbols
<1>2. {NUL, CR, LF, "H", "TTP", "/1.", "C", "ON", "TENT-", "CHUNK", "ED", "GZ", "IP",
       "Transfer-Encoding: chunked", "Connection: close"} \subseteq Literals
  BY DEF Literals
<1>3. /\ \A a \in Literals : <<a>> \in Seq(Symbols)
      /\ \A a, b \in Literals : <<a, b>> \in Seq(Symbols)
      /\ \A a, b, c \in Literals : <<a, b, c>> \in Seq(Symbols)
      /\ \A a, b, c, d \in Literals : <<a, b, c, d>> \in Seq(Symbols)
  BY <1>1
<1>4. HTTP_1 \in Seq(Symbols) /\ CONTENT \in Seq(Symbols)
  BY <1>2, <1>3 DEF HTTP_1, CONTENT
<1>5. CHUNKED \in Seq(Symbols) /\ GZIP \in Seq(Symbols) /\ CRLF \in Seq(Symbols)
  BY <1>2, <1>3 DEF CHUNKED, GZIP, CRLF
<1>6. AddedEncoding \in Seq(Symbols) /\ AddedConnection \in Seq(Symbols)
  BY <1>2, <1>3 DEF AddedEncoding, AddedConnection
<1>7. QED BY <1>1, <1>3, <1>4, <1>5, <1>6

\* A function of the parser either fails or has only read.
Result(s, t) == Kept(s, t) /\ (t.ok => Reads(s, t))

\* NoInput stops the parser.
LEMMA NoInputData ==
    ASSUME NEW low, NEW oc, NEW tc, NEW s \in Data(low, oc, tc), NEW u \in Data(low, oc, tc),
           Kept(s, u)
    PROVE  NoInput(u) \in Data(low, oc, tc) /\ Stops(s, NoInput(u))
BY DEF NoInput, Data, Stops, Kept

\* checkSpaces.
LEMMA CheckSpacesData ==
    ASSUME NEW low, NEW oc, NEW tc, Sizes(low, oc, tc), NEW s \in Data(low, oc, tc)
    PROVE  checkSpaces(s) \in Data(low, oc, tc) /\ Result(s, checkSpaces(s))
<1> DEFINE u == moveThroughSpaces(s)
           o == Written(u.out, SP)
           t == [u EXCEPT !.out = o, !.ok = TRUE]
<1>1. u \in Data(low, oc, tc) /\ Reads(s, u)
  BY SpacesData
<1>2. checkSpaces(s) = IF Peek(u.in) = NUL THEN NoInput(u) ELSE t
  BY Zenon DEF checkSpaces
<1> HIDE DEF u
<1>3. o \in Outputs(oc)
  BY <1>1, Fields, Tokens, WrittenByte DEF Sizes, Literals
<1> HIDE DEF o
<1>4. t \in Data(low, oc, tc) /\ Kept(u, t) /\ t.in = u.in /\ t.empty = u.empty
  BY <1>1, <1>3 DEF Data, Kept
<1> HIDE DEF t
<1>5. Reads(s, t)
  BY <1>1, <1>4 DEF Reads, Kept
<1>6. NoInput(u) \in Data(low, oc, tc) /\ Stops(s, NoInput(u))
  BY <1>1, NoInputData DEF Reads
<1>7. CASE Peek(u.in) = NUL
  BY <1>2, <1>6, <1>7 DEF Result, Stops
<1>8. CASE Peek(u.in) # NUL
  BY <1>2, <1>4, <1>5, <1>8 DEF Result, Reads
<1>9. QED BY <1>7, <1>8

\* What is not empty when the parser peeks is not empty.
LEMMA Peeked ==
    ASSUME NEW low, NEW oc, NEW tc, NEW s \in Data(low, oc, tc), Peek(s.in) # NUL
    PROVE  1 \in 0..Len(s.in.q) /\ Peek(s.in) = s.in.q[1]
<1>1. s.in.q \in Seq(Symbols) /\ Len(s.in.q) \in Nat /\ s.in.q # <<>>
  BY Fields DEF Peek, CanRead
<1>2. Len(s.in.q) # 0
  BY <1>1, EmptySeq
<1>3. QED BY <1>1, <1>2 DEF Peek, CanRead

\* READ_UP_CHAR reads a symbol when there is one.
LEMMA ReadCharData ==
    ASSUME NEW low, NEW oc, NEW tc, Sizes(low, oc, tc), NEW s \in Data(low, oc, tc)
    PROVE  /\ ReadChar(s) \in Data(low, oc, tc) /\ Reads(s, ReadChar(s))
           /\ Peek(s.in) # NUL => Read(s, ReadChar(s), 1)
<1> DEFINE k == Smaller(1, Len(s.in.q))
           r == readAndWrite(s, k)
<1>1. Len(s.in.q) \in Nat
  BY Fields
<1>2. k \in 0..Len(s.in.q) /\ (1 \in 0..Len(s.in.q) => k = 1)
  <2> SUFFICES ASSUME NEW n \in Nat
               PROVE  Smaller(1, n) \in 0..n /\ (1 \in 0..n => Smaller(1, n) = 1)
    BY <1>1
  <2>1. QED BY DEF Smaller
<1>3. Peek(s.in) # NUL => k = 1
  BY <1>2, Peeked
<1>4. ReadChar(s) = r
  BY Zenon DEF ReadChar
<1> HIDE DEF k
<1>5. r \in Data(low, oc, tc) /\ Read(s, r, k)
  BY <1>2, ReadWriteData
<1> HIDE DEF r
<1>6. Reads(s, r)
  BY <1>1, <1>2, <1>5 DEF Read, Reads
<1>7. QED BY <1>3, <1>4, <1>5, <1>6

\* extractHttpVersion.
LEMMA VersionData ==
    ASSUME NEW low, NEW oc, NEW tc, Sizes(low, oc, tc), NEW s \in Data(low, oc, tc)
    PROVE  extractHttpVersion(s) \in Data(low, oc, tc) /\ Result(s, extractHttpVersion(s))
<1> DEFINE u == matchFormat(HTTP_1, s, <<>>)
           c == Peek(u.in)
           v == CASE c = "0" -> "V_1_0" [] c = "1" -> "V_1_1" [] OTHER -> u.version
           n == Matched(HTTP_1, s.in.q)
           w == ReadChar(u)
           t == extractHttpVersion(s)
<1>1. u \in Data(low, oc, tc) /\ MatchResult(s, u, HTTP_1, n)
  BY Tokens, MatchData
<1>2. t = CASE u.ok /\ c = NUL -> Starved(w, HTTP_1)
            [] u.ok /\ c # NUL -> [w EXCEPT !.version = v, !.ok = v # "UNDEFINED"]
            [] OTHER           -> [u EXCEPT !.ok = ~u.empty /\ u.version # "UNDEFINED"]
  BY Zenon DEF extractHttpVersion
<1>3. v \in {"UNDEFINED", "V_1_0", "V_1_1"}
  BY <1>1 DEF Data
<1> HIDE DEF u, v, n, t
<1>4. u.ok \in BOOLEAN /\ u.empty \in BOOLEAN /\ Len(u.in.q) \in Nat /\ Len(s.in.q) \in Nat
  BY <1>1, Fields
<1>5. CASE u.ok /\ c = NUL
  <2>1. t = Starved(w, HTTP_1)
    BY <1>2, <1>5
  <2>2. w \in Data(low, oc, tc) /\ Reads(u, w)
    BY <1>1, ReadCharData
  <2> HIDE DEF w
  <2>3. t \in Data(low, oc, tc) /\ Stops(w, t)
    BY <2>1, <2>2, StarvedData, Tokens
  <2>4. QED BY <1>1, <1>5, <2>2, <2>3 DEF t, Result, MatchResult, Stops, Reads, Kept
<1>6. CASE u.ok /\ c # NUL
  <2>1. t = [w EXCEPT !.version = v, !.ok = v # "UNDEFINED"]
    BY <1>2, <1>6
  <2>2. w \in Data(low, oc, tc) /\ Read(u, w, 1)
    BY <1>1, <1>6, ReadCharData
  <2> HIDE DEF w
  <2>3. t \in Data(low, oc, tc) /\ Kept(w, t) /\ t.in = w.in /\ t.empty = w.empty
    BY <1>3, <2>1, <2>2 DEF Data, Kept
  <2>4. Reads(s, u)
    BY <1>1, <1>6 DEF MatchResult
  <2>5. Reads(s, t)
    BY <1>4, <2>2, <2>3, <2>4 DEF Reads, Read, Kept
  <2>6. QED BY <2>3, <2>5 DEF t, Result, Reads
<1>7. CASE ~u.ok
  <2>1. t = [u EXCEPT !.ok = ~u.empty /\ u.version # "UNDEFINED"]
    BY <1>2, <1>7
  <2>2. t \in Data(low, oc, tc) /\ Kept(u, t) /\ t.in = u.in /\ t.empty = u.empty
        /\ (t.ok => ~u.empty)
    BY <1>1, <1>4, <2>1 DEF Data, Kept
  <2>3. t.ok => Reads(s, u)
    BY <1>1, <2>2 DEF MatchResult, Stops
  <2>4. QED BY <1>1, <2>2, <2>3 DEF t, Result, MatchResult, Stops, Reads, Kept
<1>8. QED BY <1>4, <1>5, <1>6, <1>7

\* extractStatus.
LEMMA StatusData ==
    ASSUME NEW low, NEW oc, NEW tc, Sizes(low, oc, tc), NEW s \in Data(low, oc, tc)
    PROVE  extractStatus(s) \in Data(low, oc, tc) /\ Result(s, extractStatus(s))
<1> DEFINE u == getNumber(s, <<>>)
           t == extractStatus(s)
<1>1. u \in Data(low, oc, tc) /\ NumberResult(s, u)
  <2> DEFINE y == TRUE
  <2>1. u = ReadNumber(s, 10, <<>>, y) /\ y \in BOOLEAN
    BY Zenon DEF getNumber
  <2> HIDE DEF u, y
  <2>2. QED BY <2>1, NumberData, Tokens DEF Bases
<1>2. t = IF u.ok THEN [u EXCEPT !.status = u.num, !.num = s.num] ELSE u
  BY Zenon DEF extractStatus
<1> HIDE DEF u, t
<1>3. CASE u.ok
  <2>1. t = [u EXCEPT !.status = u.num, !.num = s.num] /\ u.num \in Nat /\ Reads(s, u)
    BY <1>1, <1>2, <1>3 DEF NumberResult
  <2>2. s.num \in {m \in Int : m >= NO_BODY_LENGTH}
    BY DEF Data
  <2>3. t \in Data(low, oc, tc) /\ Kept(u, t) /\ t.in = u.in /\ t.empty = u.empty
    BY <1>1, <2>1, <2>2 DEF Data, Kept
  <2>4. QED BY <2>1, <2>3 DEF t, Result, Reads, Kept
<1>4. CASE ~u.ok
  <2>1. t = u
    BY <1>2, <1>4
  <2>2. QED BY <1>1, <1>4, <2>1 DEF t, Result, NumberResult, Stops, Reads
<1>5. QED BY <1>3, <1>4

\* The checks of headers stop for want of input or have only read.
CheckResult(s, t) == Stops(s, t) \/ Reads(s, t)

\* checkLength.
LEMMA LengthData ==
    ASSUME NEW low, NEW oc, NEW tc, Sizes(low, oc, tc), NEW s \in Data(low, oc, tc)
    PROVE  checkLength(s) \in Data(low, oc, tc) /\ CheckResult(s, checkLength(s))
<1> DEFINE y == TRUE
<1>1. checkLength(s) = ReadNumber(s, 10, <<>>, y) /\ y \in BOOLEAN
  BY Zenon DEF checkLength, getNumber
<1> HIDE DEF y
<1>2. ReadNumber(s, 10, <<>>, y) \in Data(low, oc, tc)
      /\ NumberResult(s, ReadNumber(s, 10, <<>>, y))
  BY <1>1, NumberData, Tokens DEF Bases
<1>3. QED BY <1>1, <1>2 DEF CheckResult, NumberResult

\* checkEncoding.
LEMMA EncodingData ==
    ASSUME NEW low, NEW oc, NEW tc, Sizes(low, oc, tc), NEW s \in Data(low, oc, tc)
    PROVE  checkEncoding(s) \in Data(low, oc, tc) /\ CheckResult(s, checkEncoding(s))
<1> DEFINE u == matchFormat(GZIP, s, <<>>)
           e == IF u.ok THEN "GZIP" ELSE u.cEncoding
           t == [u EXCEPT !.cEncoding = e]
<1>1. u \in Data(low, oc, tc) /\ MatchResult(s, u, GZIP, Matched(GZIP, s.in.q))
  BY Tokens, MatchData
<1>2. checkEncoding(s) = t
  BY Zenon DEF checkEncoding
<1> HIDE DEF u
<1>3. e \in {"IDENTITY", "GZIP"}
  BY <1>1 DEF Data
<1> HIDE DEF e
<1>4. t \in Data(low, oc, tc) /\ Kept(u, t) /\ t.in = u.in /\ t.empty = u.empty /\ t.ok = u.ok
  BY <1>1, <1>3 DEF Data, Kept
<1> HIDE DEF t
<1>5. QED BY <1>1, <1>2, <1>4 DEF CheckResult, MatchResult, Stops, Reads, Kept

\* checkChunked.
LEMMA ChunkedData ==
    ASSUME NEW low, NEW oc, NEW tc, Sizes(low, oc, tc), NEW s \in Data(low, oc, tc)
    PROVE  checkChunked(s) \in Data(low, oc, tc) /\ CheckResult(s, checkChunked(s))
<1> DEFINE u == matchFormat(CHUNKED, s, <<>>)
           t == [u EXCEPT !.isChunked = u.isChunked \/ u.ok]
<1>1. u \in Data(low, oc, tc) /\ MatchResult(s, u, CHUNKED, Matched(CHUNKED, s.in.q))
  BY Tokens, MatchData
<1>2. checkChunked(s) = t
  BY Zenon DEF checkChunked
<1> HIDE DEF u
<1>3. t \in Data(low, oc, tc) /\ Kept(u, t) /\ t.in = u.in /\ t.empty = u.empty /\ t.ok = u.ok
  BY <1>1 DEF Data, Kept
<1> HIDE DEF t
<1>4. QED BY <1>1, <1>2, <1>3 DEF CheckResult, MatchResult, Stops, Reads, Kept

\* checkType.
LEMMA TypeData ==
    ASSUME NEW low, NEW oc, NEW tc, Sizes(low, oc, tc), NEW s \in Data(low, oc, tc)
    PROVE  checkType(s) \in Data(low, oc, tc) /\ CheckResult(s, checkType(s))
<1>1. Len(s.in.q) <= Len(s.in.q)
  BY Fields
<1>2. checkType(s) \in Data(low, oc, tc) /\ Kept(s, checkType(s)) /\ checkType(s).in = s.in
      /\ checkType(s).empty = s.empty
  BY DEF checkType, Data, Kept
<1>3. QED BY <1>1, <1>2 DEF CheckResult, Reads

\* checkConnection.
LEMMA ConnectionData ==
    ASSUME NEW low, NEW oc, NEW tc, Sizes(low, oc, tc), NEW s \in Data(low, oc, tc)
    PROVE  checkConnection(s) \in Data(low, oc, tc) /\ CheckResult(s, checkConnection(s))
<1> DEFINE P(k) == /\ \A i \in 1..k : s.in.q[i] \notin {CR, NUL}
                   /\ k < Len(s.in.q) => s.in.q[k + 1] \in {CR, NUL}
           n == CHOOSE k \in 0..Len(s.in.q) : P(k)
           u == Skip(s, n)
           o == Written(u.out, "close")
           t == [u EXCEPT !.out = o, !.isClose = TRUE, !.ok = TRUE]
<1>1. s.in.q \in Seq(Symbols) /\ Len(s.in.q) \in Nat
  BY Fields
<1>2. n \in 0..Len(s.in.q)
  <2> DEFINE Bad == {k \in 1..Len(s.in.q) : s.in.q[k] \in {CR, NUL}}
  <2>1. PICK m \in 0..Len(s.in.q) :
           (\A k \in 1..m : k \notin Bad) /\ (m < Len(s.in.q) => m + 1 \in Bad)
    <3> HIDE DEF Bad
    <3>1. QED BY <1>1, LoopStops
  <2>2. P(m)
    BY <1>1, <2>1
  <2> HIDE DEF P
  <2>3. QED BY <2>2
<1>3. checkConnection(s) = IF Peek(u.in) = NUL THEN NoInput(u) ELSE t
  BY Zenon DEF checkConnection
<1> HIDE DEF n
<1>4. u \in Data(low, oc, tc) /\ Read(s, u, n)
  BY <1>2, SkipData
<1> HIDE DEF u
<1>5. o \in Outputs(oc)
  BY <1>4, Fields, Tokens, WrittenByte DEF Sizes, Literals
<1> HIDE DEF o
<1>6. t \in Data(low, oc, tc) /\ Kept(u, t) /\ t.in = u.in /\ t.empty = u.empty
  BY <1>4, <1>5 DEF Data, Kept
<1> HIDE DEF t
<1>7. Reads(s, t)
  BY <1>1, <1>2, <1>4, <1>6 DEF Reads, Read, Kept
<1>8. NoInput(u) \in Data(low, oc, tc) /\ Stops(s, NoInput(u))
  BY <1>4, NoInputData DEF Read
<1>9. QED BY <1>3, <1>6, <1>7, <1>8 DEF CheckResult

-----------------------------------------------------------------------------
(* A turn of the loop of checkHeaders. *)

Checks == {"LENGTH_CHECK", "ENCODING_CHECK", "CHUNKED_CHECK", "CONNECTION_CHECK", "TYPE_CHECK"}

\* A turn that finds a header or the end of them, or that goes on, has not pushed
\* anything back.
HeaderResult(s, t) ==
    /\ t.parserState = s.parserState /\ t.more = s.more
    /\ t.next \in {"RES_HEADERS", "RES_FINISHED"} \cup Checks
    /\ t.next # "RES_HEADERS" \/ ~t.empty => Len(t.in.q) <= Len(s.in.q)

\* A name was looked for, and next is set when it was found.
Tries(s, t)     == (Stops(s, t) \/ Reads(s, t)) /\ (t.ok => Reads(s, t))
Found(t, check) == [t EXCEPT !.next = IF t.ok THEN check ELSE @]

\* One function after another.
LEMMA ReadsThenReads ==
    ASSUME NEW low, NEW oc, NEW tc, NEW s \in Data(low, oc, tc), NEW u \in Data(low, oc, tc),
           NEW t \in Data(low, oc, tc), Reads(s, u), Reads(u, t)
    PROVE  Reads(s, t)
<1>1. Len(s.in.q) \in Nat /\ Len(u.in.q) \in Nat /\ Len(t.in.q) \in Nat
  BY Fields
<1>2. Len(t.in.q) <= Len(s.in.q)
  BY <1>1 DEF Reads
<1>3. QED BY <1>2, Zenon DEF Reads, Kept

\* Reading, then looking for a name, is looking for it.
LEMMA ReadsThenTries ==
    ASSUME NEW low, NEW oc, NEW tc, NEW s \in Data(low, oc, tc), NEW u \in Data(low, oc, tc),
           NEW t \in Data(low, oc, tc), Reads(s, u), Tries(u, t)
    PROVE  Tries(s, t)
<1>1. Reads(u, t) => Reads(s, t)
  BY ReadsThenReads
<1>2. Stops(u, t) => Stops(s, t)
  BY Zenon DEF Reads, Stops, Kept
<1>3. QED BY <1>1, <1>2, Zenon DEF Tries

\* matchFormat looks for a name.
LEMMA MatchTries ==
    ASSUME NEW s, NEW t, NEW fmt, NEW n, MatchResult(s, t, fmt, n)
    PROVE  Tries(s, t)
BY Zenon DEF MatchResult, Tries

\* What either reads or stops is such a turn, in the loop or once it has matched.
LEMMA LoopsOn ==
    ASSUME NEW s, NEW t, s.next = "RES_HEADERS", Stops(s, t) \/ Reads(s, t)
    PROVE  HeaderResult(s, t)
BY DEF HeaderResult, Stops, Reads, Kept

\* Looking for a name and setting next keeps the loop within its turn.
LEMMA FindsHeader ==
    ASSUME NEW low, NEW oc, NEW tc, NEW s, NEW u \in Data(low, oc, tc), s.next = "RES_HEADERS",
           Tries(s, u), NEW check \in Checks
    PROVE  Found(u, check) \in Data(low, oc, tc) /\ HeaderResult(s, Found(u, check))
<1> DEFINE n == IF u.ok THEN check ELSE u.next
           t == Found(u, check)
<1>0. (Stops(s, u) \/ Reads(s, u)) /\ (u.ok => Reads(s, u))
  BY Zenon DEF Tries
<1>1. t = [u EXCEPT !.next = n]
  BY Zenon DEF Found
<1> HIDE DEF t
<1>2. n \in ParserStates
  BY Fields DEF Checks, ParserStates
<1>3. CASE u.ok
  <2>1. n = check
    BY <1>3
  <2> HIDE DEF n
  <2>2. t \in Data(low, oc, tc) /\ t.next = check /\ t.in = u.in
        /\ t.parserState = u.parserState /\ t.more = u.more
    BY <1>1, <1>2, <2>1 DEF Data
  <2>3. QED BY <1>0, <1>3, <2>2 DEF t, HeaderResult, Reads, Kept
<1>4. CASE ~u.ok
  <2>1. n = u.next
    BY <1>4
  <2> HIDE DEF n
  <2>2. t \in Data(low, oc, tc) /\ t.next = u.next /\ t.in = u.in /\ t.empty = u.empty
        /\ t.parserState = u.parserState /\ t.more = u.more
    BY <1>1, <1>2, <2>1 DEF Data
  <2>3. QED BY <1>0, <2>2 DEF t, HeaderResult, Stops, Reads, Kept
<1>5. QED BY <1>3, <1>4

\* When the input ends after Con, what was pushed back does not match nection: the
\* code looks for it in what it has just pushed back.
LEMMA NotNection ==
    ASSUME NEW low, NEW oc, NEW tc, Sizes(low, oc, tc), NEW s \in Data(low, oc, tc),
           NEW t, t = matchFormat(<<"TENT-">>, s, <<"C", "ON">>)
    PROVE  t.ok \/ Reads(s, t) \/ Matched(<<"NECTION:">>, t.in.q) # 1
<1> DEFINE fmt == <<"TENT-">>
           back == <<"C", "ON">>
           n == Matched(fmt, s.in.q)
           u == readAndWrite(s, n)
<1>0. fmt \in Seq(Symbols) /\ Len(fmt) = 1 /\ back \in Seq(Symbols) /\ <<"NECTION:">> \in Seq(Symbols)
  BY Tokens DEF Literals
<1>1. s.in.q \in Seq(Symbols) /\ Len(s.in.q) \in Nat
  BY Fields
<1>2. t = MatchEnd(fmt, n, u, back)
  BY Zenon DEF matchFormat
<1>3. n \in 0..1 /\ n \in 0..Len(s.in.q)
  <2> HIDE DEF fmt
  <2>1. QED BY <1>0, <1>1, MatchedFound
<1> HIDE DEF n
<1>4. u \in Data(low, oc, tc) /\ Read(s, u, n) /\ u.in = Advanced(s.in, n, Cap)
  BY <1>3, ReadWriteData
<1> HIDE DEF u
<1>5. CASE ~(n < 1 /\ Peek(u.in) = NUL)
  <2>1. t = [u EXCEPT !.ok = (n = Len(fmt))]
    BY <1>0, <1>2, <1>5, Zenon DEF MatchEnd
  <2>2. Kept(u, t) /\ t.empty = u.empty /\ t.in = u.in
    BY <1>4, <2>1 DEF Data, Kept
  <2>3. Reads(s, t)
    BY <1>1, <1>3, <1>4, <2>2 DEF Reads, Read, Kept
  <2>4. QED BY <2>3
<1>6. CASE n < 1 /\ Peek(u.in) = NUL
  <2>1. n = 0
    BY <1>3, <1>6
  <2>2. t = Starved(u, back \o SubSeq(fmt, 1, n))
    BY <1>0, <1>2, <1>6 DEF MatchEnd
  <2> HIDE DEF back, fmt
  <2>3. t = Starved(u, back)
    <3>1. SubSeq(fmt, 1, n) = <<>>
      BY <1>0, <2>1
    <3>2. back \o <<>> = back
      BY <1>0
    <3>3. QED BY <2>2, <3>1, <3>2
  <2>4. t.in = writeToBufReverse(back, u.in)
    <3>1. Starved(u, back).in = writeToBufReverse(back, u.in)
      BY <1>0, <1>4, StarvedData
    <3>2. QED BY <2>3, <3>1
  <2>5. PICK pushed \in Seq(Symbols) :
           /\ t.in.q = pushed \o u.in.q
           /\ pushed # <<>> => \E k \in 1..Len(back) : pushed[1] = back[k]
    <3>1. u.in \in Inputs(low)
      BY <1>4, Fields
    <3>2. low \in Int
      BY DEF Sizes
    <3>3. \E pushed \in Seq(Symbols) :
             /\ writeToBufReverse(back, u.in).q = pushed \o u.in.q
             /\ pushed # <<>> => \E k \in 1..Len(back) : pushed[1] = back[k]
      BY <1>0, <3>1, <3>2, PushedInput
    <3>4. QED BY <2>4, <3>3
  <2>6. u.in.q \in Seq(Symbols)
    BY <1>4, Fields
  <2>7. t.in.q \in Seq(Symbols)
    BY <2>5, <2>6, ConcatProperties
  <2>8. SUFFICES ASSUME Matched(<<"NECTION:">>, t.in.q) = 1 PROVE FALSE
    OBVIOUS
  <2>9. 1 \in 0..Len(t.in.q) /\ ToUpper(t.in.q[1]) = "NECTION:"
    <3> DEFINE f == <<"NECTION:">>
    <3>1. f[1] = "NECTION:"
      OBVIOUS
    <3> HIDE DEF f
    <3>2. f \in Seq(Symbols)
      BY <1>0 DEF f
    <3>3. Matched(f, t.in.q) = 1
      BY <2>8 DEF f
    <3>4. /\ Matched(f, t.in.q) \in 0..Len(t.in.q)
          /\ \A k \in 1..Matched(f, t.in.q) : ToUpper(t.in.q[k]) = f[k]
      BY <2>7, <3>2, MatchedFound
    <3>5. QED BY <3>1, <3>3, <3>4
  <2>10. CASE pushed # <<>>
    <3>1. t.in.q[1] = pushed[1]
      BY <2>5, <2>6, <2>10
    <3>2. pushed[1] \in {"C", "ON"}
      BY <2>5, <2>10 DEF back
    <3>3. QED BY <2>9, <3>1, <3>2 DEF ToUpper, UpperOf
  <2>11. CASE pushed = <<>>
    <3>1. t.in.q = u.in.q
      BY <2>5, <2>6, <2>11
    <3>2. u.in.q # <<>>
      BY <2>9, <3>1
    <3>3. t.in.q[1] = NUL
      BY <1>6, <3>1, <3>2 DEF Peek, CanRead
    <3>4. QED BY <2>9, <3>3 DEF ToUpper, UpperOf, NUL
  <2>12. QED BY <2>10, <2>11
<1>7. QED BY <1>5, <1>6

\* A name that begins with C.
LEMMA ContentData ==
    ASSUME NEW low, NEW oc, NEW tc, Sizes(low, oc, tc), NEW s \in Data(low, oc, tc),
           s.next = "RES_HEADERS"
    PROVE  ContentOrConnection(s) \in Data(low, oc, tc) /\ HeaderResult(s, ContentOrConnection(s))
<1> DEFINE on   == matchFormat(<<"ON">>, s, <<"C">>)
           tent == matchFormat(<<"TENT-">>, on, <<"C", "ON">>)
           nect == matchFormat(<<"NECTION:">>, tent, <<"C", "ON">>)
           aux  == ToUpper(Peek(tent.in))
           next == ReadChar(tent)
           rest == matchFormat(ContentRest[aux], next, Append(CONTENT, aux))
           t    == ContentOrConnection(s)
<1>0. /\ <<"ON">> \in Seq(Symbols) /\ Len(<<"ON">>) = 1
      /\ <<"TENT-">> \in Seq(Symbols) /\ Len(<<"TENT-">>) = 1
      /\ <<"NECTION:">> \in Seq(Symbols) /\ Len(<<"NECTION:">>) = 1
      /\ <<"C">> \in Seq(Symbols) /\ <<"C", "ON">> \in Seq(Symbols)
  BY Tokens DEF Literals
<1>1. on \in Data(low, oc, tc) /\ MatchResult(s, on, <<"ON">>, Matched(<<"ON">>, s.in.q))
  BY <1>0, MatchData
<1>2. t = CASE ~on.ok             -> on
            [] on.ok /\ ~tent.ok  -> Found(nect, "CONNECTION_CHECK")
            [] on.ok /\ tent.ok   ->
                  CASE aux = NUL                   -> Starved(next, CONTENT)
                    [] aux \in DOMAIN ContentRest  -> Found(rest, ContentCheck[aux])
                    [] OTHER                       -> next
  BY Zenon DEF ContentOrConnection, Found
<1> HIDE DEF on, t, aux, next, rest
<1>3. tent \in Data(low, oc, tc)
      /\ MatchResult(on, tent, <<"TENT-">>, Matched(<<"TENT-">>, on.in.q))
  BY <1>0, <1>1, MatchData
<1>4. tent.ok \/ Reads(on, tent) \/ Matched(<<"NECTION:">>, tent.in.q) # 1
  BY <1>1, NotNection
<1> HIDE DEF tent
<1>5. nect \in Data(low, oc, tc)
      /\ MatchResult(tent, nect, <<"NECTION:">>, Matched(<<"NECTION:">>, tent.in.q))
  BY <1>0, <1>3, MatchData
<1> HIDE DEF nect
<1>6. /\ Len(s.in.q) \in Nat /\ Len(on.in.q) \in Nat /\ Len(tent.in.q) \in Nat
      /\ Len(nect.in.q) \in Nat
      /\ on.ok \in BOOLEAN /\ tent.ok \in BOOLEAN /\ nect.ok \in BOOLEAN
  BY <1>1, <1>3, <1>5, Fields
<1>7. CASE ~on.ok
  <2>1. t = on
    BY <1>2, <1>7
  <2>2. Stops(s, on) \/ Reads(s, on)
    BY <1>1 DEF MatchResult
  <2>3. HeaderResult(s, on)
    BY <2>2, LoopsOn
  <2>4. QED BY <1>1, <2>1, <2>3 DEF t
<1>8. CASE on.ok /\ ~tent.ok
  <2>1. t = Found(nect, "CONNECTION_CHECK")
    BY <1>2, <1>8
  <2>2. Reads(s, on)
    BY <1>1, <1>8 DEF MatchResult
  <2>3. Tries(tent, nect)
    BY <1>5, MatchTries
  <2>4. Tries(s, nect)
    <3>1. CASE Reads(on, tent)
      <4>1. Reads(s, tent)
        BY <1>1, <1>3, <2>2, <3>1, ReadsThenReads
      <4>2. QED BY <1>3, <1>5, <2>3, <4>1, ReadsThenTries
    <3>2. CASE ~Reads(on, tent)
      <4>1. Stops(on, tent)
        BY <1>3, <3>2 DEF MatchResult
      <4>2. ~nect.ok
        BY <1>0, <1>4, <1>5, <1>8, <3>2 DEF MatchResult
      <4>3. nect.ok = FALSE
        BY <1>6, <4>2, Zenon
      <4>4. Stops(s, nect)
        BY <2>2, <2>3, <4>1, <4>3, Zenon DEF Tries, Stops, Reads, Kept
      <4>5. QED BY <4>2, <4>4, Zenon DEF Tries
    <3>3. QED BY <3>1, <3>2
  <2>5. "CONNECTION_CHECK" \in Checks
    BY DEF Checks
  <2>6. QED BY <1>5, <2>1, <2>4, <2>5, FindsHeader DEF t
<1>9. CASE on.ok /\ tent.ok
  <2>0. Reads(s, tent)
    <3>1. Reads(s, on) /\ Reads(on, tent)
      BY <1>1, <1>3, <1>9 DEF MatchResult
    <3>2. QED BY <1>1, <1>3, <3>1, ReadsThenReads
  <2>1. t = CASE aux = NUL                   -> Starved(next, CONTENT)
              [] aux \in DOMAIN ContentRest  -> Found(rest, ContentCheck[aux])
              [] OTHER                       -> next
    BY <1>2, <1>9
  <2>2. CASE aux = NUL
    <3>1. t = Starved(next, CONTENT)
      BY <2>1, <2>2 DEF NUL, ContentRest
    <3>2. next \in Data(low, oc, tc) /\ Reads(tent, next)
      BY <1>3, ReadCharData DEF next
    <3>3. t \in Data(low, oc, tc) /\ Stops(next, t)
      BY <3>1, <3>2, StarvedData, Tokens
    <3>4. Stops(s, t)
      BY <2>0, <3>2, <3>3 DEF Stops, Reads, Kept
    <3>5. QED BY <3>3, <3>4, LoopsOn DEF t
  <2>3. CASE aux # NUL
    <3>1. Peek(tent.in) # NUL
      BY <2>3 DEF aux, ToUpper, UpperOf, NUL
    <3>2. next \in Data(low, oc, tc) /\ Read(tent, next, 1)
      BY <1>3, <3>1, ReadCharData DEF next
    <3>3. Len(next.in.q) \in Nat
      BY <3>2, Fields
    <3>4. Reads(s, next)
      BY <1>6, <2>0, <3>2, <3>3 DEF Reads, Read, Kept
    <3>5. CASE aux \in DOMAIN ContentRest
      <4>1. t = Found(rest, ContentCheck[aux])
        BY <2>1, <2>3, <3>5
      <4>2. aux \in {"L", "E", "T"}
        BY <3>5 DEF ContentRest
      <4>3. ContentCheck[aux] \in Checks
        BY <4>2 DEF ContentCheck, Checks
      <4>4. ContentRest[aux] \in Seq(Symbols)
        <5>1. {"ENGTH:", "NCODING:", "YPE:"} \subseteq Literals
          BY DEF Literals
        <5>2. ContentRest[aux] \in {<<"ENGTH:">>, <<"NCODING:">>, <<"YPE:">>}
          BY <4>2 DEF ContentRest
        <5>3. QED BY <5>1, <5>2, Tokens
      <4>5. Append(CONTENT, aux) \in Seq(Symbols)
        <5>1. aux \in Symbols
          BY <4>2, Tokens DEF Literals
        <5>2. QED BY <5>1, Tokens
      <4>6. rest \in Data(low, oc, tc)
            /\ MatchResult(next, rest, ContentRest[aux], Matched(ContentRest[aux], next.in.q))
        BY <3>2, <4>4, <4>5, MatchData DEF rest
      <4>7. Tries(s, rest)
        BY <3>2, <3>4, <4>6, MatchTries, ReadsThenTries
      <4> DEFINE check == ContentCheck[aux]
      <4>8. t = Found(rest, check) /\ check \in Checks
        BY <4>1, <4>3
      <4> HIDE DEF check
      <4>9. QED BY <4>6, <4>7, <4>8, FindsHeader DEF t
    <3>6. CASE aux \notin DOMAIN ContentRest
      <4>1. t = next
        BY <2>1, <2>3, <3>6
      <4>2. QED BY <3>2, <3>4, <4>1, LoopsOn DEF t
    <3>7. QED BY <3>5, <3>6
  <2>4. QED BY <2>2, <2>3
<1>10. QED BY <1>6, <1>7, <1>8, <1>9

\* The end of a line, and of the headers.
LEMMA EndOfLineData ==
    ASSUME NEW low, NEW oc, NEW tc, Sizes(low, oc, tc), NEW s \in Data(low, oc, tc),
           s.next = "RES_HEADERS"
    PROVE  EndOfLine(s) \in Data(low, oc, tc) /\ HeaderResult(s, EndOfLine(s))
<1> DEFINE lf == matchFormat(<<LF>>, s, <<CR>>)
           cr == Skip(lf, 1)
           end == Skip(cr, 1)
           added == (IF ~s.isChunked /\ s.withTransf THEN AddedEncoding ELSE <<>>)
                    \o (IF s.isClose THEN <<>> ELSE AddedConnection) \o CRLF
           o == writeToBuf(added, end.out)
           t == EndOfLine(s)
<1>0. <<LF>> \in Seq(Symbols) /\ <<CR>> \in Seq(Symbols) /\ CRLF \in Seq(Symbols)
      /\ <<CR, LF, CR>> \in Seq(Symbols)
  BY Tokens DEF Literals
<1>1. lf \in Data(low, oc, tc) /\ MatchResult(s, lf, <<LF>>, Matched(<<LF>>, s.in.q))
  BY <1>0, MatchData
<1>2. added \in Seq(Symbols)
  <2> DEFINE a == IF ~s.isChunked /\ s.withTransf THEN AddedEncoding ELSE <<>>
             b == IF s.isClose THEN <<>> ELSE AddedConnection
  <2>1. a \in Seq(Symbols) /\ b \in Seq(Symbols)
    BY Tokens
  <2> HIDE DEF a, b
  <2>2. (a \o b) \o CRLF \in Seq(Symbols)
    BY <1>0, <2>1, ConcatProperties
  <2>3. QED BY <2>2 DEF a, b
<1>3. t = CASE ~lf.ok                          -> lf
            [] lf.ok /\ Peek(lf.in) = NUL      -> Starved(lf, CRLF)
            [] lf.ok /\ Peek(lf.in) = CR       ->
                  CASE Peek(cr.in) = LF  -> [end EXCEPT !.next = "RES_FINISHED", !.out = o]
                    [] Peek(cr.in) = NUL -> Starved(cr, <<CR, LF, CR>>)
                    [] OTHER             -> cr
            [] OTHER                           -> lf
  BY Zenon DEF EndOfLine
<1> HIDE DEF lf, added, t
<1>4. Len(s.in.q) \in Nat /\ Len(lf.in.q) \in Nat /\ lf.ok \in BOOLEAN
      /\ (Stops(s, lf) \/ Reads(s, lf)) /\ (lf.ok => Reads(s, lf))
  BY <1>1, Fields DEF MatchResult
<1>5. CASE ~lf.ok \/ (Peek(lf.in) # NUL /\ Peek(lf.in) # CR)
  <2>1. t = lf
    BY <1>3, <1>4, <1>5
  <2>2. QED BY <1>1, <1>4, <2>1, LoopsOn DEF t
<1>6. CASE lf.ok /\ Peek(lf.in) = NUL
  <2>1. t = Starved(lf, CRLF)
    BY <1>3, <1>6 DEF NUL, CR
  <2>2. t \in Data(low, oc, tc) /\ Stops(lf, t)
    BY <1>0, <1>1, <2>1, StarvedData
  <2>3. Stops(s, t)
    BY <1>4, <1>6, <2>2 DEF Stops, Reads, Kept
  <2>4. QED BY <2>2, <2>3, LoopsOn DEF t
<1>7. CASE lf.ok /\ Peek(lf.in) = CR
  <2>1. Peek(lf.in) # NUL
    BY <1>7 DEF NUL, CR
  <2>2. cr \in Data(low, oc, tc) /\ Read(lf, cr, 1)
    BY <1>1, <2>1, Peeked, SkipData
  <2>3. t = CASE Peek(cr.in) = LF  -> [end EXCEPT !.next = "RES_FINISHED", !.out = o]
              [] Peek(cr.in) = NUL -> Starved(cr, <<CR, LF, CR>>)
              [] OTHER             -> cr
    BY <1>3, <1>7, <2>1
  <2> HIDE DEF cr
  <2>4. Len(cr.in.q) \in Nat
    BY <2>2, Fields
  <2>5. Reads(s, cr)
    BY <1>4, <1>7, <2>2, <2>4 DEF Reads, Read, Kept
  <2>6. CASE Peek(cr.in) = LF
    <3>1. Peek(cr.in) # NUL
      BY <2>6 DEF NUL, LF
    <3>2. end \in Data(low, oc, tc) /\ Read(cr, end, 1)
      BY <2>2, <3>1, Peeked, SkipData
    <3> HIDE DEF end
    <3>3. o \in Outputs(oc)
      BY <1>2, <3>2, Fields, WrittenOutput DEF Sizes
    <3> HIDE DEF o
    <3>4. t = [end EXCEPT !.next = "RES_FINISHED", !.out = o]
      BY <2>3, <2>6 DEF NUL, LF
    <3>5. t \in Data(low, oc, tc) /\ t.parserState = end.parserState /\ t.more = end.more
          /\ t.next = "RES_FINISHED" /\ t.in = end.in
      BY <3>2, <3>3, <3>4 DEF Data, ParserStates
    <3>6. Len(end.in.q) \in Nat
      BY <3>2, Fields
    <3>7. t.parserState = s.parserState /\ t.more = s.more /\ Len(t.in.q) <= Len(s.in.q)
      BY <1>4, <2>4, <2>5, <3>2, <3>5, <3>6 DEF Reads, Read, Kept
    <3>8. QED BY <3>5, <3>7 DEF t, HeaderResult
  <2>7. CASE Peek(cr.in) # LF /\ Peek(cr.in) = NUL
    <3>1. t = Starved(cr, <<CR, LF, CR>>)
      BY <2>3, <2>7
    <3>2. t \in Data(low, oc, tc) /\ Stops(cr, t)
      BY <1>0, <2>2, <3>1, StarvedData
    <3>3. Stops(s, t)
      BY <2>5, <3>2 DEF Stops, Reads, Kept
    <3>4. QED BY <3>2, <3>3, LoopsOn DEF t
  <2>8. CASE Peek(cr.in) # LF /\ Peek(cr.in) # NUL
    <3>1. t = cr
      BY <2>3, <2>8
    <3>2. QED BY <2>2, <2>5, <3>1, LoopsOn DEF t
  <2>9. QED BY <2>6, <2>7, <2>8
<1>8. QED BY <1>4, <1>5, <1>6, <1>7

\* A turn that goes on, that found a header or the end of them has read at least a
\* symbol for good.
TurnResult(s, t) ==
    /\ t.parserState = s.parserState /\ t.more = s.more
    /\ t.next \in {"RES_HEADERS", "RES_FINISHED"} \cup Checks
    /\ t.next # "RES_HEADERS" \/ ~t.empty => Len(t.in.q) < Len(s.in.q)

\* One turn of the loop of checkHeaders.
LEMMA HeaderData ==
    ASSUME NEW low, NEW oc, NEW tc, Sizes(low, oc, tc), NEW s \in Data(low, oc, tc)
    PROVE  HeaderStep(s) \in Data(low, oc, tc) /\ TurnResult(s, HeaderStep(s))
<1> DEFINE c == ToUpper(Peek(s.in))
           r == ReadChar(s)
           u == [r EXCEPT !.next = "RES_HEADERS"]
           m == matchFormat(<<"RANSFER-ENCODING:">>, u, <<"T">>)
           t == HeaderStep(s)
<1>1. t = CASE c = NUL -> NoInput(u)
            [] c = "C" -> ContentOrConnection(u)
            [] c = "T" -> Found(m, "CHUNKED_CHECK")
            [] c = CR  -> EndOfLine(u)
            [] OTHER   -> u
  BY Zenon DEF HeaderStep, Found
<1> HIDE DEF t, m
<1>2. CASE c = NUL
  <2>0. t = NoInput(u)
    BY <1>1, <1>2 DEF NUL, CR
  <2>1. r \in Data(low, oc, tc) /\ Reads(s, r)
    BY ReadCharData
  <2> HIDE DEF r
  <2>2. t \in Data(low, oc, tc) /\ t.next = "RES_HEADERS" /\ t.empty = TRUE
        /\ t.parserState = s.parserState /\ t.more = s.more
    BY <2>0, <2>1 DEF NoInput, Data, ParserStates, Reads, Kept
  <2>3. QED BY <2>2 DEF t, TurnResult
<1>3. CASE c # NUL
  <2>1. Peek(s.in) # NUL
    BY <1>3 DEF ToUpper, UpperOf, NUL
  <2>2. r \in Data(low, oc, tc) /\ Read(s, r, 1)
    BY <2>1, ReadCharData
  <2> HIDE DEF r
  <2>3. u \in Data(low, oc, tc) /\ u.next = "RES_HEADERS" /\ u.parserState = r.parserState
        /\ u.more = r.more /\ u.in = r.in
    BY <2>2 DEF Data, ParserStates
  <2> HIDE DEF u, c
  <2>4. Len(s.in.q) \in Nat /\ Len(u.in.q) \in Nat
    BY <2>3, Fields
  <2>5. u.parserState = s.parserState /\ u.more = s.more /\ Len(u.in.q) < Len(s.in.q)
    BY <2>2, <2>3, <2>4 DEF Read, Kept
  <2>6. t \in Data(low, oc, tc) /\ HeaderResult(u, t)
    <3>1. CASE c = "C"
      <4>1. t = ContentOrConnection(u)
        BY <1>1, <1>3, <3>1 DEF NUL, CR
      <4>2. QED BY <2>3, <4>1, ContentData
    <3>2. CASE c = "T"
      <4>1. t = Found(m, "CHUNKED_CHECK")
        BY <1>1, <1>3, <3>2 DEF NUL, CR
      <4>2. <<"RANSFER-ENCODING:">> \in Seq(Symbols) /\ <<"T">> \in Seq(Symbols)
        BY Tokens DEF Literals
      <4>3. m \in Data(low, oc, tc)
            /\ MatchResult(u, m, <<"RANSFER-ENCODING:">>, Matched(<<"RANSFER-ENCODING:">>, u.in.q))
        BY <2>3, <4>2, MatchData DEF m
      <4>4. Tries(u, m) /\ "CHUNKED_CHECK" \in Checks
        BY <4>3, MatchTries DEF Checks
      <4>5. QED BY <2>3, <4>1, <4>3, <4>4, FindsHeader
    <3>3. CASE c = CR
      <4>1. t = EndOfLine(u)
        BY <1>1, <1>3, <3>3 DEF CR
      <4>2. QED BY <2>3, <4>1, EndOfLineData
    <3>4. CASE c # "C" /\ c # "T" /\ c # CR
      <4>1. t = u
        BY <1>1, <1>3, <3>4
      <4>2. Reads(u, u)
        BY <2>4 DEF Reads, Kept
      <4>3. QED BY <2>3, <4>1, <4>2, LoopsOn
    <3>5. QED BY <3>1, <3>2, <3>3, <3>4
  <2>7. Len(t.in.q) \in Nat
    BY <2>6, Fields
  <2>8. TurnResult(s, t)
    BY <2>4, <2>5, <2>6, <2>7 DEF TurnResult, HeaderResult
  <2>9. QED BY <2>6, <2>8 DEF t
<1>4. QED BY <1>2, <1>3

-----------------------------------------------------------------------------
(* A turn of the loops of the body. *)

\* A turn after which the loop goes on has read at least a symbol for good.
BodyResult(s, t) ==
    /\ t.parserState = s.parserState /\ t.next = s.next
    /\ t.more => Len(t.in.q) < Len(s.in.q)
    /\ t.ok => Len(t.in.q) <= Len(s.in.q)

\* The turn ends the call, and Back pushes back what the next one needs.
GivesUp(s, t) ==
    t.parserState = s.parserState /\ t.next = s.next /\ t.more = FALSE /\ t.ok = FALSE
Back(t, read) == [t EXCEPT !.in = writeToBufReverse(read, @)]

\* Ending the call is a result of a turn.
LEMMA GivesUpIsResult ==
    ASSUME NEW s, NEW t, GivesUp(s, t)
    PROVE  BodyResult(s, t)
BY Zenon DEF GivesUp, BodyResult

\* A function that failed ends the call.
LEMMA FailureGivesUp ==
    ASSUME NEW s, NEW u, NEW t, s.more = FALSE, Kept(s, u), Kept(u, t), t.ok \in BOOLEAN, ~t.ok
    PROVE  GivesUp(s, t)
<1>1. t.ok = FALSE
  BY Zenon
<1>2. QED BY <1>1, Zenon DEF Kept, GivesUp

\* Pushing back after the end of a turn.
LEMMA BackData ==
    ASSUME NEW low, NEW oc, NEW tc, Sizes(low, oc, tc), NEW s, NEW u \in Data(low, oc, tc),
           GivesUp(s, u), NEW read \in Seq(Symbols)
    PROVE  Back(u, read) \in Data(low, oc, tc) /\ GivesUp(s, Back(u, read))
<1> DEFINE i == writeToBufReverse(read, u.in)
<1>1. i \in Inputs(low)
  BY Fields, PushedInput DEF Sizes
<1>2. Back(u, read) = [u EXCEPT !.in = i]
  BY Zenon DEF Back
<1> HIDE DEF i
<1>3. QED BY <1>1, <1>2 DEF Data, GivesUp

\* The digits of a number are symbols.
LEMMA NumeralSymbols ==
    ASSUME NEW n \in Nat
    PROVE  Numeral(n, 16) \in Seq(Symbols)
<1>1. Numeral(n, 16) \in Seq(Digits(16))
  BY NumberSurvives
<1>2. Digits(16) \subseteq Symbols
  BY DEF Symbols, Literals
<1>3. QED BY <1>1, <1>2, SeqMonotonic

\* extractChunkedBody and extractChunkedBodyTransf.
LEMMA ChunkData ==
    ASSUME NEW low, NEW oc, NEW tc, Sizes(low, oc, tc), NEW s \in Data(low, oc, tc),
           s.more = FALSE, NEW copy \in BOOLEAN
    PROVE  ChunkStep(s, copy) \in Data(low, oc, tc) /\ BodyResult(s, ChunkStep(s, copy))
<1> DEFINE Crlf(u) == IF copy THEN checkCRLF(u, <<>>) ELSE simpleCheckCRLF(u, <<>>)
           size == IF copy THEN getHexNumber(s, <<>>) ELSE simpleGetHexNumber(s, <<>>)
           line == Crlf(size)
           data == writeToTransfBufWithZero(line)
           end  == Crlf(data)
           standIn == IF size.num > 0 THEN <<"1", CR, LF, "1">> ELSE <<"0", CR, LF>>
           done == [end EXCEPT !.more = size.num > 0]
           t == ChunkStep(s, copy)
<1>1. t = IF ~size.ok THEN size
          ELSE IF ~line.ok
               THEN IF line.empty THEN Back(line, Numeral(line.num, 16)) ELSE line
          ELSE IF ~data.ok THEN Back(data, Numeral(data.num, 16) \o CRLF)
          ELSE IF ~end.ok THEN Back(end, standIn)
          ELSE done
  BY Zenon DEF ChunkStep, Back
<1>2. size \in Data(low, oc, tc) /\ NumberResult(s, size)
  <2> DEFINE yes == TRUE
             no == FALSE
  <2>1. size = IF copy THEN ReadNumber(s, 16, <<>>, yes) ELSE ReadNumber(s, 16, <<>>, no)
    BY Zenon DEF getHexNumber, simpleGetHexNumber
  <2>2. yes \in BOOLEAN /\ no \in BOOLEAN
    OBVIOUS
  <2> HIDE DEF yes, no, size
  <2>3. /\ ReadNumber(s, 16, <<>>, yes) \in Data(low, oc, tc)
        /\ NumberResult(s, ReadNumber(s, 16, <<>>, yes))
    BY <2>2, NumberData, Tokens DEF Bases
  <2>4. /\ ReadNumber(s, 16, <<>>, no) \in Data(low, oc, tc)
        /\ NumberResult(s, ReadNumber(s, 16, <<>>, no))
    BY <2>2, NumberData, Tokens DEF Bases
  <2>5. QED BY <2>1, <2>3, <2>4
<1>3. ASSUME NEW u \in Data(low, oc, tc)
      PROVE  Crlf(u) \in Data(low, oc, tc) /\ MatchResult(u, Crlf(u), CRLF, Matched(CRLF, u.in.q))
  <2> DEFINE x == matchFormat(CRLF, u, <<>>)
             y == simpleMatchFormat(CRLF, u, <<>>)
  <2>1. /\ x \in Data(low, oc, tc) /\ MatchResult(u, x, CRLF, Matched(CRLF, u.in.q))
        /\ y \in Data(low, oc, tc) /\ MatchResult(u, y, CRLF, Matched(CRLF, u.in.q))
    BY MatchData, Tokens
  <2>2. Crlf(u) = IF copy THEN x ELSE y
    BY Zenon DEF checkCRLF, simpleCheckCRLF
  <2> HIDE DEF x, y, Crlf
  <2>3. QED BY <2>1, <2>2
<1> HIDE DEF Crlf, size, t
<1>4. line \in Data(low, oc, tc) /\ MatchResult(size, line, CRLF, Matched(CRLF, size.in.q))
  BY <1>2, <1>3
<1> HIDE DEF line
<1>5. Kept(s, size) /\ Kept(size, line) /\ line.num = size.num
  BY <1>2, <1>4, Zenon DEF NumberResult, MatchResult, Stops, Reads
<1>6. size.ok \in BOOLEAN /\ line.ok \in BOOLEAN /\ line.empty \in BOOLEAN
  BY <1>2, <1>4, Fields
<1>7. CASE ~size.ok
  <2>1. t = size
    BY <1>1, <1>7, Zenon
  <2>2. Kept(s, s)
    BY Zenon DEF Kept
  <2>3. GivesUp(s, size)
    BY <1>5, <1>6, <1>7, <2>2, FailureGivesUp
  <2>4. QED BY <1>2, <2>1, <2>3, GivesUpIsResult DEF t
<1>8. CASE size.ok /\ ~line.ok
  <2>1. t = IF line.empty THEN Back(line, Numeral(line.num, 16)) ELSE line
    BY <1>1, <1>8, Zenon
  <2>2. GivesUp(s, line)
    BY <1>5, <1>6, <1>8, FailureGivesUp
  <2> DEFINE read == Numeral(line.num, 16)
  <2>3. read \in Seq(Symbols)
    <3>1. line.num \in Nat
      BY <1>2, <1>5, <1>8 DEF NumberResult
    <3>2. QED BY <3>1, NumeralSymbols
  <2> HIDE DEF read
  <2>4. Back(line, read) \in Data(low, oc, tc) /\ GivesUp(s, Back(line, read))
    BY <1>4, <2>2, <2>3, BackData
  <2>5. t = IF line.empty THEN Back(line, read) ELSE line
    BY <2>1 DEF read
  <2>6. t \in Data(low, oc, tc) /\ GivesUp(s, t)
    BY <1>4, <2>2, <2>4, <2>5
  <2>7. QED BY <2>6, GivesUpIsResult DEF t
<1>9. CASE size.ok /\ line.ok
  <2>1. t = IF ~data.ok THEN Back(data, Numeral(data.num, 16) \o CRLF)
            ELSE IF ~end.ok THEN Back(end, standIn)
            ELSE done
    BY <1>1, <1>9, Zenon
  <2>2. line.num \in Nat /\ Reads(size, line) /\ Len(size.in.q) < Len(s.in.q)
    BY <1>2, <1>4, <1>9 DEF NumberResult, MatchResult
  <2>3. data \in Data(low, oc, tc) /\ TransferResult(line, data)
    BY <1>4, <2>2, TransferData
  <2> HIDE DEF data
  <2>4. end \in Data(low, oc, tc) /\ MatchResult(data, end, CRLF, Matched(CRLF, data.in.q))
    BY <1>3, <2>3
  <2> HIDE DEF end, standIn
  <2>5. Kept(line, data) /\ Kept(data, end)
    BY <2>3, <2>4, Zenon DEF TransferResult, MatchResult, Stops, Reads
  <2>6. Kept(s, line) /\ Kept(s, data) /\ Kept(s, end)
    BY <1>5, <2>5, Zenon DEF Kept
  <2>7. data.ok \in BOOLEAN /\ end.ok \in BOOLEAN
    BY <2>3, <2>4, Fields
  <2>8. CASE ~data.ok
    <3> DEFINE read == Numeral(data.num, 16) \o CRLF
    <3>1. t = Back(data, read)
      BY <2>1, <2>8, Zenon
    <3>2. read \in Seq(Symbols)
      <4>1. data.num \in Nat
        BY <2>3 DEF TransferResult
      <4>2. Numeral(data.num, 16) \in Seq(Symbols) /\ CRLF \in Seq(Symbols)
        BY <4>1, NumeralSymbols, Tokens
      <4>3. QED BY <4>2, ConcatProperties
    <3> HIDE DEF read
    <3>3. GivesUp(s, data)
      BY <2>5, <2>6, <2>7, <2>8, FailureGivesUp
    <3>4. t \in Data(low, oc, tc) /\ GivesUp(s, t)
      BY <2>3, <3>1, <3>2, <3>3, BackData
    <3>5. QED BY <3>4, GivesUpIsResult DEF t
  <2>9. CASE data.ok /\ ~end.ok
    <3>1. t = Back(end, standIn)
      BY <2>1, <2>9, Zenon
    <3>2. standIn \in Seq(Symbols)
      <4>1. {"0", "1", CR, LF} \subseteq Literals
        BY DEF Literals, Digits, Digit
      <4>2. <<"1", CR, LF, "1">> \in Seq(Symbols) /\ <<"0", CR, LF>> \in Seq(Symbols)
        BY <4>1, Tokens
      <4>3. QED BY <4>2, Zenon DEF standIn
    <3>3. GivesUp(s, end)
      BY <2>5, <2>6, <2>7, <2>9, FailureGivesUp
    <3>4. t \in Data(low, oc, tc) /\ GivesUp(s, t)
      BY <2>4, <3>1, <3>2, <3>3, BackData
    <3>5. QED BY <3>4, GivesUpIsResult DEF t
  <2>10. CASE data.ok /\ end.ok
    <3>1. t = done
      BY <2>1, <2>10, Zenon
    <3>2. (size.num > 0) \in BOOLEAN
      OBVIOUS
    <3>3. t \in Data(low, oc, tc) /\ t.in = end.in /\ t.parserState = end.parserState
          /\ t.next = end.next
      BY <2>4, <3>1, <3>2 DEF Data
    <3>4. Reads(line, data) /\ Reads(data, end)
      BY <2>3, <2>4, <2>10 DEF TransferResult, MatchResult
    <3>5. /\ Len(s.in.q) \in Nat /\ Len(size.in.q) \in Nat /\ Len(line.in.q) \in Nat
          /\ Len(data.in.q) \in Nat /\ Len(end.in.q) \in Nat
      BY <1>2, <1>4, <2>3, <2>4, Fields
    <3>6. Len(end.in.q) < Len(s.in.q)
      <4>1. Len(line.in.q) <= Len(size.in.q) /\ Len(data.in.q) <= Len(line.in.q)
            /\ Len(end.in.q) <= Len(data.in.q)
        BY <2>2, <3>4, Zenon DEF Reads
      <4>2. ASSUME NEW a \in Nat, NEW b \in Nat, NEW c \in Nat, NEW d \in Nat, NEW e \in Nat,
                   b < a, c <= b, d <= c, e <= d
            PROVE  e < a
        BY <4>2
      <4>3. QED BY <2>2, <3>5, <4>1, <4>2
    <3>7. Len(t.in.q) < Len(s.in.q) /\ Len(t.in.q) <= Len(s.in.q)
      BY <3>3, <3>5, <3>6
    <3>8. t.parserState = s.parserState /\ t.next = s.next
      BY <2>6, <3>3 DEF Kept
    <3>9. BodyResult(s, t)
      BY <3>7, <3>8, Zenon DEF BodyResult
    <3>10. QED BY <3>3, <3>9 DEF t
  <2>11. QED BY <2>7, <2>8, <2>9, <2>10
<1>10. QED BY <1>6, <1>7, <1>8, <1>9

\* extractBody and extractBodyTransf.
LEMMA BodyData ==
    ASSUME NEW low, NEW oc, NEW tc, Sizes(low, oc, tc), NEW s \in Data(low, oc, tc),
           s.more = FALSE, NEW copy \in BOOLEAN
    PROVE  BodyStep(s, copy) \in Data(low, oc, tc) /\ BodyResult(s, BodyStep(s, copy))
<1> DEFINE z == TRUE
           u == Copied(s, Len(s.in.q), z)
           t == BodyStep(s, copy)
<1>1. t = CASE s.isChunked                -> ChunkStep(s, copy)
            [] ~s.isChunked /\ s.num >= 0 -> writeToTransfBufWithZero(s)
            [] OTHER                      -> Failed(u)
  BY Zenon DEF BodyStep
<1> HIDE DEF z, t
<1>2. Len(s.in.q) \in Nat /\ s.isChunked \in BOOLEAN /\ s.num \in Int
  BY Fields DEF Data
<1>3. CASE s.isChunked
  <2>1. t = ChunkStep(s, copy)
    BY <1>1, <1>3
  <2>2. QED BY <2>1, ChunkData DEF t
<1>4. CASE ~s.isChunked /\ s.num >= 0
  <2>1. t = writeToTransfBufWithZero(s)
    BY <1>1, <1>4
  <2>2. s.num \in Nat
    BY <1>2, <1>4
  <2>3. t \in Data(low, oc, tc) /\ TransferResult(s, t)
    BY <2>1, <2>2, TransferData
  <2>4. Kept(s, t) /\ (t.ok => Len(t.in.q) <= Len(s.in.q))
    BY <2>3, Zenon DEF TransferResult, Stops, Reads
  <2>5. t.more = FALSE
    BY <2>4, Zenon DEF Kept
  <2>6. BodyResult(s, t)
    BY <2>4, <2>5, Zenon DEF BodyResult, Kept
  <2>7. QED BY <2>3, <2>6 DEF t
<1>5. CASE ~s.isChunked /\ ~(s.num >= 0)
  <2>1. t = Failed(u)
    BY <1>1, <1>5
  <2>2. Len(s.in.q) \in 0..Len(s.in.q)
    BY <1>2
  <2>3. u \in Data(low, oc, tc) /\ Kept(s, u)
    BY <2>2, CopiedData DEF Read
  <2> HIDE DEF u
  <2>4. t \in Data(low, oc, tc) /\ Kept(u, t) /\ t.ok = FALSE
    BY <2>1, <2>3 DEF Failed, Data, Kept
  <2>5. t.ok \in BOOLEAN /\ ~t.ok
    BY <2>4
  <2>6. GivesUp(s, t)
    BY <2>3, <2>4, <2>5, FailureGivesUp
  <2>7. QED BY <2>4, <2>6, GivesUpIsResult DEF t
<1>6. QED BY <1>2, <1>3, <1>4, <1>5

\* Exchanging the buffers exchanges their limits and nothing else.
LEMMA SwappedData ==
    ASSUME NEW low, NEW oc, NEW tc, NEW s \in Data(low, oc, tc)
    PROVE  /\ Swapped(s) \in Data(low, tc, oc)
           /\ Swapped(s).in = s.in /\ Swapped(s).more = s.more /\ Swapped(s).ok = s.ok
           /\ Swapped(s).parserState = s.parserState /\ Swapped(s).next = s.next
BY DEF Swapped, Data

-----------------------------------------------------------------------------
(* The specification. *)

\* How many turns the call may still take, this one included, without reading.
Rank ==
    [st \in ParserStates |->
        CASE st = "RES_VERSION" -> 4
          [] st = "RES_SPACE_TRANSITION" -> 3
          [] st \in {"RES_HEADERS", "RES_FINISHED"} -> 1
          [] OTHER -> 2]

Budget == 3 * (Reserve + sent) + 4

\* The inductive invariant.  The input has given back, of the room that the
\* response's sent symbols took, as much as was read: what is unread is at most what
\* was sent and what the reserved zone holds.
Shape ==
    /\ pc \in {"idle", "parsing", "returned", "released", "exited"}
    /\ res \in Responses
    /\ sent \in 0..Len(Text(res))
    /\ turns \in Nat
    /\ p \in Data(Cap - sent, OutCap, TransfCap)
    /\ p.more = FALSE

\* What comes after the blanks is never the blanks again.
Planned(s) == s.parserState = "RES_SPACE_TRANSITION" => s.next \in {"STATUS"} \cup Checks

\* Every turn of the call is paid for: by a symbol with 3, by a state with its rank.
Progress == pc = "parsing" => turns + 3 * Len(p.in.q) + Rank[p.parserState] <= Budget

Inv == Shape /\ Planned(p) /\ Progress /\ EveryCallReturns

\* The sizes the lemmas ask for.
LEMMA ShapeSizes ==
    ASSUME Shape
    PROVE  Sizes(Cap - sent, OutCap, TransfCap) /\ sent \in Nat
<1>1. Len(Text(res)) \in Nat
  BY ResponseAssumption DEF Shape
<1>2. sent \in Nat
  BY <1>1 DEF Shape
<1>3. QED BY <1>2, BufferAssumption, OutAssumption DEF Sizes

\* The ranks are from 1 to 4.
LEMMA RankType == Rank \in [ParserStates -> 1..4]
BY DEF Rank

\* A call that still has a rank to spend may take another turn.
LEMMA OneMore ==
    ASSUME NEW a \in Nat, NEW b \in Nat, NEW c \in 1..4, NEW d \in Nat, a + 3 * b + c <= d
    PROVE  a + 1 <= d
OBVIOUS

\* The invariant implies the types.
LEMMA InvType ==
    ASSUME Inv
    PROVE  TypeOK
<1>1. p \in Data(Cap - sent, OutCap, TransfCap)
  BY DEF Inv, Shape
<1>2. p.in \in Inputs(Cap - sent) /\ p.out \in Outputs(OutCap) /\ p.transf \in Outputs(TransfCap)
  BY <1>1, Fields
<1>3. p.in.room \in 0..Cap /\ Len(p.in.q) + p.in.room <= Cap + Reserve
  BY <1>2 DEF Inputs
<1>4. p.out.room \in 0..OutCap /\ Len(p.out.q) + p.out.room = OutCap
      /\ p.transf.room \in 0..TransfCap /\ Len(p.transf.q) + p.transf.room = TransfCap
  BY <1>2 DEF Outputs
<1>5. p.parserState \in ParserStates /\ p.next \in ParserStates /\ p.state \in Results
      /\ p.num \in Int /\ p.num >= NO_BODY_LENGTH /\ p.status \in Nat
  BY <1>1 DEF Data
<1>6. QED BY <1>3, <1>4, <1>5 DEF Inv, Shape, TypeOK, Results

\* The invariant holds initially.
LEMMA InitInv ==
    ASSUME Init
    PROVE  Inv
<1>1. res \in Responses /\ sent = 0 /\ turns = 0 /\ pc = "idle"
      /\ p = [defaultResponseStruct EXCEPT !.withTransf = res.transf]
  BY DEF Init
<1>2. res.transf \in BOOLEAN /\ Len(Text(res)) \in Nat
  <2>1. res.transf \in BOOLEAN /\ Text(res) \in Seq({Text(res)[k] : k \in DOMAIN Text(res)})
    BY <1>1, ResponseAssumption, Zenon
  <2>2. QED BY <2>1
<1>3. /\ NewQueue(Cap) \in Inputs(Cap - sent)
      /\ NewQueue(OutCap) \in Outputs(OutCap) /\ NewQueue(TransfCap) \in Outputs(TransfCap)
  BY <1>1, BufferAssumption, OutAssumption DEF NewQueue, Inputs, Outputs
<1>4. p \in Data(Cap - sent, OutCap, TransfCap) /\ p.more = FALSE /\ p.parserState = "RES_VERSION"
  <2> DEFINE b == res.transf
             i == NewQueue(Cap)
             o == NewQueue(OutCap)
             x == NewQueue(TransfCap)
  <2>1. p = [parserState |-> "RES_VERSION", next |-> "RES_VERSION", empty |-> FALSE, ok |-> TRUE,
             state |-> "RES_OK", version |-> "UNDEFINED", status |-> 0, num |-> NO_BODY_LENGTH,
             cEncoding |-> "IDENTITY", isClose |-> FALSE, isChunked |-> FALSE, withTransf |-> b,
             more |-> FALSE, in |-> i, out |-> o, transf |-> x]
    BY <1>1 DEF defaultResponseStruct
  <2>2. b \in BOOLEAN /\ i \in Inputs(Cap - sent) /\ o \in Outputs(OutCap) /\ x \in Outputs(TransfCap)
    BY <1>2, <1>3
  <2> HIDE DEF b, i, o, x
  <2>3. QED BY <2>1, <2>2 DEF Data, ParserStates, Results, NO_BODY_LENGTH
<1>5. Shape
  BY <1>1, <1>2, <1>4 DEF Shape
<1>6. Planned(p) /\ Progress
  BY <1>1, <1>4 DEF Planned, Progress
<1>7. EveryCallReturns
  BY <1>1, BufferAssumption DEF EveryCallReturns
<1>8. QED BY <1>5, <1>6, <1>7 DEF Inv

\* The loop goes on from s in another state: the turn was paid for.
LEMMA GoKeeps ==
    ASSUME Inv, pc = "parsing", NEW s \in Data(Cap - sent, OutCap, TransfCap), s.more = FALSE,
           NEW st \in ParserStates, Go(s, st), Stay,
           st = "RES_SPACE_TRANSITION" => s.next \in {"STATUS"} \cup Checks,
           3 * Len(s.in.q) + Rank[st] < 3 * Len(p.in.q) + Rank[p.parserState]
    PROVE  Inv'
<1>1. p' = [s EXCEPT !.parserState = st] /\ pc' = pc /\ turns' = turns + 1
      /\ res' = res /\ sent' = sent
  BY DEF Go, Stay
<1>2. p' \in Data(Cap - sent, OutCap, TransfCap) /\ p'.more = FALSE /\ p'.parserState = st
      /\ p'.next = s.next /\ p'.in = s.in
  BY <1>1 DEF Data
<1>3. Shape /\ Progress /\ sent \in Nat
  BY ShapeSizes DEF Inv
<1>4. Len(s.in.q) \in Nat /\ Len(p.in.q) \in Nat /\ p.parserState \in ParserStates /\ turns \in Nat
  BY <1>3, Fields DEF Shape
<1>5. Rank[st] \in 1..4 /\ Rank[p.parserState] \in 1..4
  BY <1>4, RankType
<1>6. Shape'
  BY <1>1, <1>2, <1>3, <1>4 DEF Shape
<1>7. Planned(p)'
  BY <1>2 DEF Planned
<1>8. turns + 3 * Len(p.in.q) + Rank[p.parserState] <= Budget /\ Budget \in Nat /\ Budget' = Budget
  BY <1>1, <1>3, BufferAssumption DEF Progress, Budget
<1>9. turns' + 3 * Len(p'.in.q) + Rank[p'.parserState] <= Budget
  <2>0. ASSUME NEW a \in Nat, NEW b \in Nat, NEW c \in Nat, NEW d \in 1..4, NEW e \in 1..4,
               NEW f \in Nat, 3 * b + d < 3 * c + e, a + 3 * c + e <= f
        PROVE  a + 1 + 3 * b + d <= f
    BY <2>0
  <2>1. turns + 1 + 3 * Len(s.in.q) + Rank[st] <= Budget
    BY <1>4, <1>5, <1>8, <2>0
  <2>2. QED BY <1>1, <1>2, <2>1
<1>10. Progress'
  BY <1>8, <1>9 DEF Progress
<1>11. EveryCallReturns'
  <2>1. turns + 1 <= Budget
    BY <1>4, <1>5, <1>8, OneMore
  <2>2. QED BY <1>1, <2>1 DEF EveryCallReturns, Budget
<1>12. QED BY <1>6, <1>7, <1>10, <1>11 DEF Inv

\* The call ends.
LEMMA ReturnKeeps ==
    ASSUME Inv, pc = "parsing", NEW s \in Data(Cap - sent, OutCap, TransfCap), s.more = FALSE,
           Planned(s), Return(s), Stay
    PROVE  Inv'
<1> DEFINE e == IF s.empty THEN s.state ELSE ErrorOf(s)
<1>1. p' = [s EXCEPT !.state = e] /\ pc' = "returned" /\ turns' = turns + 1
      /\ res' = res /\ sent' = sent
  BY DEF Return, Stay
<1>2. e \in Results
  BY DEF Data, ErrorOf, Results
<1> HIDE DEF e
<1>3. p' \in Data(Cap - sent, OutCap, TransfCap) /\ p'.more = FALSE
      /\ p'.parserState = s.parserState /\ p'.next = s.next
  BY <1>1, <1>2 DEF Data
<1>4. Shape /\ Progress /\ sent \in Nat
  BY ShapeSizes DEF Inv
<1>5. Len(p.in.q) \in Nat /\ p.parserState \in ParserStates /\ turns \in Nat
  BY <1>4, Fields DEF Shape
<1>6. Rank[p.parserState] \in 1..4
  BY <1>5, RankType
<1>7. Shape'
  BY <1>1, <1>3, <1>4, <1>5 DEF Shape
<1>8. Planned(p)' /\ Progress'
  BY <1>1, <1>3 DEF Planned, Progress
<1>9. EveryCallReturns'
  <2>1. turns + 3 * Len(p.in.q) + Rank[p.parserState] <= Budget /\ Budget \in Nat
    BY <1>4, BufferAssumption DEF Progress, Budget
  <2>2. turns + 1 <= Budget
    BY <1>5, <1>6, <2>1, OneMore
  <2>3. QED BY <1>1, <2>2 DEF EveryCallReturns, Budget
<1>10. QED BY <1>7, <1>8, <1>9 DEF Inv

\* The ranks, state by state.
LEMMA Ranks ==
    /\ Rank["RES_VERSION"] = 4 /\ Rank["RES_SPACE_TRANSITION"] = 3 /\ Rank["STATUS"] = 2
    /\ Rank["RES_HEADERS"] = 1 /\ Rank["RES_FINISHED"] = 1
    /\ Rank["BODY_NORMAL"] = 2 /\ Rank["BODY_TRANSFORMATION"] = 2
    /\ \A st \in Checks : Rank[st] = 2 /\ st \in ParserStates
BY DEF Rank, ParserStates, Checks

\* What the steps of the loop start from.
LEMMA AtState ==
    ASSUME Inv, NEW st, At(st)
    PROVE  /\ pc = "parsing" /\ p.parserState = st /\ Planned(p)
           /\ Sizes(Cap - sent, OutCap, TransfCap)
           /\ p \in Data(Cap - sent, OutCap, TransfCap) /\ p.more = FALSE
           /\ Len(p.in.q) \in Nat
<1>1. Shape
  BY DEF Inv
<1>2. p \in Data(Cap - sent, OutCap, TransfCap)
  BY <1>1 DEF Shape
<1>3. Len(p.in.q) \in Nat
  BY <1>2, Fields
<1>4. QED BY <1>1, <1>2, <1>3, ShapeSizes DEF At, Inv, Shape

\* The blanks are followed by a state of rank 2.
LEMMA SpaceTransitionKeeps ==
    ASSUME Inv, SpaceTransition
    PROVE  Inv'
<1> DEFINE s == checkSpaces(p)
           S == "RES_SPACE_TRANSITION"
<1>1. At(S) /\ Stay /\ (IF s.ok THEN Go(s, s.next) ELSE Return(s))
  BY Zenon DEF SpaceTransition
<1>2. /\ pc = "parsing" /\ p.parserState = S /\ Planned(p)
      /\ Sizes(Cap - sent, OutCap, TransfCap)
      /\ p \in Data(Cap - sent, OutCap, TransfCap) /\ p.more = FALSE
      /\ Len(p.in.q) \in Nat
  BY <1>1, AtState
<1>3. s \in Data(Cap - sent, OutCap, TransfCap) /\ Result(p, s)
  BY <1>2, CheckSpacesData
<1> HIDE DEF s
<1>4. Kept(p, s) /\ s.ok \in BOOLEAN /\ Len(s.in.q) \in Nat
  BY <1>3, Fields DEF Result
<1>5. s.more = FALSE /\ Planned(s) /\ s.next \in {"STATUS"} \cup Checks
  BY <1>2, <1>4 DEF Kept, Planned
<1>6. CASE s.ok
  <2>1. Go(s, s.next)
    BY <1>1, <1>6
  <2>2. Len(s.in.q) <= Len(p.in.q)
    BY <1>3, <1>6 DEF Result, Reads
  <2>3. s.next # S /\ s.next \in ParserStates /\ Rank[s.next] = 2 /\ Rank[p.parserState] = 3
    BY <1>2, <1>5, Ranks DEF Checks, ParserStates
  <2>4. 3 * Len(s.in.q) + 2 < 3 * Len(p.in.q) + 3
    BY <1>2, <1>4, <2>2
  <2>5. QED BY <1>1, <1>2, <1>3, <1>5, <2>1, <2>3, <2>4, GoKeeps
<1>7. CASE ~s.ok
  <2>1. Return(s)
    BY <1>1, <1>7
  <2>2. QED BY <1>1, <1>2, <1>3, <1>5, <2>1, ReturnKeeps
<1>8. QED BY <1>6, <1>7

\* The version is followed by the blanks.
LEMMA VersionKeeps ==
    ASSUME Inv, Version
    PROVE  Inv'
<1> DEFINE s == extractHttpVersion(p)
           u == [s EXCEPT !.next = "STATUS"]
           S == "RES_SPACE_TRANSITION"
<1>1. At("RES_VERSION") /\ Stay /\ (IF s.ok THEN Go(u, S) ELSE Return(s))
  BY Zenon DEF Version
<1>2. /\ pc = "parsing" /\ p.parserState = "RES_VERSION"
      /\ Sizes(Cap - sent, OutCap, TransfCap)
      /\ p \in Data(Cap - sent, OutCap, TransfCap) /\ p.more = FALSE
      /\ Len(p.in.q) \in Nat
  BY <1>1, AtState
<1>3. s \in Data(Cap - sent, OutCap, TransfCap) /\ Result(p, s)
  BY <1>2, VersionData
<1> HIDE DEF s
<1>4. Kept(p, s) /\ s.ok \in BOOLEAN /\ Len(s.in.q) \in Nat
  BY <1>3, Fields DEF Result
<1>5. s.more = FALSE /\ Planned(s)
  BY <1>2, <1>4 DEF Kept, Planned
<1>6. CASE s.ok
  <2>1. Go(u, S)
    BY <1>1, <1>6
  <2>2. u \in Data(Cap - sent, OutCap, TransfCap) /\ u.next = "STATUS" /\ u.in = s.in /\ u.more = FALSE
    BY <1>3, <1>5 DEF Data, ParserStates
  <2> HIDE DEF u
  <2>3. Len(s.in.q) <= Len(p.in.q)
    BY <1>3, <1>6 DEF Result, Reads
  <2>4. 3 * Len(u.in.q) + 3 < 3 * Len(p.in.q) + 4
    BY <1>2, <1>4, <2>2, <2>3
  <2>5. S \in ParserStates /\ Rank[S] = 3 /\ Rank[p.parserState] = 4
        /\ u.next \in {"STATUS"} \cup Checks
    BY <1>2, <2>2, Ranks DEF ParserStates
  <2>6. QED BY <1>1, <1>2, <2>1, <2>2, <2>4, <2>5, GoKeeps
<1>7. CASE ~s.ok
  <2>1. Return(s)
    BY <1>1, <1>7
  <2>2. QED BY <1>1, <1>2, <1>3, <1>5, <2>1, ReturnKeeps
<1>8. QED BY <1>6, <1>7

\* The status is followed by the headers.
LEMMA StatusKeeps ==
    ASSUME Inv, Status
    PROVE  Inv'
<1> DEFINE s == extractStatus(p)
           S == "RES_HEADERS"
<1>1. At("STATUS") /\ Stay /\ (IF s.ok THEN Go(s, S) ELSE Return(s))
  BY Zenon DEF Status
<1>2. /\ pc = "parsing" /\ p.parserState = "STATUS"
      /\ Sizes(Cap - sent, OutCap, TransfCap)
      /\ p \in Data(Cap - sent, OutCap, TransfCap) /\ p.more = FALSE
      /\ Len(p.in.q) \in Nat
  BY <1>1, AtState
<1>3. s \in Data(Cap - sent, OutCap, TransfCap) /\ Result(p, s)
  BY <1>2, StatusData
<1> HIDE DEF s
<1>4. Kept(p, s) /\ s.ok \in BOOLEAN /\ Len(s.in.q) \in Nat
  BY <1>3, Fields DEF Result
<1>5. s.more = FALSE /\ Planned(s)
  BY <1>2, <1>4 DEF Kept, Planned
<1>6. CASE s.ok
  <2>1. Go(s, S)
    BY <1>1, <1>6
  <2>2. Len(s.in.q) <= Len(p.in.q)
    BY <1>3, <1>6 DEF Result, Reads
  <2>3. 3 * Len(s.in.q) + 1 < 3 * Len(p.in.q) + 2
    BY <1>2, <1>4, <2>2
  <2>4. S \in ParserStates /\ S # "RES_SPACE_TRANSITION" /\ Rank[S] = 1 /\ Rank[p.parserState] = 2
    BY <1>2, Ranks DEF ParserStates
  <2>5. QED BY <1>1, <1>2, <1>3, <1>5, <2>1, <2>3, <2>4, GoKeeps
<1>7. CASE ~s.ok
  <2>1. Return(s)
    BY <1>1, <1>7
  <2>2. QED BY <1>1, <1>2, <1>3, <1>5, <2>1, ReturnKeeps
<1>8. QED BY <1>6, <1>7

\* A turn of the headers that goes on anywhere has read a symbol.
LEMMA HeadersKeeps ==
    ASSUME Inv, Headers
    PROVE  Inv'
<1> DEFINE s == HeaderStep(p)
           H == "RES_HEADERS"
           S == "RES_SPACE_TRANSITION"
           B == IF s.withTransf THEN "BODY_TRANSFORMATION" ELSE "BODY_NORMAL"
<1>1. At(H) /\ Stay /\ (CASE s.next = H /\ s.empty  -> Return(s)
                          [] s.next = H /\ ~s.empty -> Go(s, H)
                          [] s.next = "RES_FINISHED" -> Go(s, B)
                          [] OTHER -> Go(s, S))
  BY Zenon DEF Headers
<1>2. /\ pc = "parsing" /\ p.parserState = H
      /\ Sizes(Cap - sent, OutCap, TransfCap)
      /\ p \in Data(Cap - sent, OutCap, TransfCap) /\ p.more = FALSE
      /\ Len(p.in.q) \in Nat
  BY <1>1, AtState
<1>3. s \in Data(Cap - sent, OutCap, TransfCap) /\ TurnResult(p, s)
  BY <1>2, HeaderData
<1>4. B \in {"BODY_NORMAL", "BODY_TRANSFORMATION"}
  OBVIOUS
<1> HIDE DEF s, B
<1>5. Len(s.in.q) \in Nat /\ s.empty \in BOOLEAN
  BY <1>3, Fields
<1>6. s.more = FALSE /\ Planned(s) /\ s.next \in {H, "RES_FINISHED"} \cup Checks
  BY <1>2, <1>3 DEF TurnResult, Planned
<1>7. Rank[p.parserState] = 1 /\ Rank[H] = 1 /\ Rank[S] = 3 /\ Rank[B] = 2
      /\ H \in ParserStates /\ S \in ParserStates /\ B \in ParserStates /\ B # S
  BY <1>2, <1>4, Ranks DEF ParserStates
<1>8. CASE s.next = H /\ s.empty
  <2>1. Return(s)
    BY <1>1, <1>8, Zenon
  <2>2. QED BY <1>1, <1>2, <1>3, <1>6, <2>1, ReturnKeeps
<1>9. CASE s.next # H \/ ~s.empty
  <2>1. Len(s.in.q) < Len(p.in.q)
    BY <1>3, <1>9 DEF TurnResult
  <2>2. \A k \in 1..3 : 3 * Len(s.in.q) + k < 3 * Len(p.in.q) + 1
    BY <1>2, <1>5, <2>1
  <2>3. CASE s.next = H /\ ~s.empty
    <3>1. Go(s, H)
      BY <1>1, <2>3, Zenon
    <3>2. 3 * Len(s.in.q) + 1 < 3 * Len(p.in.q) + 1
      BY <2>2
    <3>3. QED BY <1>1, <1>2, <1>3, <1>6, <1>7, <3>1, <3>2, GoKeeps
  <2>4. CASE s.next = "RES_FINISHED"
    <3>1. Go(s, B)
      BY <1>1, <2>4
    <3>2. 3 * Len(s.in.q) + 2 < 3 * Len(p.in.q) + 1
      BY <2>2
    <3>3. QED BY <1>1, <1>2, <1>3, <1>6, <1>7, <3>1, <3>2, GoKeeps
  <2>5. CASE s.next \in Checks
    <3>1. s.next # H /\ s.next # "RES_FINISHED"
      BY <2>5 DEF Checks
    <3>2. Go(s, S)
      BY <1>1, <3>1
    <3>3. 3 * Len(s.in.q) + 3 < 3 * Len(p.in.q) + 1
      BY <2>2
    <3>4. QED BY <1>1, <1>2, <1>3, <1>6, <1>7, <2>5, <3>2, <3>3, GoKeeps
  <2>6. QED BY <1>6, <1>9, <2>3, <2>4, <2>5
<1>10. QED BY <1>8, <1>9

\* A check goes back to the headers, or ends the call.
LEMMA CheckKeeps ==
    ASSUME Inv, NEW st \in Checks, NEW s, Check(st, s),
           s \in Data(Cap - sent, OutCap, TransfCap), CheckResult(p, s)
    PROVE  Inv'
<1> DEFINE H == "RES_HEADERS"
<1>1. At(st) /\ Stay /\ (IF ~s.ok /\ s.empty THEN Return(s) ELSE Go(s, H))
  BY Zenon DEF Check
<1>2. /\ pc = "parsing" /\ p.parserState = st
      /\ p \in Data(Cap - sent, OutCap, TransfCap) /\ p.more = FALSE
      /\ Len(p.in.q) \in Nat
  BY <1>1, AtState
<1>3. Kept(p, s) /\ (Reads(p, s) \/ (~s.ok /\ s.empty))
  BY Zenon DEF CheckResult, Stops, Reads
<1>4. s.ok \in BOOLEAN /\ s.empty \in BOOLEAN /\ Len(s.in.q) \in Nat
  BY Fields
<1>5. s.more = FALSE /\ Planned(s)
  BY <1>2, <1>3 DEF Kept, Planned, Checks
<1>6. CASE ~s.ok /\ s.empty
  <2>1. Return(s)
    BY <1>1, <1>6
  <2>2. QED BY <1>1, <1>2, <1>5, <2>1, ReturnKeeps
<1>7. CASE ~(~s.ok /\ s.empty)
  <2>1. Go(s, H)
    BY <1>1, <1>7
  <2>2. Len(s.in.q) <= Len(p.in.q)
    BY <1>3, <1>7, Zenon DEF Reads
  <2>3. 3 * Len(s.in.q) + 1 < 3 * Len(p.in.q) + 2
    BY <1>2, <1>4, <2>2
  <2>4. H \in ParserStates /\ H # "RES_SPACE_TRANSITION" /\ Rank[H] = 1 /\ Rank[p.parserState] = 2
    BY <1>2, Ranks DEF ParserStates
  <2>5. QED BY <1>1, <1>2, <1>5, <2>1, <2>3, <2>4, GoKeeps
<1>8. QED BY <1>6, <1>7

\* The five checks of the headers.
LEMMA ChecksKeep ==
    ASSUME Inv,
           LengthCheck \/ EncodingCheck \/ ChunkedCheck \/ ConnectionCheck \/ TypeCheck
    PROVE  Inv'
<1>1. Sizes(Cap - sent, OutCap, TransfCap) /\ p \in Data(Cap - sent, OutCap, TransfCap)
  BY ShapeSizes DEF Inv, Shape
<1>2. "LENGTH_CHECK" \in Checks /\ "ENCODING_CHECK" \in Checks /\ "CHUNKED_CHECK" \in Checks
      /\ "CONNECTION_CHECK" \in Checks /\ "TYPE_CHECK" \in Checks
  BY DEF Checks
<1>3. CASE LengthCheck
  BY <1>1, <1>2, <1>3, LengthData, CheckKeeps DEF LengthCheck
<1>4. CASE EncodingCheck
  BY <1>1, <1>2, <1>4, EncodingData, CheckKeeps DEF EncodingCheck
<1>5. CASE ChunkedCheck
  BY <1>1, <1>2, <1>5, ChunkedData, CheckKeeps DEF ChunkedCheck
<1>6. CASE ConnectionCheck
  BY <1>1, <1>2, <1>6, ConnectionData, CheckKeeps DEF ConnectionCheck
<1>7. CASE TypeCheck
  BY <1>1, <1>2, <1>7, TypeData, CheckKeeps DEF TypeCheck
<1>8. QED BY <1>3, <1>4, <1>5, <1>6, <1>7

\* The next chunk costs a symbol, and the end of the body a rank.
LEMMA BodyKeeps ==
    ASSUME Inv, NEW st \in {"BODY_NORMAL", "BODY_TRANSFORMATION"}, At(st), NEW s, Body(s), Stay,
           s \in Data(Cap - sent, OutCap, TransfCap), BodyResult(p, s)
    PROVE  Inv'
<1> DEFINE u == [s EXCEPT !.more = FALSE]
           F == "RES_FINISHED"
<1>1. (CASE s.more            -> Go(u, p.parserState)
         [] ~s.more /\ s.ok   -> Go(s, F)
         [] ~s.more /\ ~s.ok  -> Return(s))
  BY Zenon DEF Body
<1>2. /\ pc = "parsing" /\ p.parserState = st
      /\ p \in Data(Cap - sent, OutCap, TransfCap)
      /\ Len(p.in.q) \in Nat
  BY AtState
<1>3. s.ok \in BOOLEAN /\ s.more \in BOOLEAN /\ Len(s.in.q) \in Nat
  BY Fields
<1>4. Planned(s) /\ s.parserState = st
  BY <1>2 DEF BodyResult, Planned
<1>5. st \in ParserStates /\ F \in ParserStates /\ st # "RES_SPACE_TRANSITION"
      /\ F # "RES_SPACE_TRANSITION" /\ Rank[st] = 2 /\ Rank[F] = 1
  BY Ranks DEF ParserStates
<1>6. CASE s.more
  <2>1. Go(u, st)
    BY <1>1, <1>2, <1>6
  <2>2. u \in Data(Cap - sent, OutCap, TransfCap) /\ u.more = FALSE /\ u.in = s.in
    BY DEF Data
  <2>3. Len(s.in.q) < Len(p.in.q)
    BY <1>6 DEF BodyResult
  <2> HIDE DEF u
  <2>4. 3 * Len(u.in.q) + 2 < 3 * Len(p.in.q) + 2
    BY <1>2, <1>3, <2>2, <2>3
  <2>5. QED BY <1>2, <1>5, <2>1, <2>2, <2>4, GoKeeps
<1>7. CASE ~s.more /\ s.ok
  <2>1. Go(s, F) /\ s.more = FALSE
    BY <1>1, <1>3, <1>7
  <2>2. Len(s.in.q) <= Len(p.in.q)
    BY <1>7 DEF BodyResult
  <2>3. 3 * Len(s.in.q) + 1 < 3 * Len(p.in.q) + 2
    BY <1>2, <1>3, <2>2
  <2>4. QED BY <1>2, <1>5, <2>1, <2>3, GoKeeps
<1>8. CASE ~s.more /\ ~s.ok
  <2>1. Return(s) /\ s.more = FALSE
    BY <1>1, <1>3, <1>8
  <2>2. QED BY <1>2, <1>4, <2>1, ReturnKeeps
<1>9. QED BY <1>3, <1>6, <1>7, <1>8

\* The body as it is.
LEMMA BodyNormalKeeps ==
    ASSUME Inv, BodyNormal
    PROVE  Inv'
<1> DEFINE yes == TRUE
           s == BodyStep(p, yes)
           u == [NoInput(p) EXCEPT !.parserState = "RES_FINISHED"]
           none == ~p.isChunked /\ p.num < 0 /\ p.status # STATUS_OK
           N == "BODY_NORMAL"
<1>1. At(N) /\ Stay /\ (IF none THEN Return(u) ELSE Body(s))
  BY Zenon DEF BodyNormal
<1>2. /\ pc = "parsing" /\ p.parserState = N
      /\ Sizes(Cap - sent, OutCap, TransfCap)
      /\ p \in Data(Cap - sent, OutCap, TransfCap) /\ p.more = FALSE
  BY <1>1, AtState
<1>3. yes \in BOOLEAN
  OBVIOUS
<1> HIDE DEF yes, none
<1>4. CASE none
  <2>1. Return(u)
    BY <1>1, <1>4
  <2>2. u \in Data(Cap - sent, OutCap, TransfCap) /\ u.more = FALSE
        /\ u.parserState = "RES_FINISHED"
    BY <1>2 DEF NoInput, Data, ParserStates
  <2> HIDE DEF u
  <2>3. Planned(u)
    BY <2>2 DEF Planned
  <2>4. QED BY <1>1, <1>2, <2>1, <2>2, <2>3, ReturnKeeps
<1>5. CASE ~none
  <2>1. Body(s)
    BY <1>1, <1>5
  <2>2. s \in Data(Cap - sent, OutCap, TransfCap) /\ BodyResult(p, s)
    BY <1>2, <1>3, BodyData
  <2> HIDE DEF s
  <2>3. QED BY <1>1, <2>1, <2>2, BodyKeeps
<1>6. QED BY <1>4, <1>5

\* The body for the transformation.
LEMMA BodyTransformationKeeps ==
    ASSUME Inv, BodyTransformation
    PROVE  Inv'
<1> DEFINE no == FALSE
           v == Swapped(p)
           w == BodyStep(v, no)
           s == Swapped(w)
           X == "BODY_TRANSFORMATION"
<1>1. At(X) /\ Stay /\ Body(s)
  BY Zenon DEF BodyTransformation
<1>2. /\ Sizes(Cap - sent, OutCap, TransfCap)
      /\ p \in Data(Cap - sent, OutCap, TransfCap) /\ p.more = FALSE
  BY <1>1, AtState
<1>3. no \in BOOLEAN
  OBVIOUS
<1> HIDE DEF no
<1>4. v \in Data(Cap - sent, TransfCap, OutCap) /\ v.more = FALSE /\ v.in = p.in
      /\ v.parserState = p.parserState /\ v.next = p.next
  BY <1>2, SwappedData
<1>5. Sizes(Cap - sent, TransfCap, OutCap)
  BY <1>2 DEF Sizes
<1> HIDE DEF v
<1>6. w \in Data(Cap - sent, TransfCap, OutCap) /\ BodyResult(v, w)
  BY <1>3, <1>4, <1>5, BodyData
<1> HIDE DEF w
<1>7. s \in Data(Cap - sent, OutCap, TransfCap) /\ s.in = w.in /\ s.more = w.more /\ s.ok = w.ok
      /\ s.parserState = w.parserState /\ s.next = w.next
  BY <1>6, SwappedData
<1> HIDE DEF s
<1>8. BodyResult(p, s)
  BY <1>4, <1>6, <1>7, Zenon DEF BodyResult
<1>9. QED BY <1>1, <1>7, <1>8, BodyKeeps

\* The last turn of the last call.
LEMMA FinishedKeeps ==
    ASSUME Inv, Finished
    PROVE  Inv'
<1>1. At("RES_FINISHED") /\ pc' = "returned" /\ p' = p /\ turns' = turns + 1
      /\ res' = res /\ sent' = sent
  BY DEF Finished, Stay
<1>2. Shape /\ Progress /\ Planned(p) /\ sent \in Nat
  BY ShapeSizes DEF Inv
<1>3. pc = "parsing" /\ p.parserState = "RES_FINISHED" /\ Len(p.in.q) \in Nat /\ turns \in Nat
  BY <1>1, <1>2, AtState DEF Shape
<1>4. Rank[p.parserState] \in 1..4
  BY <1>3, RankType DEF ParserStates
<1>5. turns + 1 <= Budget
  <2>1. turns + 3 * Len(p.in.q) + Rank[p.parserState] <= Budget /\ Budget \in Nat
    BY <1>2, <1>3, BufferAssumption DEF Progress, Budget
  <2>2. QED BY <1>3, <1>4, <2>1, OneMore
<1>6. Shape'
  BY <1>1, <1>2, <1>3 DEF Shape
<1>7. Planned(p)' /\ Progress' /\ EveryCallReturns'
  BY <1>1, <1>2, <1>5 DEF Planned, Progress, EveryCallReturns, Budget
<1>8. QED BY <1>6, <1>7 DEF Inv

\* Nothing changes when the call returns.
LEMMA ReturnedKeeps ==
    ASSUME Inv, Returned
    PROVE  Inv'
<1>1. pc' \in {"exited", "released", "idle"} /\ p' = p /\ turns' = turns /\ res' = res /\ sent' = sent
  <2>1. pc' = CASE p.state # "RES_OK" -> "exited"
                [] p.state = "RES_OK" /\ p.parserState = "RES_FINISHED" -> "released"
                [] OTHER -> "idle"
    BY DEF Returned
  <2>2. pc' \in {"exited", "released", "idle"}
    BY <2>1
  <2>3. QED BY <2>2 DEF Returned
<1>2. Shape'
  BY <1>1 DEF Inv, Shape
<1>3. Planned(p)' /\ Progress' /\ EveryCallReturns'
  BY <1>1 DEF Inv, Planned, Progress, EveryCallReturns
<1>4. QED BY <1>2, <1>3 DEF Inv

\* A call begins with what was pushed back and what was read: at most the reserved
\* zone and all that was ever sent.
LEMMA WakeKeeps ==
    ASSUME Inv, NEW n \in 1..Cap, Wake(n)
    PROVE  Inv'
<1> DEFINE T == Text(res)
           x == SubSeq(T, sent + 1, sent + n)
           i == Filled(p.in, x)
<1>1. /\ n \in 1..Smaller(Len(T) - sent, p.in.room)
      /\ p' = [p EXCEPT !.in = i, !.empty = FALSE]
      /\ pc' = "parsing" /\ sent' = sent + n /\ turns' = 0 /\ res' = res
  BY Zenon DEF Wake
<1>2. res \in Responses /\ sent \in 0..Len(T) /\ p \in Data(Cap - sent, OutCap, TransfCap)
      /\ p.more = FALSE /\ Planned(p)
  BY DEF Inv, Shape
<1>3. T \in Seq(Symbols) /\ Len(T) \in Nat
  <2>1. T \in Seq({T[k] : k \in DOMAIN T})
    BY <1>2, ResponseAssumption, Zenon
  <2>2. {T[k] : k \in DOMAIN T} \subseteq Symbols
    BY <1>2 DEF Symbols
  <2> HIDE DEF T
  <2>3. T \in Seq(Symbols)
    BY <2>1, <2>2, SeqMonotonic
  <2>4. QED BY <2>3
<1> HIDE DEF T
<1>4. p.in \in Inputs(Cap - sent) /\ p.in.q \in Seq(Symbols) /\ Len(p.in.q) \in Nat
      /\ p.parserState \in ParserStates
  BY <1>2, Fields
<1>5. p.in.room \in 0..Cap /\ Cap - sent <= p.in.room /\ Len(p.in.q) + p.in.room <= Cap + Reserve
  BY <1>4 DEF Inputs
<1>6. n \in Nat /\ n <= Len(T) - sent /\ n <= p.in.room /\ sent \in Nat /\ n >= 1
  BY <1>1, <1>2, <1>3, <1>5, BufferAssumption DEF Smaller
<1>7. x \in Seq(Symbols) /\ Len(x) = n
  <2>1. sent + 1 \in 1..(Len(T) + 1) /\ sent + n \in sent..Len(T)
    BY <1>3, <1>6
  <2>2. QED BY <1>3, <1>6, <2>1, SubSeqProperties
<1> HIDE DEF x
<1>8. p.in.q \o x \in Seq(Symbols) /\ Len(p.in.q \o x) = Len(p.in.q) + n
  BY <1>4, <1>7, ConcatProperties
<1>9. i = [q |-> p.in.q \o x, room |-> p.in.room - n]
  BY <1>7 DEF Filled
<1> HIDE DEF i
<1>10. i \in Inputs(Cap - (sent + n)) /\ Len(i.q) <= Reserve + (sent + n) /\ Len(i.q) \in Nat
  <2>1. ASSUME NEW r \in 0..Cap, NEW k \in Nat, Cap - sent <= r, k + r <= Cap + Reserve, n <= r
        PROVE  /\ r - n \in 0..Cap /\ Cap - (sent + n) <= r - n /\ Cap - (sent + n) \in Int
               /\ (k + n) + (r - n) <= Cap + Reserve /\ k + n <= Reserve + (sent + n)
    BY <1>6, <2>1, BufferAssumption
  <2> DEFINE q == p.in.q \o x
             room == p.in.room - n
             low == Cap - (sent + n)
  <2>2. /\ room \in 0..Cap /\ low <= room /\ low \in Int
        /\ Len(q) + room <= Cap + Reserve /\ Len(q) <= Reserve + (sent + n)
    BY <1>4, <1>5, <1>6, <1>8, <2>1
  <2>3. q \in Seq(Symbols) /\ i = [q |-> q, room |-> room]
    BY <1>8, <1>9
  <2> HIDE DEF q, room, low
  <2>4. i \in Inputs(low) /\ i.q = q /\ Len(q) \in Nat
    BY <2>2, <2>3, MakeInput
  <2>5. QED BY <2>2, <2>4 DEF low
<1>11. p' \in Data(Cap - (sent + n), OutCap, TransfCap) /\ p'.more = FALSE /\ p'.in = i
       /\ p'.parserState = p.parserState /\ p'.next = p.next
  BY <1>1, <1>2, <1>10 DEF Data
<1>12. sent' \in 0..Len(T)
  BY <1>1, <1>3, <1>6
<1>13. Shape'
  BY <1>1, <1>2, <1>11, <1>12 DEF Shape, T
<1>14. Planned(p)'
  BY <1>2, <1>11 DEF Planned
<1>15. Rank[p.parserState] \in 1..4
  BY <1>4, RankType
<1>16. 0 + 3 * Len(i.q) + Rank[p.parserState] <= 3 * (Reserve + (sent + n)) + 4
       /\ 0 <= 3 * (Reserve + (sent + n)) + 4
  BY <1>6, <1>10, <1>15, BufferAssumption
<1>17. Progress' /\ EveryCallReturns'
  BY <1>1, <1>11, <1>16 DEF Progress, EveryCallReturns, Budget
<1>18. QED BY <1>13, <1>14, <1>17 DEF Inv

\* Every step preserves the invariant.
LEMMA NextInv ==
    ASSUME Inv, [Next]_vars
    PROVE  Inv'
<1>1. CASE UNCHANGED vars
  <2>1. p' = p /\ pc' = pc /\ turns' = turns /\ res' = res /\ sent' = sent
    BY <1>1 DEF vars
  <2>2. QED BY <2>1 DEF Inv, Shape, Planned, Progress, Budget, EveryCallReturns
<1>2. CASE checkResponseInner
  BY <1>2, SpaceTransitionKeeps, VersionKeeps, StatusKeeps, HeadersKeeps, ChecksKeep,
     BodyNormalKeeps, BodyTransformationKeeps, FinishedKeeps DEF checkResponseInner
<1>3. CASE Returned
  BY <1>3, ReturnedKeeps
<1>4. CASE \E n \in 1..Cap : Wake(n)
  BY <1>4, WakeKeeps
<1>5. QED BY <1>1, <1>2, <1>3, <1>4 DEF Next

\* The invariant holds always.
LEMMA InvHolds == Spec => []Inv
<1>1. Init => Inv
  BY InitInv
<1>2. Inv /\ [Next]_vars => Inv'
  BY NextInv
<1>3. QED BY <1>1, <1>2, PTL DEF Spec

\* Whatever arrives and however it is cut, every field of the parser keeps a value of
\* its type, no buffer overflows, and what is pushed back stays within the reserved
\* zone in front of the input.
THEOREM ResponseTypeCorrect == Spec => []TypeOK
<1>1. Inv => TypeOK
  BY InvType
<1>2. QED BY <1>1, InvHolds, PTL

\* No response makes the parser loop: a call takes at most three turns for every
\* symbol that has arrived or that fits in the reserved zone, and four more.
THEOREM ResponseCallsReturn == Spec => []EveryCallReturns
<1>1. Inv => EveryCallReturns
  BY DEF Inv
<1>2. QED BY <1>1, InvHolds, PTL
=============================================================================
