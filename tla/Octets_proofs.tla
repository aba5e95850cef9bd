--------------------------- MODULE Octets_proofs ---------------------------
(* Proofs about the octets the codecs are made of, for numbers and octets   *)
(* of any size: the header of an encoding (ber_tlv_tag.c, ber_tlv_length.c, *)
(* der_write_TL), the contents of an INTEGER and the arcs of an OBJECT      *)
(* IDENTIFIER.  The loops of the code are the recursive functions of        *)
(* Shifts; what is known of them comes from the induction proved first.     *)
EXTENDS Tlv, Prim, SequenceTheorems, WellFoundedInduction, TLAPS

(* -- induction ----------------------------------------------------------- *)
LEMMA LeastNatural ==
  ASSUME NEW T, T \subseteq Nat, T # {}
  PROVE  \E n \in T : \A m \in T : n <= m
<1>. DEFINE R == OpToRel(<, Nat)
<1>1. IsWellFoundedOn(R, Nat)
  BY NatLessThanWellFounded
<1>2. \A m, n \in Nat : m < n => <<m, n>> \in R
  BY DEF OpToRel
<1>. HIDE DEF R
<1>3. PICK n \in T : \A m \in T : ~(<<m, n>> \in R)
  BY <1>1, WFMin
<1>4. \A m \in T : ~(m < n)
  BY <1>2, <1>3
<1>5. QED
  BY <1>4

LEMMA Induction ==
  ASSUME NEW T, 0 \in T, \A n \in Nat : n \in T => n + 1 \in T
  PROVE  Nat \subseteq T
<1>. DEFINE U == {n \in Nat : n \notin T}
<1>. SUFFICES ASSUME U # {} PROVE FALSE
  OBVIOUS
<1>1. PICK n \in U : \A m \in U : n <= m
  BY LeastNatural
<1>2. n \in Nat /\ n # 0 /\ n - 1 \in Nat
  OBVIOUS
<1>3. n - 1 \in T
  BY <1>1, <1>2
<1>4. QED
  BY <1>2, <1>3

(* A recursive function over 0..n exists, and its values do not depend on n.*)
Follows(f, start, h, n) == f[0] = start /\ \A i \in 1..n : f[i] = h[<<f[i - 1], i>>]

LEMMA FunctionExists ==
  ASSUME NEW V, NEW start \in V, NEW h \in [V \X Nat -> V], NEW n \in Nat
  PROVE  \E f \in [0..n -> V] : Follows(f, start, h, n)
<1>. DEFINE Is(f, k) == f[0] = start /\ \A i \in 1..k : f[i] = h[<<f[i - 1], i>>]
            T == {k \in Nat : \E f \in [0..k -> V] : Is(f, k)}
<1>1. 0 \in T
  <2>. DEFINE f == [i \in 0..0 |-> start]
  <2>1. f \in [0..0 -> V] /\ Is(f, 0)
    OBVIOUS
  <2>2. QED
    BY <2>1
<1>2. ASSUME NEW k \in Nat, k \in T PROVE k + 1 \in T
  <2>1. PICK f \in [0..k -> V] : Is(f, k)
    BY <1>2
  <2>. DEFINE g == [i \in 0..(k + 1) |-> IF i <= k THEN f[i] ELSE h[<<f[k], k + 1>>]]
  <2>2. g \in [0..(k + 1) -> V]
    OBVIOUS
  <2>3. g[k + 1] = h[<<f[k], k + 1>>] /\ \A i \in 0..k : g[i] = f[i]
    OBVIOUS
  <2>. HIDE DEF g
  <2>4. ASSUME NEW i \in 1..(k + 1) PROVE g[i] = h[<<g[i - 1], i>>]
    <3>1. i - 1 \in 0..k /\ g[i - 1] = f[i - 1]
      BY <2>3
    <3>2. CASE i = k + 1
      BY <2>3, <3>1, <3>2
    <3>3. CASE i # k + 1
      <4>1. i \in 1..k /\ i \in 0..k
        BY <3>3
      <4>2. g[i] = f[i] /\ f[i] = h[<<f[i - 1], i>>]
        BY <4>1, <2>1, <2>3
      <4>3. QED
        BY <4>2, <3>1
    <3>4. QED
      BY <3>2, <3>3
  <2>5. Is(g, k + 1)
    BY <2>1, <2>3, <2>4
  <2>. HIDE DEF Is
  <2>6. QED
    BY <2>2, <2>5
<1>. HIDE DEF T
<1>3. n \in T
  BY <1>1, <1>2, Induction
<1>4. QED
  BY <1>3 DEF T, Follows

InStep(f, g, n) == f[0] = g[0] /\ \A i \in 1..n : f[i - 1] = g[i - 1] => f[i] = g[i]

LEMMA FunctionsAgree ==
  ASSUME NEW n \in Nat, NEW f, NEW g, InStep(f, g, n)
  PROVE  \A i \in 0..n : f[i] = g[i]
<1>0. f[0] = g[0] /\ \A i \in 1..n : f[i - 1] = g[i - 1] => f[i] = g[i]
  BY DEF InStep
<1>. DEFINE T == {i \in Nat : i <= n => f[i] = g[i]}
<1>1. 0 \in T
  BY <1>0
<1>2. ASSUME NEW i \in Nat, i \in T PROVE i + 1 \in T
  <2>. SUFFICES ASSUME i + 1 <= n PROVE f[i + 1] = g[i + 1]
    OBVIOUS
  <2>1. i + 1 \in 1..n /\ (i + 1) - 1 = i /\ f[i] = g[i]
    BY <1>2
  <2>2. QED
    BY <1>0, <2>1
<1>. HIDE DEF T
<1>3. Nat \subseteq T
  BY <1>1, <1>2, Induction
<1>4. QED
  BY <1>3 DEF T

(* The same for functions whose values are integers.                        *)
LEMMA RecursionExists ==
  ASSUME NEW start \in Int, NEW h \in [Int \X Nat -> Int], NEW n \in Nat
  PROVE  \E f \in [0..n -> Int] :
           f[0] = start /\ \A i \in 1..n : f[i] = h[<<f[i - 1], i>>]
<1>1. \E f \in [0..n -> Int] : Follows(f, start, h, n)
  BY FunctionExists
<1>2. QED
  BY <1>1 DEF Follows

LEMMA RecursionAgrees ==
  ASSUME NEW n \in Nat, NEW f, NEW g \in [0..n -> Int], f[0] = g[0],
         \A i \in 1..n : f[i - 1] = g[i - 1] => f[i] = g[i]
  PROVE  \A i \in 0..n : f[i] = g[i]
<1>1. InStep(f, g, n)
  BY DEF InStep
<1>2. QED
  BY <1>1, FunctionsAgree

(* -- shifts -------------------------------------------------------------- *)
(* What the shifts of a number are, for ShiftRight to be cited without its  *)
(* recursion.                                                               *)
LEMMA ShiftRightFunction ==
  ASSUME NEW v \in Int, NEW n \in Nat
  PROVE  \E f \in [0..n -> Int] :
           /\ f[0] = v /\ \A i \in 1..n : f[i] = f[i - 1] \div 2
           /\ ShiftRight(v, n) = f[n]
<1>. DEFINE h == [p \in Int \X Nat |-> p[1] \div 2]
<1>1. h \in [Int \X Nat -> Int]
  OBVIOUS
<1>2. \A i \in Int, k \in Nat : h[<<i, k>>] = i \div 2
  OBVIOUS
<1>. HIDE DEF h
<1>3. PICK g \in [0..n -> Int] : g[0] = v /\ \A i \in 1..n : g[i] = h[<<g[i - 1], i>>]
  BY <1>1, RecursionExists
<1>4. ASSUME NEW i \in 1..n PROVE g[i] = g[i - 1] \div 2
  <2>1. i \in Nat /\ g[i - 1] \in Int
    OBVIOUS
  <2>2. QED
    BY <1>1, <1>2, <1>3, <2>1
<1>5. g = [i \in 0..n |-> IF i = 0 THEN v ELSE g[i - 1] \div 2]
  BY <1>3, <1>4
<1>6. PICK f : /\ f = [i \in 0..n |-> IF i = 0 THEN v ELSE f[i - 1] \div 2]
               /\ ShiftRight(v, n) = f[n]
  BY <1>5 DEF ShiftRight
<1>7. f[0] = v /\ \A i \in 1..n : f[i] = f[i - 1] \div 2
  BY <1>6
<1>8. f[0] = g[0]
  BY <1>3, <1>7
<1>9. \A i \in 1..n : f[i - 1] = g[i - 1] => f[i] = g[i]
  BY <1>4, <1>7
<1>10. \A i \in 0..n : f[i] = g[i]
  BY <1>8, <1>9, RecursionAgrees
<1>11. f \in [0..n -> Int]
  BY <1>6, <1>10
<1>12. QED
  BY <1>6, <1>7, <1>11

LEMMA ShiftRightZero == ASSUME NEW v \in Int PROVE ShiftRight(v, 0) = v
  BY ShiftRightFunction

LEMMA ShiftRightType ==
  ASSUME NEW v \in Int, NEW n \in Nat
  PROVE  ShiftRight(v, n) \in Int
  BY ShiftRightFunction

LEMMA ShiftRightStep ==
  ASSUME NEW v \in Int, NEW n \in Nat
  PROVE  ShiftRight(v, n + 1) = ShiftRight(v, n) \div 2
<1>. SUFFICES ASSUME NEW k \in Nat, k = n + 1 PROVE ShiftRight(v, k) = ShiftRight(v, n) \div 2
  OBVIOUS
<1>0. \E f \in [0..k -> Int] :
        /\ f[0] = v /\ \A i \in 1..k : f[i] = f[i - 1] \div 2
        /\ ShiftRight(v, k) = f[k]
  BY ShiftRightFunction
<1>1. PICK f : /\ f[0] = v /\ \A i \in 1..k : f[i] = f[i - 1] \div 2
               /\ ShiftRight(v, k) = f[k]
  BY <1>0, Zenon
<1>2. PICK g \in [0..n -> Int] :
        /\ g[0] = v /\ \A i \in 1..n : g[i] = g[i - 1] \div 2
        /\ ShiftRight(v, n) = g[n]
  BY ShiftRightFunction
<1>3. f[0] = g[0]
  BY <1>1, <1>2
<1>4. ASSUME NEW i \in 1..n, f[i - 1] = g[i - 1] PROVE f[i] = g[i]
  <2>1. i \in 1..k
    OBVIOUS
  <2>2. QED
    BY <1>1, <1>2, <1>4, <2>1
<1>5. \A i \in 0..n : f[i] = g[i]
  BY <1>3, <1>4, RecursionAgrees
<1>6. k \in 1..k /\ k - 1 = n /\ n \in 0..n
  OBVIOUS
<1>7. QED
  BY <1>1, <1>2, <1>5, <1>6

(* Shifting twice is shifting once by the sum; seven and eight bits at once.*)
LEMMA ShiftRightTwice ==
  ASSUME NEW v \in Int, NEW m \in Nat, NEW n \in Nat
  PROVE  ShiftRight(ShiftRight(v, m), n) = ShiftRight(v, m + n)
<1>. DEFINE T == {k \in Nat : ShiftRight(ShiftRight(v, m), k) = ShiftRight(v, m + k)}
<1>1. ShiftRight(v, m) \in Int
  BY ShiftRightType
<1>2. 0 \in T
  BY <1>1, ShiftRightZero
<1>3. ASSUME NEW k \in Nat, k \in T PROVE k + 1 \in T
  <2>1. ShiftRight(ShiftRight(v, m), k + 1) = ShiftRight(ShiftRight(v, m), k) \div 2
    BY <1>1, ShiftRightStep
  <2>2. m + k \in Nat /\ (m + k) + 1 = m + (k + 1)
    OBVIOUS
  <2>3. ShiftRight(v, (m + k) + 1) = ShiftRight(v, m + k) \div 2
    BY <2>2, ShiftRightStep
  <2>4. QED
    BY <1>3, <2>1, <2>2, <2>3
<1>. HIDE DEF T
<1>4. n \in T
  BY <1>2, <1>3, Induction
<1>5. QED
  BY <1>4 DEF T

LEMMA ShiftRightSmall ==
  ASSUME NEW v \in Int
  PROVE  /\ ShiftRight(v, 1) = v \div 2
         /\ ShiftRight(v, 7) = v \div 128
         /\ ShiftRight(v, 8) = v \div 256
<1>1. ShiftRight(v, 1) = v \div 2
  BY ShiftRightZero, ShiftRightStep, 0 + 1 = 1
<1>2. ShiftRight(v, 2) = v \div 4
  BY <1>1, ShiftRightStep, 1 + 1 = 2
<1>3. ShiftRight(v, 3) = v \div 8
  BY <1>2, ShiftRightStep, 2 + 1 = 3
<1>4. ShiftRight(v, 4) = v \div 16
  BY <1>3, ShiftRightStep, 3 + 1 = 4
<1>5. ShiftRight(v, 5) = v \div 32
  BY <1>4, ShiftRightStep, 4 + 1 = 5
<1>6. ShiftRight(v, 6) = v \div 64
  BY <1>5, ShiftRightStep, 5 + 1 = 6
<1>7. ShiftRight(v, 7) = v \div 128
  BY <1>6, ShiftRightStep, 6 + 1 = 7
<1>8. ShiftRight(v, 8) = v \div 256
  BY <1>7, ShiftRightStep, 7 + 1 = 8
<1>9. QED
  BY <1>1, <1>7, <1>8

LEMMA ShiftRightMore ==
  ASSUME NEW v \in Int, NEW n \in Nat
  PROVE  /\ ShiftRight(v, n + 7) = ShiftRight(v, n) \div 128
         /\ ShiftRight(v, n + 8) = ShiftRight(v, n) \div 256
<1>. DEFINE w == ShiftRight(v, n)
<1>1. w \in Int
  BY ShiftRightType
<1>2. \A k \in Nat : ShiftRight(w, k) = ShiftRight(v, n + k)
  BY ShiftRightTwice
<1>3. 7 \in Nat /\ 8 \in Nat
  OBVIOUS
<1>. HIDE DEF w
<1>4. ShiftRight(w, 7) = w \div 128 /\ ShiftRight(w, 8) = w \div 256
  BY <1>1, ShiftRightSmall
<1>5. QED
  BY <1>2, <1>3, <1>4 DEF w

LEMMA ShiftRightMonotonic ==
  ASSUME NEW a \in Int, NEW b \in Int, a <= b, NEW n \in Nat
  PROVE  ShiftRight(a, n) <= ShiftRight(b, n)
<1>. DEFINE T == {k \in Nat : ShiftRight(a, k) <= ShiftRight(b, k)}
<1>1. 0 \in T
  BY ShiftRightZero
<1>2. ASSUME NEW k \in Nat, k \in T PROVE k + 1 \in T
  <2>1. ShiftRight(a, k) \in Int /\ ShiftRight(b, k) \in Int
    BY ShiftRightType
  <2>2. ShiftRight(a, k + 1) = ShiftRight(a, k) \div 2 /\ ShiftRight(b, k + 1) = ShiftRight(b, k) \div 2
    BY ShiftRightStep
  <2>3. \A x, y \in Int : x <= y => x \div 2 <= y \div 2
    OBVIOUS
  <2>4. QED
    BY <1>2, <2>1, <2>2, <2>3
<1>. HIDE DEF T
<1>3. n \in T
  BY <1>1, <1>2, Induction
<1>4. QED
  BY <1>3 DEF T

(* 0 and -1 are what shifting ends in.                                      *)
LEMMA ShiftRightEnds ==
  ASSUME NEW n \in Nat
  PROVE  ShiftRight(0, n) = 0 /\ ShiftRight(-1, n) = -1
<1>. DEFINE T == {k \in Nat : ShiftRight(0, k) = 0 /\ ShiftRight(-1, k) = -1}
<1>1. 0 \in T
  BY ShiftRightZero
<1>2. ASSUME NEW k \in Nat, k \in T PROVE k + 1 \in T
  <2>1. ShiftRight(0, k + 1) = ShiftRight(0, k) \div 2 /\ ShiftRight(-1, k + 1) = ShiftRight(-1, k) \div 2
    BY ShiftRightStep
  <2>2. \A x \in Int : (x = 0 => x \div 2 = 0) /\ (x = -1 => x \div 2 = -1)
    OBVIOUS
  <2>3. QED
    BY <1>2, <2>1, <2>2
<1>. HIDE DEF T
<1>3. n \in T
  BY <1>1, <1>2, Induction
<1>4. QED
  BY <1>3 DEF T

LEMMA ShiftRightNat ==
  ASSUME NEW v \in Nat, NEW n \in Nat
  PROVE  ShiftRight(v, n) \in Nat /\ ShiftRight(v, n) <= v
<1>. DEFINE T == {k \in Nat : ShiftRight(v, k) \in Nat /\ ShiftRight(v, k) <= v}
<1>1. 0 \in T
  BY ShiftRightZero
<1>2. ASSUME NEW k \in Nat, k \in T PROVE k + 1 \in T
  BY <1>2, ShiftRightStep
<1>. HIDE DEF T
<1>3. n \in T
  BY <1>1, <1>2, Induction
<1>4. QED
  BY <1>3 DEF T

(* -- accumulators -------------------------------------------------------- *)
LEMMA AccumulatedFunction ==
  ASSUME NEW m \in Int, NEW start \in Int, NEW s \in Seq(Int)
  PROVE  /\ Accumulated(m, start, s) \in [0..Len(s) -> Int]
         /\ Accumulated(m, start, s)[0] = start
         /\ \A i \in 1..Len(s) :
              Accumulated(m, start, s)[i] = m * Accumulated(m, start, s)[i - 1] + s[i]
<1>. DEFINE n == Len(s)
            h == [p \in Int \X Nat |-> m * p[1] + (IF p[2] \in 1..n THEN s[p[2]] ELSE 0)]
<1>1. h \in [Int \X Nat -> Int]
  OBVIOUS
<1>2. \A x \in Int, i \in 1..n : h[<<x, i>>] = m * x + s[i]
  OBVIOUS
<1>3. n \in Nat
  OBVIOUS
<1>. HIDE DEF h
<1>4. PICK g \in [0..n -> Int] : g[0] = start /\ \A i \in 1..n : g[i] = h[<<g[i - 1], i>>]
  <2>. HIDE DEF n
  <2>1. QED
    BY <1>1, <1>3, RecursionExists
<1>5. ASSUME NEW i \in 1..n PROVE g[i] = m * g[i - 1] + s[i]
  <2>1. i \in 1..n /\ g[i - 1] \in Int
    OBVIOUS
  <2>. HIDE DEF n
  <2>2. QED
    BY <1>1, <1>2, <1>4, <2>1
<1>6. g = [i \in 0..n |-> IF i = 0 THEN start ELSE m * g[i - 1] + s[i]]
  BY <1>4, <1>5
<1>7. PICK f : /\ f = [i \in 0..n |-> IF i = 0 THEN start ELSE m * f[i - 1] + s[i]]
               /\ Accumulated(m, start, s) = f
  BY <1>6 DEF Accumulated
<1>8. f[0] = start /\ \A i \in 1..n : f[i] = m * f[i - 1] + s[i]
  <2>. HIDE DEF n
  <2>1. f[0] = start
    BY <1>3, <1>7
  <2>2. ASSUME NEW i \in 1..n PROVE f[i] = m * f[i - 1] + s[i]
    <3>1. i \in 0..n /\ i # 0
      BY <1>3
    <3>2. QED
      BY <1>7, <3>1
  <2>3. QED
    BY <2>1, <2>2
<1>9. f[0] = g[0]
  BY <1>4, <1>8
<1>10. \A i \in 1..n : f[i - 1] = g[i - 1] => f[i] = g[i]
  BY <1>5, <1>8
<1>. HIDE DEF n
<1>11. \A i \in 0..n : f[i] = g[i]
  BY <1>3, <1>9, <1>10, RecursionAgrees
<1>12. f \in [0..n -> Int]
  BY <1>7, <1>11
<1>13. QED
  BY <1>7, <1>8, <1>12 DEF n

(* What the accumulator holds depends on the digits it has taken only.      *)
Agree(s, t, n) == n <= Len(s) /\ n <= Len(t) /\ \A i \in 1..n : s[i] = t[i]

LEMMA AccumulatedAgrees ==
  ASSUME NEW m \in Int, NEW start \in Int, NEW s \in Seq(Int), NEW t \in Seq(Int),
         NEW n \in Nat, Agree(s, t, n)
  PROVE  \A i \in 0..n : Accumulated(m, start, s)[i] = Accumulated(m, start, t)[i]
<1>0. n <= Len(s) /\ n <= Len(t) /\ \A i \in 1..n : s[i] = t[i]
  BY DEF Agree
<1>. DEFINE a == Accumulated(m, start, s)
            b == Accumulated(m, start, t)
            T == {i \in Nat : i <= n => a[i] = b[i]}
<1>1. a \in [0..Len(s) -> Int] /\ a[0] = start /\ \A i \in 1..Len(s) : a[i] = m * a[i - 1] + s[i]
  BY AccumulatedFunction
<1>2. b \in [0..Len(t) -> Int] /\ b[0] = start /\ \A i \in 1..Len(t) : b[i] = m * b[i - 1] + t[i]
  BY AccumulatedFunction
<1>. HIDE DEF a, b
<1>3. 0 \in T
  BY <1>1, <1>2
<1>4. ASSUME NEW i \in Nat, i \in T PROVE i + 1 \in T
  <2>. SUFFICES ASSUME NEW j \in 1..n, j = i + 1 PROVE a[j] = b[j]
    OBVIOUS
  <2>1. j \in 1..Len(s) /\ j \in 1..Len(t) /\ j - 1 = i /\ i <= n
    BY <1>0
  <2>2. a[j] = m * a[i] + s[j] /\ b[j] = m * b[i] + t[j]
    BY <1>1, <1>2, <2>1
  <2>3. QED
    BY <1>0, <1>4, <2>1, <2>2
<1>. HIDE DEF T
<1>5. Nat \subseteq T
  BY <1>3, <1>4, Induction
<1>6. QED
  BY <1>5 DEF T, a, b

(* -- digits of seven and of eight bits ----------------------------------- *)
Base(w) == IF w = 7 THEN 128 ELSE 256
(* The first n of s are digits; and they are those of v.                    *)
AreDigits(s, n, m) == \A i \in 1..n : s[i] \in 0..(m - 1)
AreDigitsOf(s, v, n, w, m) == \A i \in 1..n : s[i] = ShiftRight(v, w * (n - i)) % m

LEMMA DigitShift ==
  ASSUME NEW w \in {7, 8}, NEW v \in Int, NEW n \in Nat
  PROVE  ShiftRight(v, w * (n + 1)) = ShiftRight(v, w * n) \div Base(w)
<1>1. CASE w = 7
  <2>1. 7 * n \in Nat /\ 7 * (n + 1) = 7 * n + 7
    OBVIOUS
  <2>2. QED
    BY <1>1, <2>1, ShiftRightMore DEF Base
<1>2. CASE w = 8
  <2>1. 8 * n \in Nat /\ 8 * (n + 1) = 8 * n + 8
    OBVIOUS
  <2>2. QED
    BY <1>2, <2>1, ShiftRightMore DEF Base
<1>3. QED
  BY <1>1, <1>2

(* Taking the digits of a number one after another gives the number.        *)
LEMMA DigitsMakeNumber ==
  ASSUME NEW w \in {7, 8}, NEW m \in Int, m = Base(w), NEW v \in Int,
         NEW k \in Nat, NEW s \in Seq(Int), k <= Len(s),
         AreDigitsOf(s, v, k, w, m)
  PROVE  \A i \in 0..k : Accumulated(m, ShiftRight(v, w * k), s)[i] = ShiftRight(v, w * (k - i))
<1>. DEFINE start == ShiftRight(v, w * k)
            a == Accumulated(m, start, s)
            T == {i \in Nat : i <= k => a[i] = ShiftRight(v, w * (k - i))}
<1>0. start \in Int
  <2>1. w * k \in Nat
    OBVIOUS
  <2>2. QED
    BY <2>1, ShiftRightType
<1>. HIDE DEF start
<1>1. a[0] = start /\ \A i \in 1..Len(s) : a[i] = m * a[i - 1] + s[i]
  BY <1>0, AccumulatedFunction
<1>. HIDE DEF a
<1>2. 0 \in T
  BY <1>1 DEF start
<1>3. ASSUME NEW i \in Nat, i \in T PROVE i + 1 \in T
  <2>. SUFFICES ASSUME NEW j \in 1..k, j = i + 1 PROVE a[j] = ShiftRight(v, w * (k - j))
    OBVIOUS
  <2>. DEFINE x == ShiftRight(v, w * (k - j))
  <2>1. j \in 1..Len(s) /\ j - 1 = i /\ i <= k /\ k - j \in Nat /\ k - i = (k - j) + 1
    OBVIOUS
  <2>2. w * (k - j) \in Nat
    BY <2>1
  <2>3. x \in Int
    BY <2>2, ShiftRightType
  <2>4. a[i] = ShiftRight(v, w * ((k - j) + 1))
    BY <1>3, <2>1
  <2>5. a[i] = x \div m
    BY <2>1, <2>4, DigitShift
  <2>6. a[j] = m * a[i] + s[j]
    BY <1>1, <2>1
  <2>7. s[j] = x % m
    BY DEF AreDigitsOf
  <2>8. a[j] = m * (x \div m) + (x % m)
    BY <2>5, <2>6, <2>7
  <2>. HIDE DEF x
  <2>9. a[j] = x
    BY <2>3, <2>8 DEF Base
  <2>10. QED
    BY <2>9 DEF x
<1>. HIDE DEF T
<1>4. Nat \subseteq T
  BY <1>2, <1>3, Induction
<1>5. QED
  BY <1>4 DEF T, a, start

(* And shifting digits out again gives what was there before they came.     *)
LEMMA NumberLosesDigits ==
  ASSUME NEW w \in {7, 8}, NEW m \in Int, m = Base(w), NEW start \in Int,
         NEW s \in Seq(Int), NEW n \in Nat, n <= Len(s),
         AreDigits(s, n, m)
  PROVE  \A i \in 0..n : ShiftRight(Accumulated(m, start, s)[n], w * (n - i))
                          = Accumulated(m, start, s)[i]
<1>. DEFINE a == Accumulated(m, start, s)
            T == {j \in Nat : j <= n => ShiftRight(a[n], w * j) = a[n - j]}
<1>1. a \in [0..Len(s) -> Int] /\ \A i \in 1..Len(s) : a[i] = m * a[i - 1] + s[i]
  BY AccumulatedFunction
<1>. HIDE DEF a
<1>2. a[n] \in Int
  <2>1. n \in 0..Len(s)
    OBVIOUS
  <2>2. QED
    BY <1>1, <2>1
<1>3. 0 \in T
  BY <1>2, ShiftRightZero
<1>4. ASSUME NEW j \in Nat, j \in T PROVE j + 1 \in T
  <2>. SUFFICES ASSUME j + 1 <= n PROVE ShiftRight(a[n], w * (j + 1)) = a[n - (j + 1)]
    OBVIOUS
  <2>. DEFINE i == n - j
  <2>1. i \in 1..n /\ i \in 1..Len(s) /\ i - 1 \in 0..Len(s) /\ n - (j + 1) = i - 1
    OBVIOUS
  <2>2. ShiftRight(a[n], w * (j + 1)) = ShiftRight(a[n], w * j) \div m
    BY <1>2, DigitShift
  <2>3. ShiftRight(a[n], w * j) = a[i]
    BY <1>4
  <2>. HIDE DEF i
  <2>4. a[i] = m * a[i - 1] + s[i] /\ a[i - 1] \in Int /\ s[i] \in 0..(m - 1)
    BY <1>1, <2>1 DEF AreDigits
  <2>5. (m * a[i - 1] + s[i]) \div m = a[i - 1]
    <3>1. \A x \in Int, y \in 0..(m - 1) : (m * x + y) \div m = x
      BY DEF Base
    <3>2. QED
      BY <2>4, <3>1
  <2>6. QED
    BY <2>1, <2>2, <2>3, <2>4, <2>5
<1>. HIDE DEF T
<1>5. Nat \subseteq T
  BY <1>3, <1>4, Induction
<1>6. ASSUME NEW i \in 0..n PROVE ShiftRight(a[n], w * (n - i)) = a[i]
  <2>1. n - i \in Nat /\ n - i <= n /\ n - (n - i) = i
    OBVIOUS
  <2>2. QED
    BY <1>5, <2>1 DEF T
<1>7. QED
  BY <1>6 DEF a

(* The two, for octets and for groups of seven bits.                        *)
LEMMA NumberLosesOctets ==
  ASSUME NEW start \in Int, NEW s \in Seq(Int), NEW n \in Nat, n <= Len(s), AreDigits(s, n, 256)
  PROVE  \A i \in 0..n : ShiftRight(Accumulated(256, start, s)[n], 8 * (n - i))
                          = Accumulated(256, start, s)[i]
<1>1. SUFFICES ASSUME NEW w \in {7, 8}, NEW m \in Int, w = 8, m = 256
               PROVE  \A i \in 0..n : ShiftRight(Accumulated(m, start, s)[n], w * (n - i))
                                       = Accumulated(m, start, s)[i]
  OBVIOUS
<1>2. m = Base(w) /\ AreDigits(s, n, m)
  BY <1>1 DEF Base
<1>3. QED
  BY <1>2, NumberLosesDigits

LEMMA NumberLosesGroups ==
  ASSUME NEW start \in Int, NEW s \in Seq(Int), NEW n \in Nat, n <= Len(s), AreDigits(s, n, 128)
  PROVE  \A i \in 0..n : ShiftRight(Accumulated(128, start, s)[n], 7 * (n - i))
                          = Accumulated(128, start, s)[i]
<1>1. SUFFICES ASSUME NEW w \in {7, 8}, NEW m \in Int, w = 7, m = 128
               PROVE  \A i \in 0..n : ShiftRight(Accumulated(m, start, s)[n], w * (n - i))
                                       = Accumulated(m, start, s)[i]
  OBVIOUS
<1>2. m = Base(w) /\ AreDigits(s, n, m)
  BY <1>1 DEF Base
<1>3. QED
  BY <1>2, NumberLosesDigits

LEMMA OctetsMakeNumber ==
  ASSUME NEW v \in Int, NEW k \in Nat, NEW s \in Seq(Int), k <= Len(s),
         AreDigitsOf(s, v, k, 8, 256)
  PROVE  \A i \in 0..k : Accumulated(256, ShiftRight(v, 8 * k), s)[i] = ShiftRight(v, 8 * (k - i))
<1>1. SUFFICES ASSUME NEW w \in {7, 8}, NEW m \in Int, w = 8, m = 256
               PROVE  \A i \in 0..k : Accumulated(m, ShiftRight(v, w * k), s)[i] = ShiftRight(v, w * (k - i))
  OBVIOUS
<1>2. m = Base(w)
  BY <1>1 DEF Base
<1>3. AreDigitsOf(s, v, k, w, m)
  BY <1>1
<1>4. QED
  BY <1>2, <1>3, DigitsMakeNumber

LEMMA GroupsMakeNumber ==
  ASSUME NEW v \in Int, NEW k \in Nat, NEW s \in Seq(Int), k <= Len(s),
         AreDigitsOf(s, v, k, 7, 128)
  PROVE  \A i \in 0..k : Accumulated(128, ShiftRight(v, 7 * k), s)[i] = ShiftRight(v, 7 * (k - i))
<1>1. SUFFICES ASSUME NEW w \in {7, 8}, NEW m \in Int, w = 7, m = 128
               PROVE  \A i \in 0..k : Accumulated(m, ShiftRight(v, w * k), s)[i] = ShiftRight(v, w * (k - i))
  OBVIOUS
<1>2. m = Base(w)
  BY <1>1 DEF Base
<1>3. AreDigitsOf(s, v, k, w, m)
  BY <1>1
<1>4. QED
  BY <1>2, <1>3, DigitsMakeNumber

(* -- lengths ------------------------------------------------------------- *)
Byte == 0..255
(* A length the decoders can add 1024 to without a negative number.         *)
IsLength(len) == len \in Nat /\ ShiftRight(len + 1024, 8 * LenOctets - 1) = 0

LEMMA BytesAreNumbers ==
  ASSUME NEW s \in Seq(Byte)
  PROVE  s \in Seq(Int) /\ Len(s) \in Nat /\ AreDigits(s, Len(s), 256)
<1>1. Byte \subseteq Int
  BY DEF Byte
<1>2. Seq(Byte) \subseteq Seq(Int)
  BY <1>1, SeqMonotonic
<1>3. s \in Seq(Int)
  BY <1>2
<1>4. \A i \in 1..Len(s) : s[i] \in Byte
  BY ElementOfSeq
<1>5. QED
  BY <1>3, <1>4 DEF Byte, AreDigits

LEMMA FirstOctet ==
  ASSUME NEW x \in Int, NEW t \in Seq(Int)
  PROVE  /\ <<x>> \o t \in Seq(Int) /\ <<x>> \o t # <<>>
         /\ (<<x>> \o t)[1] = x
         /\ Len(<<x>> \o t) = Len(t) + 1
         /\ Tail(<<x>> \o t) = t
         /\ \A i \in 1..Len(t) : (<<x>> \o t)[i + 1] = t[i]
  OBVIOUS

(* A number shifted to nothing stays nothing, and so do smaller ones.       *)
LEMMA ShiftedOut ==
  ASSUME NEW v \in Nat, NEW u \in Nat, u <= v, NEW m \in Nat, NEW n \in Nat, m <= n,
         ShiftRight(v, m) = 0
  PROVE  ShiftRight(u, n) = 0
<1>1. PICK d \in Nat : n = m + d
  <2>1. n - m \in Nat /\ n = m + (n - m)
    OBVIOUS
  <2>2. QED
    BY <2>1
<1>2. ShiftRight(v, n) = ShiftRight(0, d)
  BY <1>1, ShiftRightTwice
<1>3. ShiftRight(v, n) = 0
  BY <1>2, ShiftRightEnds
<1>4. ShiftRight(u, n) \in Nat
  BY ShiftRightNat
<1>5. ShiftRight(u, n) <= ShiftRight(v, n)
  BY ShiftRightMonotonic
<1>6. QED
  BY <1>3, <1>4, <1>5

(* What FetchLength makes of a first octet.                                 *)
LEMMA ShortLength ==
  ASSUME NEW c \in BOOLEAN, NEW x \in 0..127, NEW t \in Seq(Byte)
  PROVE  FetchLength(c, <<x>> \o t) = [n |-> 1, len |-> x]
<1>. DEFINE b == <<x>> \o t
<1>1. x \in Int /\ x < 128 /\ t \in Seq(Int)
  BY BytesAreNumbers
<1>2. b # <<>> /\ b[1] = x
  BY <1>1, FirstOctet
<1>. HIDE DEF b
<1>3. FetchLength(c, b) = [n |-> 1, len |-> x]
  BY <1>1, <1>2 DEF FetchLength
<1>4. QED
  BY <1>3 DEF b

LEMMA LengthOfMore ==
  ASSUME NEW c \in BOOLEAN, NEW k \in 1..126, NEW t \in Seq(Byte)
  PROVE  FetchLength(c, <<128 + k>> \o t) = LongLength(k, t)
<1>. DEFINE x == 128 + k
            b == <<x>> \o t
<1>1. x \in Int /\ ~(x < 128) /\ x # 128 /\ x # 255 /\ x - 128 = k /\ t \in Seq(Int)
  BY BytesAreNumbers
<1>. HIDE DEF x
<1>2. b # <<>> /\ b[1] = x /\ Tail(b) = t
  BY <1>1, FirstOctet
<1>. HIDE DEF b
<1>3. FetchLength(c, b) = LongLength(b[1] - 128, Tail(b))
  BY <1>1, <1>2 DEF FetchLength
<1>4. FetchLength(c, b) = LongLength(k, t)
  BY <1>1, <1>2, <1>3
<1>5. QED
  BY <1>4 DEF b, x

(* The octets of a length, in any number up to 126, and what follows: the   *)
(* length if the decoders can add to it, and refused if not.                *)
LEMMA LongLengthIsExact ==
  ASSUME NEW k \in Nat, NEW t \in Seq(Byte), k <= Len(t)
  PROVE  LongLength(k, t) =
           IF IsLength(Accumulated(256, 0, t)[k])
           THEN [n |-> k + 1, len |-> Accumulated(256, 0, t)[k]] ELSE [n |-> -1]
<1>. DEFINE val == Accumulated(256, 0, t)
            negative(v) == ShiftRight(v, 8 * LenOctets - 1) # 0
            refused == \E i \in 1..k : \/ negative(val[i])
                                       \/ i < k /\ ShiftRight(val[i], 8 * LenOctets - 8) # 0
<1>1. t \in Seq(Int) /\ Len(t) \in Nat /\ AreDigits(t, k, 256)
  BY BytesAreNumbers DEF AreDigits
<1>2. val \in [0..Len(t) -> Int] /\ val[0] = 0
      /\ \A i \in 1..Len(t) : val[i] = 256 * val[i - 1] + t[i]
  BY <1>1, AccumulatedFunction
<1>3. LongLength(k, t) = IF refused \/ negative(val[k] + 1024) THEN [n |-> -1]
                         ELSE [n |-> k + 1, len |-> val[k]]
  BY <1>1 DEF LongLength
<1>. HIDE DEF val
<1>4. \A i \in 0..k : val[i] \in Nat
  <2>. DEFINE T == {i \in Nat : i <= k => val[i] \in Nat}
  <2>1. 0 \in T
    BY <1>2
  <2>2. ASSUME NEW i \in Nat, i \in T PROVE i + 1 \in T
    <3>. SUFFICES ASSUME NEW j \in 1..k, j = i + 1 PROVE val[j] \in Nat
      OBVIOUS
    <3>1. j \in 1..Len(t) /\ j - 1 = i /\ i <= k /\ t[j] \in 0..255
      BY <1>1 DEF AreDigits
    <3>2. val[j] = 256 * val[i] + t[j] /\ val[i] \in Nat
      BY <1>2, <2>2, <3>1
    <3>3. \A x \in Nat, y \in 0..255 : 256 * x + y \in Nat
      OBVIOUS
    <3>4. 256 * val[i] + t[j] \in Nat
      BY <3>1, <3>2, <3>3, Zenon
    <3>5. QED
      BY <3>2, <3>4, Zenon
  <2>. HIDE DEF T
  <2>3. Nat \subseteq T
    BY <2>1, <2>2, Induction
  <2>4. QED
    BY <2>3 DEF T
<1>5. ASSUME IsLength(val[k]) PROVE ~refused
  <2>1. ASSUME NEW i \in 1..k
        PROVE  ShiftRight(val[i], 8 * LenOctets - 1) = 0
               /\ (i < k => ShiftRight(val[i], 8 * LenOctets - 8) = 0)
    <3>. DEFINE m == 8 * LenOctets - 1
                v == val[k]
    <3>1. m \in Nat /\ v \in Nat /\ v + 1024 \in Nat /\ v <= v + 1024 /\ ShiftRight(v + 1024, m) = 0
      BY <1>4, <1>5, WidthsAssumption DEF IsLength
    <3>2. val[i] = ShiftRight(v, 8 * (k - i))
      <4>1. \A j \in 0..k : ShiftRight(Accumulated(256, 0, t)[k], 8 * (k - j)) = Accumulated(256, 0, t)[j]
        BY <1>1, NumberLosesOctets
      <4>2. i \in 0..k
        OBVIOUS
      <4>3. QED
        BY <4>1, <4>2, Zenon DEF val
    <3>3. 8 * (k - i) \in Nat
      OBVIOUS
    <3>. HIDE DEF v
    <3>4. val[i] \in Nat /\ val[i] <= v
      BY <3>1, <3>2, <3>3, ShiftRightNat
    <3>. HIDE DEF m
    <3>5. ShiftRight(val[i], m) = 0
      BY <3>1, <3>4, ShiftedOut
    <3>6. ASSUME i < k PROVE ShiftRight(val[i], 8 * LenOctets - 8) = 0
      <4>. DEFINE n == 8 * (k - i) + (8 * LenOctets - 8)
      <4>1. 8 * LenOctets - 8 \in Nat /\ n \in Nat /\ m <= n
        BY <3>6, WidthsAssumption DEF m
      <4>2. ShiftRight(val[i], 8 * LenOctets - 8) = ShiftRight(v, n)
        BY <3>1, <3>2, <3>3, <4>1, ShiftRightTwice
      <4>. HIDE DEF n
      <4>3. QED
        BY <3>1, <4>1, <4>2, ShiftedOut
    <3>7. QED
      BY <3>5, <3>6 DEF m
  <2>2. QED
    BY <2>1
<1>6. k \in 0..k /\ val[k] \in Nat
  BY <1>4
<1>7. IsLength(val[k]) <=> ~negative(val[k] + 1024)
  BY <1>6 DEF IsLength
<1>. HIDE DEF refused, negative
<1>8. LongLength(k, t) = IF IsLength(val[k]) THEN [n |-> k + 1, len |-> val[k]] ELSE [n |-> -1]
  BY <1>3, <1>5, <1>7
<1>9. QED
  BY <1>8 DEF val

(* -- sequences of octets -------------------------------------------------- *)
LEMMA Joined ==
  ASSUME NEW s \in Seq(Int), NEW t \in Seq(Int)
  PROVE  /\ s \o t \in Seq(Int)
         /\ Len(s \o t) = Len(s) + Len(t)
         /\ \A i \in 1..Len(s) : (s \o t)[i] = s[i]
         /\ s # <<>> => s \o t # <<>> /\ (s \o t)[1] = s[1] /\ Tail(s \o t) = Tail(s) \o t
  BY SMTT(30)

LEMMA BytesJoined ==
  ASSUME NEW s \in Seq(Byte), NEW t \in Seq(Byte)
  PROVE  s \o t \in Seq(Byte)
  OBVIOUS

LEMMA OctetsTaken ==
  ASSUME NEW b \in Seq(Byte), b # <<>>
  PROVE  b[1] \in Byte /\ Tail(b) \in Seq(Byte) /\ Len(Tail(b)) = Len(b) - 1 /\ Len(b) \in Nat
  OBVIOUS

LEMMA AccumulatedPrefix ==
  ASSUME NEW m \in Int, NEW start \in Int, NEW s \in Seq(Int), NEW t \in Seq(Int)
  PROVE  \A i \in 0..Len(s) : Accumulated(m, start, s \o t)[i] = Accumulated(m, start, s)[i]
<1>. DEFINE u == s \o t
<1>1. u \in Seq(Int) /\ Len(s) \in Nat /\ Len(s) <= Len(u) /\ \A i \in 1..Len(s) : s[i] = u[i]
  BY Joined
<1>. HIDE DEF u
<1>2. \A i \in 0..Len(s) : Accumulated(m, start, s)[i] = Accumulated(m, start, u)[i]
  <2>1. PICK n \in Nat : n = Len(s)
    BY <1>1
  <2>2. Agree(s, u, n)
    <3>1. n <= Len(s) /\ n <= Len(u) /\ \A i \in 1..n : s[i] = u[i]
      BY <1>1, <2>1
    <3>2. QED
      BY <3>1, Zenon DEF Agree
  <2>3. \A i \in 0..n : Accumulated(m, start, s)[i] = Accumulated(m, start, u)[i]
    BY <1>1, <2>2, AccumulatedAgrees
  <2>4. QED
    BY <2>1, <2>3
<1>3. QED
  BY <1>2 DEF u

LEMMA LeastIsLeast ==
  ASSUME NEW S, S \subseteq Nat, S # {}
  PROVE  Min(S) \in S /\ \A i \in S : Min(S) <= i
<1>1. \E n \in S : \A m \in S : n <= m
  BY LeastNatural
<1>2. QED
  BY <1>1, Zenon DEF Min

(* required_size is the least number of digits that hold the value.         *)
LEMMA DigitsOfLength ==
  ASSUME NEW v \in Nat
  PROVE  LET w == 8 * LenOctets
             k == Digits(v, 8, w)
         IN /\ k \in 1..LenOctets
            /\ ShiftRight(v, w) = 0 => ShiftRight(v, 8 * k) = 0
            /\ \A j \in Nat \ {0} : ShiftRight(v, 8 * j) = 0 => k <= j
<1>. DEFINE w == 8 * LenOctets
            S == {k \in 1..w : k * 8 >= w \/ ShiftRight(v, 8 * k) = 0}
            k == Min(S)
<1>1. w \in Nat /\ LenOctets \in S
  BY WidthsAssumption
<1>2. S \subseteq Nat /\ S # {}
  BY <1>1
<1>3. \A j \in S : j \in 1..w /\ (j * 8 >= w \/ ShiftRight(v, 8 * j) = 0)
  OBVIOUS
<1>4. \A j \in 1..w : ShiftRight(v, 8 * j) = 0 => j \in S
  OBVIOUS
<1>5. Digits(v, 8, w) = k
  BY DEF Digits
<1>. HIDE DEF S
<1>6. k \in S /\ \A j \in S : k <= j
  BY <1>2, LeastIsLeast
<1>. HIDE DEF k
<1>7. k \in 1..w /\ k <= LenOctets
  BY <1>1, <1>3, <1>6
<1>8. k * 8 >= w => k = LenOctets
  BY <1>7, WidthsAssumption
<1>9. ShiftRight(v, w) = 0 => ShiftRight(v, 8 * k) = 0
  BY <1>3, <1>6, <1>8
<1>10. ASSUME NEW j \in Nat \ {0}, ShiftRight(v, 8 * j) = 0 PROVE k <= j
  <2>1. CASE j \in 1..w
    BY <1>4, <1>6, <1>10, <2>1
  <2>2. CASE j \notin 1..w
    BY <1>1, <1>7, <2>2
  <2>3. QED
    BY <2>1, <2>2
<1>11. QED
  BY <1>5, <1>7, <1>9, <1>10, WidthsAssumption

(* The octets of a length are octets, as many as der_tlv_length_serialize   *)
(* says, and ber_fetch_length takes exactly those and finds the length,     *)
(* whatever follows them.                                                   *)
THEOREM LengthIsFetched ==
  ASSUME NEW len \in Nat, IsLength(len), NEW c \in BOOLEAN, NEW rest \in Seq(Byte)
  PROVE  /\ LengthOctets(len) \in Seq(Byte)
         /\ Len(LengthOctets(len)) = LengthSize(len)
         /\ FetchLength(c, LengthOctets(len) \o rest) = [n |-> LengthSize(len), len |-> len]
<1>1. len \in Nat
  BY DEF IsLength
<1>2. CASE len <= 127
  <2>1. LengthOctets(len) = <<len>> /\ LengthSize(len) = 1 /\ len \in Byte
    BY <1>1, <1>2 DEF LengthOctets, LengthSize, Byte
  <2>2. <<len>> \in Seq(Byte) /\ Len(<<len>>) = 1
    BY <2>1
  <2>3. FetchLength(c, <<len>> \o rest) = [n |-> 1, len |-> len]
    <3>1. len \in 0..127
      BY <1>2
    <3>2. QED
      BY <3>1, ShortLength, Zenon
  <2>4. QED
    BY <2>1, <2>2, <2>3
<1>3. CASE ~(len <= 127)
  <2>. DEFINE k == Digits(len, 8, 8 * LenOctets)
              body == [i \in 1..k |-> ShiftRight(len, 8 * (k - i)) % 256]
              t == body \o rest
  <2>1. LengthSize(len) = 1 + k
    BY <1>3 DEF LengthSize
  <2>2. k \in 1..LenOctets /\ (ShiftRight(len, 8 * LenOctets) = 0 => ShiftRight(len, 8 * k) = 0)
    BY <1>1, DigitsOfLength
  <2>3. k \in Nat /\ k \in 1..126
    <3>. HIDE DEF k
    <3>1. QED
      BY <2>2, WidthsAssumption
  <2>4. (1 + k) - 1 = k
    BY <2>3
  <2>5. LengthOctets(len) = <<128 + k>> \o body
    BY <1>3, <2>1, <2>4 DEF LengthOctets
  <2>. HIDE DEF k
  <2>6. ShiftRight(len, 8 * k) = 0
    <3>1. 8 * LenOctets - 1 \in Nat /\ 8 * LenOctets \in Nat /\ 8 * LenOctets - 1 <= 8 * LenOctets
      BY WidthsAssumption
    <3>2. len + 1024 \in Nat /\ len <= len + 1024 /\ ShiftRight(len + 1024, 8 * LenOctets - 1) = 0
      BY <1>1 DEF IsLength
    <3>3. ShiftRight(len, 8 * LenOctets) = 0
      BY <1>1, <3>1, <3>2, ShiftedOut
    <3>4. QED
      BY <2>2, <3>3
  <2>7. ASSUME NEW i \in 1..k PROVE ShiftRight(len, 8 * (k - i)) % 256 \in Byte
    <3>1. 8 * (k - i) \in Nat
      BY <2>3
    <3>2. ShiftRight(len, 8 * (k - i)) \in Int
      BY <1>1, <3>1, ShiftRightType
    <3>3. \A x \in Int : (x % 256) \in Byte
      BY DEF Byte
    <3>4. QED
      BY <3>2, <3>3
  <2>8. body \in Seq(Byte) /\ Len(body) = k /\ \A i \in 1..k : body[i] = ShiftRight(len, 8 * (k - i)) % 256
    BY <2>3, <2>7
  <2>. HIDE DEF body
  <2>9. t \in Seq(Byte)
    BY <2>8, BytesJoined
  <2>10. /\ t \in Seq(Int) /\ Len(t) \in Nat /\ Len(t) = k + Len(rest) /\ Len(rest) \in Nat
         /\ \A i \in 1..k : t[i] = ShiftRight(len, 8 * (k - i)) % 256
    BY <2>8, Joined, BytesAreNumbers
  <2>. HIDE DEF t
  <2>11. AreDigitsOf(t, len, k, 8, 256) /\ k <= Len(t)
    BY <2>3, <2>10 DEF AreDigitsOf
  <2>12. Accumulated(256, 0, t)[k] = len
    <3>1. \A i \in 0..k : Accumulated(256, ShiftRight(len, 8 * k), t)[i] = ShiftRight(len, 8 * (k - i))
      BY <1>1, <2>3, <2>10, <2>11, OctetsMakeNumber
    <3>2. k \in 0..k /\ 8 * (k - k) = 0
      BY <2>3
    <3>3. QED
      BY <1>1, <2>6, <3>1, <3>2, ShiftRightZero
  <2>13. LongLength(k, t) = [n |-> k + 1, len |-> len]
    BY <2>3, <2>9, <2>11, <2>12, LongLengthIsExact
  <2>14. 128 + k \in Byte /\ 128 < 128 + k /\ 128 + k < 255 /\ (128 + k) - 128 = k /\ 1 + k = k + 1
    BY <2>3 DEF Byte
  <2>15. FetchLength(c, <<128 + k>> \o t) = LongLength(k, t)
    BY <2>3, <2>9, LengthOfMore, ZenonT(30)
  <2>16. LengthOctets(len) \in Seq(Byte) /\ Len(LengthOctets(len)) = 1 + k
    BY <2>3, <2>5, <2>8, <2>14
  <2>17. LengthOctets(len) \o rest = <<128 + k>> \o t
    BY <2>3, <2>5, <2>8, <2>14 DEF t
  <2>18. QED
    BY <2>1, <2>13, <2>14, <2>15, <2>16, <2>17
<1>4. QED
  BY <1>2, <1>3

(* A length of k octets is decided as soon as it can be and stays decided.  *)
LEMMA LongLengthStays ==
  ASSUME NEW k \in 1..126, NEW t \in Seq(Byte), NEW more \in Seq(Byte)
  PROVE  /\ LongLength(k, t).n \in {-1, 0, k + 1}
         /\ LongLength(k, t).n <= Len(t) + 1
         /\ LongLength(k, t).n # 0 => LongLength(k, t \o more) = LongLength(k, t)
         /\ LongLength(k, t).n = 0 => Len(t) < k
<1>. DEFINE u == t \o more
            a == Accumulated(256, 0, t)
            b == Accumulated(256, 0, u)
            bad(v, i) == \/ ShiftRight(v, 8 * LenOctets - 1) # 0
                         \/ i < k /\ ShiftRight(v, 8 * LenOctets - 8) # 0
<1>1. u \in Seq(Byte)
  BY BytesJoined
<1>2. Len(t) \in Nat /\ Len(more) \in Nat /\ Len(u) = Len(t) + Len(more)
  BY BytesAreNumbers, Joined
<1>3. \A i \in 0..Len(t) : b[i] = a[i]
  BY BytesAreNumbers, AccumulatedPrefix
<1>4. CASE k <= Len(t)
  <2>1. LongLength(k, t) = IF IsLength(a[k]) THEN [n |-> k + 1, len |-> a[k]] ELSE [n |-> -1]
    BY <1>4, LongLengthIsExact
  <2>2. k <= Len(u) /\ b[k] = a[k]
    BY <1>2, <1>3, <1>4
  <2>3. LongLength(k, u) = IF IsLength(b[k]) THEN [n |-> k + 1, len |-> b[k]] ELSE [n |-> -1]
    <3>1. k \in Nat
      OBVIOUS
    <3>. HIDE DEF u
    <3>2. LongLength(k, u) = IF IsLength(Accumulated(256, 0, u)[k])
                             THEN [n |-> k + 1, len |-> Accumulated(256, 0, u)[k]] ELSE [n |-> -1]
      BY <1>1, <2>2, <3>1, LongLengthIsExact
    <3>3. QED
      BY <3>2
  <2>. HIDE DEF a, b, u
  <2>4. LongLength(k, u) = LongLength(k, t)
    BY <2>1, <2>2, <2>3
  <2>5. LongLength(k, t).n \in {-1, k + 1}
    BY <2>1
  <2>6. QED
    BY <1>2, <1>4, <2>4, <2>5 DEF u
<1>5. CASE Len(t) < k
  <2>1. LongLength(k, t) = IF \E i \in 1..Len(t) : bad(a[i], i) THEN [n |-> -1] ELSE [n |-> 0]
    BY <1>2, <1>5 DEF LongLength
  <2>2. (\E i \in 1..Len(t) : bad(b[i], i)) => LongLength(k, u) = [n |-> -1]
    <3>1. SUFFICES ASSUME NEW i \in 1..Len(t), bad(b[i], i) PROVE LongLength(k, u) = [n |-> -1]
      OBVIOUS
    <3>. DEFINE here == IF k <= Len(u) THEN k ELSE Len(u)
    <3>2. i \in 1..here
      BY <1>2, <1>5
    <3>3. (\E j \in 1..here : bad(b[j], j)) => LongLength(k, u) = [n |-> -1]
      BY DEF LongLength
    <3>. HIDE DEF here, bad
    <3>4. QED
      BY <3>1, <3>2, <3>3
  <2>. HIDE DEF bad, a, b, u
  <2>3. (\E i \in 1..Len(t) : bad(a[i], i)) => LongLength(k, u) = LongLength(k, t)
    BY <1>3, <2>1, <2>2
  <2>4. ~(\E i \in 1..Len(t) : bad(a[i], i)) => LongLength(k, t) = [n |-> 0]
    BY <2>1
  <2>5. LongLength(k, t).n \in {-1, 0}
    BY <2>1
  <2>6. QED
    BY <1>2, <1>5, <2>3, <2>4, <2>5 DEF u
<1>6. QED
  BY <1>2, <1>4, <1>5

(* What ber_fetch_length says of the octets it has seen it says of them     *)
(* with any others behind: a decoder may be called again with more, and     *)
(* what was decided with less holds.  It takes no octet that is not there,  *)
(* and asks for more only where more decides.                               *)
THEOREM LengthStaysDecided ==
  ASSUME NEW c \in BOOLEAN, NEW b \in Seq(Byte), NEW more \in Seq(Byte)
  PROVE  /\ FetchLength(c, b).n \in Int
         /\ FetchLength(c, b).n <= Len(b)
         /\ FetchLength(c, b).n # 0 => FetchLength(c, b \o more) = FetchLength(c, b)
         /\ FetchLength(c, b).n = 0 =>
              FetchLength(c, b \o more).n \in {-1, 0} \/ FetchLength(c, b \o more).n > Len(b)
<1>. DEFINE u == b \o more
<1>0. u \in Seq(Byte) /\ Len(b) \in Nat
  BY BytesJoined, BytesAreNumbers
<1>1. CASE b = <<>>
  <2>1. FetchLength(c, b) = [n |-> 0] /\ Len(b) = 0
    BY <1>1 DEF FetchLength
  <2>2. FetchLength(c, u).n \in {-1, 0} \/ FetchLength(c, u).n > 0
    <3>. HIDE DEF u
    <3>1. CASE u = <<>>
      BY <3>1 DEF FetchLength
    <3>2. CASE u # <<>>
      <4>. DEFINE x == u[1]
                  v == Tail(u)
      <4>1. x \in Byte /\ v \in Seq(Byte)
        BY <1>0, <3>2, OctetsTaken
      <4>2. FetchLength(c, u) = IF x < 128 THEN [n |-> 1, len |-> x]
                                ELSE IF x = 128 /\ c THEN [n |-> 1, len |-> -1]
                                ELSE IF x = 255 THEN [n |-> -1] ELSE LongLength(x - 128, v)
        BY <3>2 DEF FetchLength
      <4>. HIDE DEF x, v
      <4>3. x \in Int /\ x >= 0 /\ x <= 255
        BY <4>1 DEF Byte
      <4>4. x - 128 = 0 \/ x - 128 \in 1..126 \/ x < 128 \/ x = 255
        BY <4>3
      <4>5. CASE x - 128 \in 1..126
        <5>1. LongLength(x - 128, v).n \in {-1, 0, (x - 128) + 1}
          BY <4>1, <4>5, LongLengthStays, EmptySeq
        <5>2. QED
          BY <4>2, <4>3, <4>5, <5>1
      <4>6. CASE x < 128 \/ x = 255
        BY <4>2, <4>3, <4>6
      <4>7. CASE x - 128 = 0
        <5>1. LongLength(0, v).n \in {-1, 1}
          <6>1. 0 \in Nat /\ 0 <= Len(v)
            BY <4>1, BytesAreNumbers
          <6>2. LongLength(0, v) = IF IsLength(Accumulated(256, 0, v)[0])
                                   THEN [n |-> 0 + 1, len |-> Accumulated(256, 0, v)[0]] ELSE [n |-> -1]
            BY <4>1, <6>1, LongLengthIsExact
          <6>3. QED
            BY <6>2
        <5>2. QED
          BY <4>2, <4>3, <4>7, <5>1
      <4>8. QED
        BY <4>4, <4>5, <4>6, <4>7
    <3>3. QED
      BY <3>1, <3>2
  <2>3. QED
    BY <2>1, <2>2
<1>2. CASE b # <<>>
  <2>. DEFINE x == b[1]
              t == Tail(b)
  <2>1. x \in Byte /\ t \in Seq(Byte) /\ Len(t) = Len(b) - 1
    BY <1>2, OctetsTaken
  <2>2. u # <<>> /\ u[1] = x /\ Tail(u) = t \o more
    BY <1>2, BytesAreNumbers, Joined
  <2>. DEFINE length(s) == IF x < 128 THEN [n |-> 1, len |-> x]
                           ELSE IF x = 128 /\ c THEN [n |-> 1, len |-> -1]
                           ELSE IF x = 255 THEN [n |-> -1] ELSE LongLength(x - 128, s)
  <2>3. FetchLength(c, b) = length(t)
    BY <1>2 DEF FetchLength
  <2>. HIDE DEF u
  <2>4. FetchLength(c, u) = length(t \o more)
    BY <2>2 DEF FetchLength
  <2>. HIDE DEF x, t
  <2>5. x \in Int /\ x >= 0 /\ x <= 255
    BY <2>1 DEF Byte
  <2>6. x - 128 = 0 \/ x - 128 \in 1..126 \/ x < 128 \/ x = 255
    BY <2>5
  <2>7. CASE x - 128 \in 1..126
    <3>. DEFINE k == x - 128
    <3>1. /\ LongLength(k, t).n \in {-1, 0, k + 1}
          /\ LongLength(k, t).n <= Len(t) + 1
          /\ LongLength(k, t).n # 0 => LongLength(k, t \o more) = LongLength(k, t)
          /\ LongLength(k, t).n = 0 => Len(t) < k
      BY <2>1, <2>7, LongLengthStays
    <3>2. LongLength(k, t \o more).n \in {-1, 0, k + 1}
      <4>1. t \o more \in Seq(Byte)
        BY <2>1, BytesJoined
      <4>2. QED
        BY <2>7, <4>1, LongLengthStays, EmptySeq
    <3>3. ~(x < 128) /\ x # 128 /\ x # 255 /\ k \in Int
      BY <2>5, <2>7
    <3>4. FetchLength(c, b) = LongLength(k, t) /\ FetchLength(c, u) = LongLength(k, t \o more)
      BY <2>3, <2>4, <3>3
    <3>. HIDE DEF k
    <3>5. QED
      BY <1>0, <2>1, <3>1, <3>2, <3>3, <3>4 DEF u
  <2>8. CASE x < 128 \/ x = 255 \/ (x = 128 /\ c)
    <3>1. FetchLength(c, u) = FetchLength(c, b) /\ FetchLength(c, b).n \in {-1, 1}
      BY <2>3, <2>4, <2>5, <2>8
    <3>2. Len(b) >= 1
      BY <1>0, <2>1, BytesAreNumbers
    <3>3. QED
      BY <1>0, <3>1, <3>2 DEF u
  <2>9. CASE x = 128 /\ ~c
    <3>1. FetchLength(c, b) = LongLength(0, t) /\ FetchLength(c, u) = LongLength(0, t \o more)
      BY <2>3, <2>4, <2>9
    <3>2. ASSUME NEW s \in Seq(Byte)
          PROVE  LongLength(0, s) = LongLength(0, <<>>) /\ LongLength(0, s).n \in {-1, 1}
      <4>1. ASSUME NEW r \in Seq(Byte)
            PROVE  LongLength(0, r) = IF IsLength(0) THEN [n |-> 1, len |-> 0] ELSE [n |-> -1]
        <5>1. 0 \in Nat /\ 0 <= Len(r)
          BY BytesAreNumbers
        <5>2. LongLength(0, r) = IF IsLength(Accumulated(256, 0, r)[0])
                                 THEN [n |-> 0 + 1, len |-> Accumulated(256, 0, r)[0]] ELSE [n |-> -1]
          BY <5>1, LongLengthIsExact
        <5>3. Accumulated(256, 0, r)[0] = 0
          BY BytesAreNumbers, AccumulatedFunction
        <5>4. QED
          BY <5>2, <5>3
      <4>. DEFINE R == IF IsLength(0) THEN [n |-> 1, len |-> 0] ELSE [n |-> -1]
      <4>2. R.n \in {-1, 1}
        OBVIOUS
      <4>3. <<>> \in Seq(Byte)
        OBVIOUS
      <4>. HIDE DEF R
      <4>4. LongLength(0, s) = R /\ LongLength(0, <<>>) = R
        BY <4>1, <4>3, Zenon DEF R
      <4>5. QED
        BY <4>2, <4>4
    <3>3. t \o more \in Seq(Byte)
      BY <2>1, BytesJoined
    <3>4. FetchLength(c, u) = FetchLength(c, b) /\ FetchLength(c, b).n \in {-1, 1}
      BY <2>1, <3>1, <3>2, <3>3
    <3>5. Len(b) >= 1
      BY <1>0, <2>1, BytesAreNumbers
    <3>6. QED
      BY <1>0, <3>4, <3>5 DEF u
  <2>10. QED
    BY <2>5, <2>6, <2>7, <2>8, <2>9
<1>3. QED
  BY <1>1, <1>2

(* A length that ber_fetch_length finds is one the decoders can add 1024 to *)
(* or the indefinite one of a constructed encoding, and there is no shorter *)
(* way to write it than der_tlv_length_serialize has.                       *)
THEOREM LengthIsShortest ==
  ASSUME NEW c \in BOOLEAN, NEW b \in Seq(Byte), FetchLength(c, b).n > 0
  PROVE  \/ c /\ b[1] = 128 /\ FetchLength(c, b) = [n |-> 1, len |-> -1]
         \/ IsLength(FetchLength(c, b).len) /\ LengthSize(FetchLength(c, b).len) <= FetchLength(c, b).n
<1>. DEFINE x == b[1]
            t == Tail(b)
<1>1. b # <<>>
  BY DEF FetchLength
<1>2. x \in Byte /\ t \in Seq(Byte) /\ Len(t) = Len(b) - 1 /\ Len(t) \in Nat
  BY <1>1, OctetsTaken, BytesAreNumbers
<1>3. FetchLength(c, b) = IF x < 128 THEN [n |-> 1, len |-> x]
                          ELSE IF x = 128 /\ c THEN [n |-> 1, len |-> -1]
                          ELSE IF x = 255 THEN [n |-> -1] ELSE LongLength(x - 128, t)
  BY <1>1 DEF FetchLength
<1>. HIDE DEF x, t
<1>4. x \in Nat /\ x <= 255
  BY <1>2 DEF Byte
<1>5. \A v \in Nat : v <= 127 => IsLength(v) /\ LengthSize(v) = 1
  <2>1. SUFFICES ASSUME NEW v \in Nat, v <= 127 PROVE ShiftRight(v + 1024, 8 * LenOctets - 1) = 0
    BY DEF IsLength, LengthSize
  <2>. DEFINE w == v + 1024
  <2>2. w \in Nat /\ w <= 1151
    BY <2>1
  <2>. HIDE DEF w
  <2>3. ShiftRight(w, 8) = w \div 256
    BY <2>2, ShiftRightSmall
  <2>4. ShiftRight(w, 8 + 7) = ShiftRight(w, 8) \div 128
    BY <2>2, ShiftRightMore
  <2>5. ShiftRight(w, 15) = 0
    BY <2>2, <2>3, <2>4
  <2>6. 8 * LenOctets - 1 \in Nat /\ 15 <= 8 * LenOctets - 1
    BY WidthsAssumption
  <2>7. ShiftRight(w, 8 * LenOctets - 1) = 0
    BY <2>2, <2>5, <2>6, ShiftedOut
  <2>8. QED
    BY <2>7 DEF w
<1>6. CASE x < 128
  BY <1>3, <1>4, <1>5, <1>6
<1>7. CASE x = 128 /\ c
  BY <1>3, <1>7 DEF x
<1>8. CASE ~(x < 128) /\ ~(x = 128 /\ c)
  <2>. DEFINE k == x - 128
              len == Accumulated(256, 0, t)[k]
  <2>1. FetchLength(c, b) = LongLength(k, t) /\ x # 255
    BY <1>3, <1>8
  <2>2. k \in Nat /\ k <= 126
    BY <1>4, <1>8, <2>1
  <2>3. k <= Len(t)
    <3>1. CASE k = 0
      BY <1>2, <3>1
    <3>2. CASE k # 0
      <4>. HIDE DEF k
      <4>1. k \in 1..126
        BY <2>2, <3>2
      <4>2. LongLength(k, t).n \in {-1, 0, k + 1} /\ LongLength(k, t).n <= Len(t) + 1
        BY <1>2, <4>1, LongLengthStays, EmptySeq
      <4>3. QED
        BY <1>2, <2>1, <4>1, <4>2
    <3>3. QED
      BY <3>1, <3>2
  <2>. HIDE DEF k
  <2>4. LongLength(k, t) = IF IsLength(len) THEN [n |-> k + 1, len |-> len] ELSE [n |-> -1]
    BY <1>2, <2>2, <2>3, LongLengthIsExact
  <2>5. /\ t \in Seq(Int) /\ AreDigits(t, k, 256)
        /\ Accumulated(256, 0, t)[0] = 0
    BY <1>2, <2>2, <2>3, BytesAreNumbers, AccumulatedFunction DEF AreDigits
  <2>6. ShiftRight(len, 8 * k) = 0
    <3>1. \A i \in 0..k : ShiftRight(Accumulated(256, 0, t)[k], 8 * (k - i)) = Accumulated(256, 0, t)[i]
      BY <1>2, <2>2, <2>3, <2>5, NumberLosesOctets, SMTT(30)
    <3>2. 0 \in 0..k /\ 8 * (k - 0) = 8 * k
      BY <2>2
    <3>3. QED
      BY <2>5, <3>1, <3>2
  <2>. HIDE DEF len
  <2>7. IsLength(len) /\ LongLength(k, t) = [n |-> k + 1, len |-> len]
    BY <2>1, <2>4
  <2>8. len \in Nat
    BY <2>7 DEF IsLength
  <2>9. LengthSize(len) <= k + 1
    <3>1. CASE len <= 127
      BY <2>2, <2>8, <3>1 DEF LengthSize
    <3>2. CASE ~(len <= 127)
      <4>1. k # 0
        <5>1. ShiftRight(len, 0) = len
          BY <2>8, ShiftRightZero
        <5>2. QED
          BY <2>6, <2>8, <3>2, <5>1
      <4>2. /\ Digits(len, 8, 8 * LenOctets) \in 1..LenOctets
            /\ \A j \in Nat \ {0} : ShiftRight(len, 8 * j) = 0 => Digits(len, 8, 8 * LenOctets) <= j
        BY <2>8, DigitsOfLength
      <4>. DEFINE d == Digits(len, 8, 8 * LenOctets)
      <4>3. LengthSize(len) = 1 + d
        BY <3>2 DEF LengthSize
      <4>4. d \in Nat /\ d <= k
        BY <2>2, <2>6, <4>1, <4>2
      <4>. HIDE DEF d
      <4>5. QED
        BY <2>2, <4>3, <4>4
    <3>3. QED
      BY <3>1, <3>2
  <2>10. QED
    BY <2>1, <2>7, <2>9
<1>9. QED
  BY <1>6, <1>7, <1>8

(* -- tags ----------------------------------------------------------------- *)
(* A tag the decoders can pack into a word, with its class.                 *)
IsTag(tag) == tag \in (0..3) \X Nat /\ ShiftRight(tag[2], TagBits - 2) = 0
Groups(t) == [i \in 1..Len(t) |-> t[i] % 128]

LEMMA GroupsAreDigits ==
  ASSUME NEW t \in Seq(Byte)
  PROVE  /\ Groups(t) \in Seq(Int) /\ Len(Groups(t)) = Len(t) /\ Len(t) \in Nat
         /\ \A n \in 0..Len(t) : AreDigits(Groups(t), n, 128)
         /\ \A i \in 1..Len(t) : Groups(t)[i] = t[i] % 128 /\ t[i] \in 0..255
<1>1. t \in Seq(Int) /\ Len(t) \in Nat /\ \A i \in 1..Len(t) : t[i] \in 0..255
  BY BytesAreNumbers DEF AreDigits
<1>2. \A x \in 0..255 : (x % 128) \in 0..127
  OBVIOUS
<1>. DEFINE g == Groups(t)
<1>3. g = [i \in 1..Len(t) |-> t[i] % 128]
  BY DEF Groups
<1>. HIDE DEF g
<1>4. ASSUME NEW i \in 1..Len(t) PROVE g[i] = t[i] % 128 /\ g[i] \in 0..127
  <2>1. g[i] = t[i] % 128
    BY <1>3
  <2>2. t[i] \in 0..255
    BY <1>1
  <2>3. (t[i] % 128) \in 0..127
    BY <1>2, <2>2, Zenon
  <2>4. QED
    BY <2>1, <2>3, Zenon
<1>5. g \in Seq(Int) /\ Len(g) = Len(t)
  BY <1>1, <1>3, <1>4
<1>6. \A n \in 0..Len(t) : AreDigits(g, n, 128)
  BY <1>1, <1>4 DEF AreDigits
<1>7. QED
  BY <1>1, <1>4, <1>5, <1>6 DEF g

LEMMA GroupsAccumulate ==
  ASSUME NEW t \in Seq(Byte), NEW e \in 0..Len(t)
  PROVE  /\ Accumulated(128, 0, Groups(t))[0] = 0
         /\ Accumulated(128, 0, Groups(t))[e] \in Nat
         /\ \A i \in 0..e : ShiftRight(Accumulated(128, 0, Groups(t))[e], 7 * (e - i))
                              = Accumulated(128, 0, Groups(t))[i]
<1>. DEFINE g == Groups(t)
            val == Accumulated(128, 0, g)
<1>1. g \in Seq(Int) /\ Len(g) = Len(t) /\ Len(t) \in Nat /\ AreDigits(g, e, 128)
  BY GroupsAreDigits
<1>. HIDE DEF g
<1>2. val[0] = 0 /\ \A i \in 1..Len(g) : val[i] = 128 * val[i - 1] + g[i]
  BY <1>1, AccumulatedFunction
<1>3. \A i \in 0..e : ShiftRight(Accumulated(128, 0, g)[e], 7 * (e - i)) = Accumulated(128, 0, g)[i]
  BY <1>1, NumberLosesGroups
<1>. HIDE DEF val
<1>4. val[e] \in Nat
  <2>. DEFINE T == {i \in Nat : i <= e => val[i] \in Nat}
  <2>1. 0 \in T
    BY <1>2
  <2>2. ASSUME NEW i \in Nat, i \in T PROVE i + 1 \in T
    <3>. SUFFICES ASSUME NEW j \in 1..e, j = i + 1 PROVE val[j] \in Nat
      OBVIOUS
    <3>1. j \in 1..Len(g) /\ j - 1 = i /\ i <= e /\ g[j] \in 0..127
      BY <1>1 DEF AreDigits
    <3>2. val[j] = 128 * val[i] + g[j] /\ val[i] \in Nat
      BY <1>2, <2>2, <3>1
    <3>3. \A x \in Nat, y \in 0..127 : 128 * x + y \in Nat
      OBVIOUS
    <3>4. QED
      BY <3>1, <3>2, <3>3
  <2>. HIDE DEF T
  <2>3. Nat \subseteq T
    BY <2>1, <2>2, Induction
  <2>4. QED
    BY <2>3 DEF T
<1>5. QED
  BY <1>2, <1>3, <1>4 DEF g, val

(* A tag of more than one octet that ends with the e-th after the first:    *)
(* taken if its number leaves two bits of the word to the class, refused if *)
(* not.                                                                     *)
LEMMA LongTagIsExact ==
  ASSUME NEW class, NEW t \in Seq(Byte), NEW e \in 1..Len(t),
         t[e] < 128, \A i \in 1..(e - 1) : ~(t[i] < 128)
  PROVE  LongTag(class, t) =
           IF ShiftRight(Accumulated(128, 0, Groups(t))[e], TagBits - 2) = 0
           THEN [n |-> e + 1, tag |-> <<class, Accumulated(128, 0, Groups(t))[e]>>]
           ELSE [n |-> -1]
<1>. DEFINE val == Accumulated(128, 0, Groups(t))
            ends == {i \in 1..Len(t) : t[i] < 128}
            last == IF ends = {} THEN Len(t) + 1 ELSE Min(ends)
            refused(l) == \E i \in 1..(l - 1) : ShiftRight(val[i], TagBits - 9) # 0
<1>1. Len(t) \in Nat
  BY GroupsAreDigits
<1>2. last = e
  <2>1. e \in ends /\ ends \subseteq Nat /\ \A i \in ends : i \in 1..Len(t) /\ t[i] < 128
    BY <1>1
  <2>. HIDE DEF ends
  <2>2. Min(ends) \in ends /\ \A i \in ends : Min(ends) <= i
    BY <2>1, LeastIsLeast
  <2>3. Min(ends) = e
    <3>. DEFINE l == Min(ends)
    <3>1. l \in 1..Len(t) /\ t[l] < 128 /\ l <= e
      BY <2>1, <2>2
    <3>. HIDE DEF l
    <3>2. l \notin 1..(e - 1)
      BY <3>1
    <3>3. l = e
      BY <1>1, <3>1, <3>2
    <3>4. QED
      BY <3>3 DEF l
  <2>4. QED
    BY <2>1, <2>3
<1>3. LongTag(class, t) = IF refused(last) THEN [n |-> -1]
                          ELSE IF last > Len(t) THEN [n |-> 0]
                          ELSE [n |-> last + 1, tag |-> <<class, val[last]>>]
  BY DEF LongTag, Groups
<1>. HIDE DEF last
<1>4. LongTag(class, t) = IF refused(e) THEN [n |-> -1]
                          ELSE [n |-> e + 1, tag |-> <<class, val[e]>>]
  BY <1>1, <1>2, <1>3
<1>5. e \in 0..Len(t) /\ e - 1 \in 0..e /\ e - 1 \in Nat
  BY <1>1
<1>6. /\ val[0] = 0 /\ val[e] \in Nat
      /\ \A i \in 0..e : ShiftRight(val[e], 7 * (e - i)) = val[i]
  BY <1>5, GroupsAccumulate
<1>. HIDE DEF val
<1>7. PICK r \in Nat : TagBits - 9 = r /\ TagBits - 2 = r + 7
  <2>1. TagBits - 9 \in Nat /\ TagBits - 2 = (TagBits - 9) + 7
    BY WidthsAssumption
  <2>2. QED
    BY <2>1
<1>8. ASSUME ShiftRight(val[e], TagBits - 2) = 0 PROVE ~refused(e)
  <2>. SUFFICES ASSUME NEW i \in 1..(e - 1) PROVE ShiftRight(val[i], TagBits - 9) = 0
    OBVIOUS
  <2>. DEFINE v == val[e]
              d == 7 * (e - i)
              m == r + 7
  <2>1. i \in 0..e /\ d \in Nat /\ d + r \in Nat /\ m \in Nat /\ m <= d + r
    BY <1>5
  <2>2. v \in Nat /\ ShiftRight(v, d) = val[i] /\ ShiftRight(v, m) = 0
    BY <1>6, <1>7, <1>8, <2>1
  <2>. HIDE DEF d, v, m
  <2>3. ShiftRight(ShiftRight(v, d), r) = ShiftRight(v, d + r)
    <3>1. \A x \in Int, y \in Nat : ShiftRight(ShiftRight(x, y), r) = ShiftRight(x, y + r)
      BY ShiftRightTwice
    <3>2. v \in Int /\ d \in Nat
      BY <2>1, <2>2
    <3>3. QED
      BY <3>1, <3>2, Zenon
  <2>4. ShiftRight(v, d + r) = 0
    BY <2>1, <2>2, ShiftedOut
  <2>5. QED
    BY <1>7, <2>2, <2>3, <2>4
<1>9. ASSUME ~refused(e) PROVE ShiftRight(val[e], TagBits - 2) = 0
  <2>1. ShiftRight(val[e], 7) = val[e - 1]
    <3>1. 7 * (e - (e - 1)) = 7
      BY <1>5
    <3>2. QED
      BY <1>5, <1>6, <3>1
  <2>2. ShiftRight(ShiftRight(val[e], 7), r) = ShiftRight(val[e], 7 + r)
    <3>1. \A x \in Int : ShiftRight(ShiftRight(x, 7), r) = ShiftRight(x, 7 + r)
      BY ShiftRightTwice, 7 \in Nat
    <3>2. QED
      BY <1>6, <3>1
  <2>3. 7 + r = TagBits - 2
    BY <1>7
  <2>4. ShiftRight(val[e - 1], TagBits - 9) = 0
    <3>1. CASE e - 1 = 0
      BY <1>6, <1>7, <3>1, ShiftRightEnds
    <3>2. CASE e - 1 \in 1..(e - 1)
      BY <1>9, <3>2
    <3>3. QED
      BY <1>5, <3>1, <3>2
  <2>5. QED
    BY <1>7, <2>1, <2>2, <2>3, <2>4
<1>. HIDE DEF refused
<1>10. LongTag(class, t) = IF ShiftRight(val[e], TagBits - 2) = 0
                           THEN [n |-> e + 1, tag |-> <<class, val[e]>>] ELSE [n |-> -1]
  BY <1>4, <1>8, <1>9
<1>11. QED
  BY <1>10 DEF val

LEMMA DigitsOfTag ==
  ASSUME NEW v \in Nat
  PROVE  LET k == Digits(v, 7, TagBits)
         IN /\ k \in 1..TagBits
            /\ ShiftRight(v, TagBits - 2) = 0 => ShiftRight(v, 7 * k) = 0
            /\ \A j \in Nat \ {0} : ShiftRight(v, 7 * j) = 0 => k <= j
<1>. DEFINE S == {k \in 1..TagBits : k * 7 >= TagBits \/ ShiftRight(v, 7 * k) = 0}
            k == Min(S)
<1>0. TagBits \in Nat /\ TagBits > 9
  BY WidthsAssumption
<1>1. TagBits \in S
  BY <1>0
<1>2. S \subseteq Nat /\ S # {}
  BY <1>0, <1>1
<1>3. \A j \in S : j \in 1..TagBits /\ (j * 7 >= TagBits \/ ShiftRight(v, 7 * j) = 0)
  OBVIOUS
<1>4. \A j \in 1..TagBits : ShiftRight(v, 7 * j) = 0 => j \in S
  OBVIOUS
<1>5. Digits(v, 7, TagBits) = k
  BY DEF Digits
<1>. HIDE DEF S
<1>6. k \in S /\ \A j \in S : k <= j
  BY <1>2, LeastIsLeast
<1>. HIDE DEF k
<1>7. k \in 1..TagBits
  BY <1>3, <1>6
<1>8. ASSUME ShiftRight(v, TagBits - 2) = 0 PROVE ShiftRight(v, 7 * k) = 0
  <2>1. CASE k * 7 >= TagBits
    <3>. DEFINE m == TagBits - 2
                n == 7 * k
    <3>1. m \in Nat /\ n \in Nat /\ m <= n
      BY <1>0, <1>7, <2>1
    <3>2. ShiftRight(v, m) = 0
      BY <1>8
    <3>. HIDE DEF m, n
    <3>3. ShiftRight(v, n) = 0
      BY <3>1, <3>2, ShiftedOut
    <3>4. QED
      BY <3>3 DEF n
  <2>2. QED
    BY <1>3, <1>6, <2>1
<1>9. ASSUME NEW j \in Nat \ {0}, ShiftRight(v, 7 * j) = 0 PROVE k <= j
  <2>1. CASE j \in 1..TagBits
    BY <1>4, <1>6, <1>9, <2>1
  <2>2. CASE j \notin 1..TagBits
    BY <1>0, <1>7, <2>2
  <2>3. QED
    BY <2>1, <2>2
<1>10. QED
  BY <1>5, <1>7, <1>8, <1>9

(* A tag is decided as soon as it can be and stays decided.                 *)
LEMMA LongTagStays ==
  ASSUME NEW class, NEW t \in Seq(Byte), NEW more \in Seq(Byte)
  PROVE  /\ LongTag(class, t).n \in {-1, 0} \cup 2..(Len(t) + 1)
         /\ LongTag(class, t).n # 0 => LongTag(class, t \o more) = LongTag(class, t)
         /\ LongTag(class, t).n = 0 =>
              LongTag(class, t \o more).n \in {-1, 0} \/ LongTag(class, t \o more).n > Len(t) + 1
<1>. DEFINE u == t \o more
            Ends(s) == {i \in 1..Len(s) : s[i] < 128}
            End(s) == IF Ends(s) = {} THEN Len(s) + 1 ELSE Min(Ends(s))
            Val(s) == Accumulated(128, 0, Groups(s))
            Refused(s, l) == \E i \in 1..(l - 1) : ShiftRight(Val(s)[i], TagBits - 9) # 0
<1>1. u \in Seq(Byte)
  BY BytesJoined
<1>2. Len(t) \in Nat /\ Len(more) \in Nat /\ Len(u) = Len(t) + Len(more)
      /\ \A i \in 1..Len(t) : u[i] = t[i]
  BY BytesAreNumbers, Joined
<1>3. \A i \in 0..Len(t) : Val(u)[i] = Val(t)[i]
  <2>. DEFINE g == Groups(t)
              h == Groups(u)
  <2>1. g \in Seq(Int) /\ Len(g) = Len(t) /\ \A i \in 1..Len(t) : g[i] = t[i] % 128
    BY GroupsAreDigits
  <2>2. h \in Seq(Int) /\ Len(h) = Len(u) /\ \A i \in 1..Len(u) : h[i] = u[i] % 128
    <3>. HIDE DEF u
    <3>1. QED
      BY <1>1, GroupsAreDigits
  <2>. HIDE DEF g, h, u
  <2>3. \A i \in 1..Len(t) : g[i] = h[i]
    BY <1>2, <2>1, <2>2
  <2>4. Len(t) <= Len(g) /\ Len(t) <= Len(h)
    BY <1>2, <2>1, <2>2
  <2>5. \A i \in 0..Len(t) : Accumulated(128, 0, g)[i] = Accumulated(128, 0, h)[i]
    <3>. DEFINE n == Len(t)
    <3>1. n \in Nat /\ Agree(g, h, n)
      BY <1>2, <2>3, <2>4 DEF Agree
    <3>. HIDE DEF n
    <3>2. \A i \in 0..n : Accumulated(128, 0, g)[i] = Accumulated(128, 0, h)[i]
      BY <2>1, <2>2, <3>1, AccumulatedAgrees
    <3>3. QED
      BY <3>2 DEF n
  <2>6. QED
    BY <2>5 DEF g, h
<1>4. \A s \in Seq(Byte) :
        LongTag(class, s) = IF Refused(s, End(s)) THEN [n |-> -1]
                            ELSE IF End(s) > Len(s) THEN [n |-> 0]
                            ELSE [n |-> End(s) + 1, tag |-> <<class, Val(s)[End(s)]>>]
  BY DEF LongTag, Groups
<1>5. \A s \in Seq(Byte) :
        /\ Ends(s) # {} => /\ End(s) \in 1..Len(s) /\ s[End(s)] < 128
                           /\ \A i \in 1..(End(s) - 1) : ~(s[i] < 128)
        /\ Ends(s) = {} => End(s) = Len(s) + 1 /\ \A i \in 1..Len(s) : ~(s[i] < 128)
  <2>. SUFFICES ASSUME NEW s \in Seq(Byte), Ends(s) # {}
                PROVE  /\ End(s) \in 1..Len(s) /\ s[End(s)] < 128
                       /\ \A i \in 1..(End(s) - 1) : ~(s[i] < 128)
    OBVIOUS
  <2>. DEFINE E == Ends(s)
              l == Min(E)
  <2>1. Len(s) \in Nat
    BY GroupsAreDigits
  <2>2. E \subseteq Nat /\ E # {} /\ \A i \in E : i \in 1..Len(s) /\ s[i] < 128
    OBVIOUS
  <2>3. \A i \in 1..Len(s) : s[i] < 128 => i \in E
    OBVIOUS
  <2>. HIDE DEF E
  <2>4. l \in E /\ \A i \in E : l <= i
    BY <2>2, LeastIsLeast
  <2>5. End(s) = l
    BY DEF E
  <2>. HIDE DEF l
  <2>6. l \in 1..Len(s) /\ s[l] < 128
    BY <2>2, <2>4
  <2>7. ASSUME NEW i \in 1..(l - 1), s[i] < 128 PROVE FALSE
    BY <2>1, <2>3, <2>4, <2>6, <2>7
  <2>. HIDE DEF End
  <2>8. QED
    BY <2>5, <2>6, <2>7
<1>6. CASE Ends(t) # {}
  <2>. DEFINE e == End(t)
  <2>1. e \in 1..Len(t) /\ t[e] < 128 /\ \A i \in 1..(e - 1) : ~(t[i] < 128)
    BY <1>5, <1>6
  <2>. HIDE DEF Ends, End, u
  <2>2. e \in 1..Len(u) /\ u[e] < 128 /\ \A i \in 1..(e - 1) : ~(u[i] < 128)
    BY <1>2, <2>1
  <2>. DEFINE R(v) == IF ShiftRight(v, TagBits - 2) = 0 THEN [n |-> e + 1, tag |-> <<class, v>>]
                      ELSE [n |-> -1]
  <2>. HIDE DEF e
  <2>3. LongTag(class, t) = R(Accumulated(128, 0, Groups(t))[e])
    BY <2>1, LongTagIsExact
  <2>4. LongTag(class, u) = R(Accumulated(128, 0, Groups(u))[e])
    BY <1>1, <2>2, LongTagIsExact
  <2>5. e \in 0..Len(t) /\ e + 1 \in 2..(Len(t) + 1)
    BY <1>2, <2>1
  <2>6. Val(u)[e] = Val(t)[e]
    BY <1>3, <2>5
  <2>. HIDE DEF R
  <2>7. LongTag(class, u) = LongTag(class, t)
    BY <2>3, <2>4, <2>6
  <2>8. LongTag(class, t).n \in {-1, e + 1}
    BY <2>3 DEF R
  <2>9. LongTag(class, t).n # 0
    BY <1>2, <2>5, <2>8
  <2>10. QED
    BY <1>2, <2>5, <2>7, <2>8, <2>9 DEF u
<1>7. CASE Ends(t) = {}
  <2>1. End(t) = Len(t) + 1 /\ \A i \in 1..Len(t) : ~(t[i] < 128)
    BY <1>5, <1>7
  <2>2. LongTag(class, t) = IF Refused(t, End(t)) THEN [n |-> -1]
                            ELSE IF End(t) > Len(t) THEN [n |-> 0]
                            ELSE [n |-> End(t) + 1, tag |-> <<class, Val(t)[End(t)]>>]
    BY <1>4
  <2>3. LongTag(class, u) = IF Refused(u, End(u)) THEN [n |-> -1]
                            ELSE IF End(u) > Len(u) THEN [n |-> 0]
                            ELSE [n |-> End(u) + 1, tag |-> <<class, Val(u)[End(u)]>>]
    <3>. HIDE DEF u
    <3>1. QED
      BY <1>1, <1>4
  <2>4. End(u) \in Nat /\ End(u) >= Len(t) + 1
    <3>. HIDE DEF u
    <3>1. CASE Ends(u) = {}
      <4>1. End(u) = Len(u) + 1
        BY <1>1, <1>5, <3>1
      <4>. HIDE DEF End
      <4>2. QED
        BY <1>2, <4>1
    <3>2. CASE Ends(u) # {}
      <4>1. End(u) \in 1..Len(u) /\ u[End(u)] < 128
        BY <1>1, <1>5, <3>2
      <4>. HIDE DEF End
      <4>2. ASSUME End(u) <= Len(t) PROVE FALSE
        <5>1. End(u) \in 1..Len(t)
          BY <1>2, <4>1, <4>2
        <5>2. QED
          BY <1>2, <2>1, <4>1, <5>1
      <4>3. QED
        BY <1>2, <4>1, <4>2
    <3>3. QED
      BY <3>1, <3>2
  <2>5. Refused(t, Len(t) + 1) => Refused(u, End(u))
    <3>. DEFINE l == End(u)
    <3>1. l \in Nat /\ l >= Len(t) + 1
      BY <2>4
    <3>. HIDE DEF l, Val
    <3>2. SUFFICES ASSUME NEW i \in 1..((Len(t) + 1) - 1), ShiftRight(Val(t)[i], TagBits - 9) # 0
                   PROVE  Refused(u, l)
      BY DEF l
    <3>3. i \in 1..Len(t) /\ i \in 0..Len(t) /\ i \in 1..(l - 1)
      BY <1>2, <3>1
    <3>4. Val(u)[i] = Val(t)[i]
      BY <1>3, <3>3
    <3>5. QED
      BY <3>2, <3>3, <3>4
  <2>. HIDE DEF Refused, End, Ends, Val, u
  <2>6. LongTag(class, t) = IF Refused(t, Len(t) + 1) THEN [n |-> -1] ELSE [n |-> 0]
    BY <1>2, <2>1, <2>2
  <2>7. CASE Refused(t, Len(t) + 1)
    <3>1. LongTag(class, u) = LongTag(class, t) /\ LongTag(class, t).n = -1
      BY <2>3, <2>5, <2>6, <2>7
    <3>2. QED
      BY <3>1 DEF u
  <2>8. CASE ~Refused(t, Len(t) + 1)
    <3>1. LongTag(class, t).n = 0
      BY <2>6, <2>8
    <3>2. LongTag(class, u).n \in {-1, 0, End(u) + 1}
      BY <2>3
    <3>3. QED
      BY <1>2, <2>4, <3>1, <3>2 DEF u
  <2>9. QED
    BY <2>7, <2>8
<1>8. QED
  BY <1>6, <1>7

(* The same for ber_fetch_tag: what it says of the octets it has seen it    *)
(* says of them with any others behind, it takes no octet that is not there *)
(* and asks for more only where more decides.                               *)
THEOREM TagStaysDecided ==
  ASSUME NEW b \in Seq(Byte), NEW more \in Seq(Byte)
  PROVE  /\ FetchTag(b).n \in {-1, 0} \cup 1..Len(b)
         /\ FetchTag(b).n # 0 => FetchTag(b \o more) = FetchTag(b)
         /\ FetchTag(b).n = 0 =>
              FetchTag(b \o more).n \in {-1, 0} \/ FetchTag(b \o more).n > Len(b)
<1>. DEFINE u == b \o more
            tag(x, s) == IF x % 32 # 31 THEN [n |-> 1, tag |-> <<x \div 64, x % 32>>]
                         ELSE LongTag(x \div 64, s)
<1>1. u \in Seq(Byte) /\ Len(b) \in Nat
  BY BytesJoined, BytesAreNumbers
<1>2. CASE b = <<>>
  <2>1. FetchTag(b) = [n |-> 0] /\ Len(b) = 0
    BY <1>2 DEF FetchTag
  <2>2. FetchTag(u).n \in {-1, 0} \/ FetchTag(u).n > 0
    <3>. HIDE DEF u
    <3>1. CASE u = <<>>
      BY <3>1 DEF FetchTag
    <3>2. CASE u # <<>>
      <4>. DEFINE x == u[1]
                  v == Tail(u)
      <4>1. v \in Seq(Byte) /\ Len(v) \in Nat
        BY <1>1, <3>2, OctetsTaken, BytesAreNumbers
      <4>2. FetchTag(u) = tag(x, v)
        BY <3>2 DEF FetchTag
      <4>. HIDE DEF v, x
      <4>3. LongTag(x \div 64, v).n \in {-1, 0} \cup 2..(Len(v) + 1)
        BY <4>1, LongTagStays, EmptySeq
      <4>4. QED
        BY <4>1, <4>2, <4>3
    <3>3. QED
      BY <3>1, <3>2
  <2>3. QED
    BY <2>1, <2>2
<1>3. CASE b # <<>>
  <2>. DEFINE x == b[1]
              t == Tail(b)
              class == x \div 64
  <2>1. t \in Seq(Byte) /\ Len(t) = Len(b) - 1
    BY <1>3, OctetsTaken
  <2>2. u # <<>> /\ u[1] = x /\ Tail(u) = t \o more
    BY <1>3, BytesAreNumbers, Joined
  <2>3. FetchTag(b) = tag(x, t)
    BY <1>3 DEF FetchTag
  <2>. HIDE DEF u
  <2>4. FetchTag(u) = tag(x, t \o more)
    BY <2>2 DEF FetchTag
  <2>. HIDE DEF x, t
  <2>5. /\ LongTag(class, t).n \in {-1, 0} \cup 2..(Len(t) + 1)
        /\ LongTag(class, t).n # 0 => LongTag(class, t \o more) = LongTag(class, t)
        /\ LongTag(class, t).n = 0 =>
             LongTag(class, t \o more).n \in {-1, 0} \/ LongTag(class, t \o more).n > Len(t) + 1
    BY <2>1, LongTagStays
  <2>6. Len(b) >= 1
    BY <1>1, <2>1, BytesAreNumbers
  <2>7. CASE x % 32 # 31
    <3>1. FetchTag(u) = FetchTag(b) /\ FetchTag(b).n = 1
      BY <2>3, <2>4, <2>7
    <3>2. QED
      BY <1>1, <2>6, <3>1 DEF u
  <2>8. CASE ~(x % 32 # 31)
    <3>1. FetchTag(b) = LongTag(class, t) /\ FetchTag(u) = LongTag(class, t \o more)
      BY <2>3, <2>4, <2>8
    <3>2. Len(t) + 1 = Len(b)
      BY <1>1, <2>1
    <3>. HIDE DEF class
    <3>3. QED
      BY <1>1, <2>5, <2>6, <3>1, <3>2 DEF u
  <2>9. QED
    BY <2>7, <2>8
<1>4. QED
  BY <1>2, <1>3

(* The octets of a tag, with or without the bit of a constructed encoding   *)
(* in the first of them: ber_fetch_tag takes exactly those and finds the    *)
(* tag, whatever follows, and the bit is found as it was set.               *)
Marked(s, constructed) == [s EXCEPT ![1] = @ + IF constructed THEN 32 ELSE 0]

LEMMA FirstMarked ==
  ASSUME NEW y \in Int, NEW constructed \in BOOLEAN, NEW s \in Seq(Int)
  PROVE  Marked(<<y>> \o s, constructed) = <<y + IF constructed THEN 32 ELSE 0>> \o s
<1>. DEFINE d == IF constructed THEN 32 ELSE 0
            a == <<y>> \o s
            b == <<y + d>> \o s
            c == [a EXCEPT ![1] = @ + d]
<1>1. /\ a \in Seq(Int) /\ Len(a) = Len(s) + 1 /\ a[1] = y
      /\ \A i \in 1..Len(s) : a[i + 1] = s[i]
  BY FirstOctet
<1>2. /\ b \in Seq(Int) /\ Len(b) = Len(s) + 1 /\ b[1] = y + d
      /\ \A i \in 1..Len(s) : b[i + 1] = s[i]
  <2>1. \A z \in Int : LET e == <<z>> \o s IN
          /\ e \in Seq(Int) /\ Len(e) = Len(s) + 1 /\ e[1] = z
          /\ \A i \in 1..Len(s) : e[i + 1] = s[i]
    BY FirstOctet
  <2>2. d \in Int
    OBVIOUS
  <2>. HIDE DEF d
  <2>3. QED
    BY <2>1, <2>2
<1>3. Len(s) \in Nat /\ d \in Int
  OBVIOUS
<1>. HIDE DEF d, a, b
<1>4. 1 \in 1..Len(a) /\ a[1] + d \in Int
  BY <1>1, <1>3
<1>5. /\ c \in Seq(Int) /\ Len(c) = Len(a) /\ c[1] = a[1] + d
      /\ \A i \in 1..Len(a) : i # 1 => c[i] = a[i]
  BY <1>1, <1>4, ExceptSeq
<1>. HIDE DEF c
<1>6. ASSUME NEW i \in 1..Len(b) PROVE c[i] = b[i]
  <2>1. CASE i = 1
    BY <1>1, <1>2, <1>5, <2>1
  <2>2. CASE i # 1
    <3>1. i - 1 \in 1..Len(s) /\ (i - 1) + 1 = i
      BY <1>2, <1>3, <2>2
    <3>2. QED
      BY <1>1, <1>2, <1>5, <2>2, <3>1
  <2>3. QED
    BY <2>1, <2>2
<1>7. c = b
  BY <1>1, <1>2, <1>5, <1>6, SeqEqual
<1>8. Marked(a, constructed) = c
  BY DEF Marked, c, d
<1>9. QED
  BY <1>7, <1>8 DEF a, b, d

LEMMA TagIsFetched ==
  ASSUME NEW class \in 0..3, NEW v \in Nat, ShiftRight(v, TagBits - 2) = 0,
         NEW c \in BOOLEAN, NEW rest \in Seq(Byte)
  PROVE  LET s == Marked(TagOctets(<<class, v>>), c)
         IN /\ s \in Seq(Byte) /\ s # <<>>
            /\ Len(s) = TagSize(<<class, v>>)
            /\ Constructed(s[1]) = c
            /\ FetchTag(s \o rest) = [n |-> TagSize(<<class, v>>), tag |-> <<class, v>>]
<1>. DEFINE tag == <<class, v>>
            bit == IF c THEN 32 ELSE 0
            s == Marked(TagOctets(tag), c)
<1>0. tag[1] = class /\ tag[2] = v /\ bit \in {0, 32}
  OBVIOUS
<1>1. \A y \in 0..31 : /\ 64 * class + y + bit \in 0..255
                       /\ (64 * class + y + bit) % 32 = y
                       /\ (64 * class + y + bit) \div 64 = class
                       /\ ((64 * class + y + bit) \div 32) % 2 = (IF c THEN 1 ELSE 0)
  <2>1. \A k \in 0..3, y \in 0..31, d \in {0, 32} :
           /\ 64 * k + y + d \in 0..255 /\ (64 * k + y + d) % 32 = y
           /\ (64 * k + y + d) \div 64 = k
           /\ ((64 * k + y + d) \div 32) % 2 = (IF d = 32 THEN 1 ELSE 0)
    OBVIOUS
  <2>2. bit = 32 <=> c
    OBVIOUS
  <2>. HIDE DEF bit
  <2>3. QED
    BY <1>0, <2>1, <2>2
<1>2. CASE v <= 30
  <2>. DEFINE x == 64 * class + v + bit
  <2>1. TagOctets(tag) = <<64 * class + v>> /\ TagSize(tag) = 1
    BY <1>2 DEF TagOctets, TagSize
  <2>2. s = <<x>>
    BY <2>1 DEF Marked
  <2>3. v \in 0..31 /\ v # 31
    BY <1>2
  <2>4. x \in 0..255 /\ x % 32 = v /\ x \div 64 = class /\ (x \div 32) % 2 = (IF c THEN 1 ELSE 0)
    <3>. HIDE DEF bit
    <3>1. QED
      BY <1>1, <2>3, Zenon
  <2>. HIDE DEF x, s, tag, bit
  <2>5. <<x>> \o rest # <<>> /\ (<<x>> \o rest)[1] = x
    BY <2>4, BytesAreNumbers, FirstOctet
  <2>6. FetchTag(<<x>> \o rest) = [n |-> 1, tag |-> <<class, v>>]
    BY <2>3, <2>4, <2>5 DEF FetchTag
  <2>7. Constructed(x) = c
    BY <2>4 DEF Constructed
  <2>8. <<x>> \in Seq(Byte) /\ Len(<<x>>) = 1 /\ <<x>>[1] = x /\ <<x>> # <<>>
    BY <2>4 DEF Byte
  <2>9. QED
    BY <2>1, <2>2, <2>6, <2>7, <2>8 DEF s, tag
<1>3. CASE ~(v <= 30)
  <2>. DEFINE k == Digits(v, 7, TagBits)
              group(i) == ShiftRight(v, 7 * (k - i)) % 128
              body == [i \in 1..k |-> group(i) + IF i < k THEN 128 ELSE 0]
              x == 64 * class + 31 + bit
              t == body \o rest
              g == Groups(t)
  <2>1. TagSize(tag) = 1 + k
    BY <1>3 DEF TagSize
  <2>2. k \in 1..TagBits /\ ShiftRight(v, 7 * k) = 0
    BY DigitsOfTag
  <2>3. k \in Nat /\ k # 0 /\ (1 + k) - 1 = k
    <3>. HIDE DEF k
    <3>1. QED
      BY <2>2, WidthsAssumption
  <2>4. TagOctets(tag) = <<64 * class + 31>> \o body
    BY <1>3, <2>1, <2>3 DEF TagOctets
  <2>. HIDE DEF k
  <2>5. ASSUME NEW i \in 1..k PROVE group(i) \in 0..127
    <3>1. 7 * (k - i) \in Nat
      BY <2>3
    <3>2. ShiftRight(v, 7 * (k - i)) \in Int
      BY <3>1, ShiftRightType
    <3>3. \A y \in Int : (y % 128) \in 0..127
      OBVIOUS
    <3>4. QED
      BY <3>2, <3>3
  <2>. HIDE DEF group
  <2>6. /\ body \in Seq(0..255) /\ Len(body) = k
        /\ \A i \in 1..k : /\ body[i] % 128 = group(i)
                           /\ body[i] < 128 <=> i = k
    <3>1. \A i \in 1..k : body[i] = group(i) + IF i < k THEN 128 ELSE 0
      OBVIOUS
    <3>. HIDE DEF body
    <3>2. ASSUME NEW i \in 1..k
          PROVE  body[i] \in 0..255 /\ body[i] % 128 = group(i) /\ (body[i] < 128 <=> i = k)
      <4>1. PICK y \in 0..127 : group(i) = y
        BY <2>5
      <4>2. body[i] = y + IF i < k THEN 128 ELSE 0
        BY <3>1, <4>1
      <4>3. QED
        BY <2>3, <4>1, <4>2
    <3>3. body \in Seq(0..255) /\ Len(body) = k
      BY <2>3, <3>2 DEF body
    <3>4. QED
      BY <3>2, <3>3
  <2>. HIDE DEF body
  <2>7. body \in Seq(Byte) /\ t \in Seq(Byte)
    BY <2>6, BytesJoined DEF Byte
  <2>8. /\ Len(t) \in Nat /\ k <= Len(t)
        /\ \A i \in 1..k : t[i] = body[i]
    BY <2>3, <2>6, <2>7, BytesAreNumbers, Joined
  <2>. HIDE DEF t
  <2>9. g \in Seq(Int) /\ Len(g) = Len(t) /\ \A i \in 1..Len(t) : g[i] = t[i] % 128
    BY <2>7, GroupsAreDigits
  <2>. HIDE DEF g
  <2>10. AreDigitsOf(g, v, k, 7, 128)
    <3>1. \A i \in 1..k : g[i] = group(i)
      BY <2>3, <2>6, <2>8, <2>9
    <3>2. QED
      BY <3>1 DEF AreDigitsOf, group
  <2>11. Accumulated(128, 0, g)[k] = v
    <3>1. \A i \in 0..k : Accumulated(128, ShiftRight(v, 7 * k), g)[i] = ShiftRight(v, 7 * (k - i))
      BY <2>3, <2>8, <2>9, <2>10, GroupsMakeNumber
    <3>2. k \in 0..k /\ 7 * (k - k) = 0
      BY <2>3
    <3>3. QED
      BY <2>2, <3>1, <3>2, ShiftRightZero
  <2>12. k \in 1..Len(t) /\ t[k] < 128 /\ \A i \in 1..(k - 1) : ~(t[i] < 128)
    BY <2>3, <2>6, <2>8
  <2>13. LongTag(class, t) = [n |-> k + 1, tag |-> <<class, v>>]
    <3>1. LongTag(class, t) =
             IF ShiftRight(Accumulated(128, 0, Groups(t))[k], TagBits - 2) = 0
             THEN [n |-> k + 1, tag |-> <<class, Accumulated(128, 0, Groups(t))[k]>>]
             ELSE [n |-> -1]
      BY <2>7, <2>12, LongTagIsExact
    <3>2. QED
      BY <2>11, <3>1 DEF g
  <2>14. x \in 0..255 /\ x % 32 = 31 /\ x \div 64 = class /\ (x \div 32) % 2 = (IF c THEN 1 ELSE 0)
    <3>. HIDE DEF bit
    <3>1. 31 \in 0..31
      OBVIOUS
    <3>2. QED
      BY <1>1, <3>1
  <2>15. s = <<x>> \o body
    <3>1. 64 * class + 31 \in Int /\ body \in Seq(Int)
      BY <2>7, BytesAreNumbers
    <3>2. Marked(<<64 * class + 31>> \o body, c) = <<(64 * class + 31) + bit>> \o body
      BY <3>1, FirstMarked
    <3>3. QED
      BY <2>4, <3>2
  <2>. HIDE DEF x, s, tag, bit
  <2>16. <<x>> \o t # <<>> /\ (<<x>> \o t)[1] = x /\ Tail(<<x>> \o t) = t
    BY <2>7, <2>14, BytesAreNumbers, FirstOctet
  <2>17. FetchTag(<<x>> \o t) = LongTag(class, t)
    BY <2>14, <2>16 DEF FetchTag
  <2>18. <<x>> \in Seq(Byte) /\ Constructed(x) = c
    BY <2>14 DEF Byte, Constructed
  <2>19. s \in Seq(Byte) /\ s # <<>> /\ Len(s) = 1 + k /\ s[1] = x
    BY <2>6, <2>7, <2>15, <2>18
  <2>20. s \o rest = <<x>> \o t
    BY <2>7, <2>15, <2>18, ConcatAssociative DEF t
  <2>21. 1 + k = k + 1
    BY <2>3
  <2>22. QED
    BY <2>1, <2>13, <2>17, <2>18, <2>19, <2>20, <2>21 DEF s, tag
<1>4. QED
  BY <1>2, <1>3

(* A tag that ber_fetch_tag finds leaves room for its class in the word,    *)
(* and ber_tlv_tag_serialize has no longer way to write it.                 *)
THEOREM TagIsShortest ==
  ASSUME NEW b \in Seq(Byte), FetchTag(b).n > 0
  PROVE  IsTag(FetchTag(b).tag) /\ TagSize(FetchTag(b).tag) <= FetchTag(b).n
<1>. DEFINE x == b[1]
            t == Tail(b)
<1>1. b # <<>>
  BY DEF FetchTag
<1>2. x \in Byte /\ t \in Seq(Byte) /\ Len(t) \in Nat
  BY <1>1, OctetsTaken, BytesAreNumbers
<1>3. FetchTag(b) = IF x % 32 # 31 THEN [n |-> 1, tag |-> <<x \div 64, x % 32>>]
                    ELSE LongTag(x \div 64, t)
  BY <1>1 DEF FetchTag
<1>. HIDE DEF x, t
<1>4. x \div 64 \in 0..3 /\ (x % 32) \in 0..31
  BY <1>2 DEF Byte
<1>5. CASE x % 32 # 31
  <2>. DEFINE v == x % 32
              class == x \div 64
  <2>1. class \in 0..3 /\ v \in Nat /\ v <= 30
    <3>1. v # 31 /\ v \in 0..31 /\ class \in 0..3
      BY <1>4, <1>5
    <3>. HIDE DEF v
    <3>2. QED
      BY <3>1
  <2>2. FetchTag(b).n = 1 /\ FetchTag(b).tag = <<class, v>>
    BY <1>3, <1>5
  <2>. HIDE DEF v, class
  <2>3. ShiftRight(v, TagBits - 2) = 0
    <3>1. TagBits - 2 \in Nat /\ 8 <= TagBits - 2
      BY WidthsAssumption
    <3>2. ShiftRight(v, 8) = v \div 256
      BY <2>1, ShiftRightSmall
    <3>3. ShiftRight(v, 8) = 0
      BY <2>1, <3>2
    <3>. DEFINE m == TagBits - 2
    <3>. HIDE DEF m
    <3>4. m \in Nat /\ 8 <= m /\ v <= v
      BY <2>1, <3>1 DEF m
    <3>5. ShiftRight(v, m) = 0
      BY <2>1, <3>3, <3>4, ShiftedOut
    <3>6. QED
      BY <3>5 DEF m
  <2>4. IsTag(<<class, v>>) /\ TagSize(<<class, v>>) = 1
    BY <2>1, <2>3 DEF IsTag, TagSize
  <2>5. QED
    BY <2>2, <2>4
<1>6. CASE ~(x % 32 # 31)
  <2>. DEFINE class == x \div 64
              ends == {i \in 1..Len(t) : t[i] < 128}
              e == Min(ends)
              v == Accumulated(128, 0, Groups(t))[e]
  <2>1. FetchTag(b) = LongTag(class, t) /\ class \in 0..3
    BY <1>3, <1>4, <1>6
  <2>. HIDE DEF class
  <2>2. ends # {}
    <3>1. SUFFICES ASSUME ends = {} PROVE FALSE
      OBVIOUS
    <3>2. LongTag(class, t).n \in {-1, 0}
      BY <1>2, <3>1 DEF LongTag
    <3>3. QED
      BY <2>1, <3>2
  <2>3. /\ ends \subseteq Nat /\ \A i \in ends : i \in 1..Len(t) /\ t[i] < 128
        /\ \A i \in 1..Len(t) : t[i] < 128 => i \in ends
    OBVIOUS
  <2>. HIDE DEF ends
  <2>4. e \in ends /\ \A i \in ends : e <= i
    BY <2>2, <2>3, LeastIsLeast
  <2>. HIDE DEF e
  <2>5. e \in 1..Len(t) /\ t[e] < 128 /\ e \in Nat /\ e # 0 /\ e \in 0..Len(t)
    BY <2>3, <2>4
  <2>6. \A i \in 1..(e - 1) : ~(t[i] < 128)
    <3>1. SUFFICES ASSUME NEW i \in 1..(e - 1), t[i] < 128 PROVE FALSE
      OBVIOUS
    <3>2. i \in 1..Len(t) /\ ~(e <= i)
      BY <1>2, <2>5
    <3>3. QED
      BY <2>3, <2>4, <3>1, <3>2
  <2>7. LongTag(class, t) = IF ShiftRight(v, TagBits - 2) = 0
                            THEN [n |-> e + 1, tag |-> <<class, v>>] ELSE [n |-> -1]
    BY <1>2, <2>5, <2>6, LongTagIsExact
  <2>8. v \in Nat /\ ShiftRight(v, 7 * e) = 0
    <3>. DEFINE a == Accumulated(128, 0, Groups(t))
    <3>1. a[0] = 0 /\ a[e] \in Nat /\ \A i \in 0..e : ShiftRight(a[e], 7 * (e - i)) = a[i]
      BY <1>2, <2>5, GroupsAccumulate
    <3>. HIDE DEF a
    <3>2. 0 \in 0..e /\ 7 * (e - 0) = 7 * e
      BY <2>5
    <3>3. a[e] \in Nat /\ ShiftRight(a[e], 7 * e) = 0
      BY <3>1, <3>2
    <3>4. QED
      BY <3>3 DEF a
  <2>. HIDE DEF v
  <2>9. /\ ShiftRight(v, TagBits - 2) = 0
        /\ FetchTag(b) = [n |-> e + 1, tag |-> <<class, v>>]
    BY <2>1, <2>7
  <2>10. IsTag(<<class, v>>)
    BY <2>1, <2>8, <2>9 DEF IsTag
  <2>11. TagSize(<<class, v>>) <= e + 1
    <3>1. CASE v <= 30
      BY <2>5, <3>1 DEF TagSize
    <3>2. CASE ~(v <= 30)
      <4>. DEFINE k == Digits(v, 7, TagBits)
      <4>1. TagSize(<<class, v>>) = 1 + k
        BY <3>2 DEF TagSize
      <4>2. k \in 1..TagBits /\ \A j \in Nat \ {0} : ShiftRight(v, 7 * j) = 0 => k <= j
        BY <2>8, DigitsOfTag
      <4>. HIDE DEF k
      <4>3. k \in Nat /\ k <= e
        BY <2>5, <2>8, <4>2, WidthsAssumption
      <4>4. QED
        BY <2>5, <4>1, <4>3
    <3>3. QED
      BY <3>1, <3>2
  <2>12. QED
    BY <2>9, <2>10, <2>11
<1>7. QED
  BY <1>5, <1>6

(* What der_write_TL writes in front of contents the decoders find again:   *)
(* it is as long as was estimated, ber_fetch_tag finds the tag, the first   *)
(* octet says whether the encoding is constructed, and ber_fetch_length     *)
(* finds the length behind the tag, whatever contents follow.               *)
THEOREM HeaderIsFetched ==
  ASSUME NEW tag, IsTag(tag), NEW len \in Nat, IsLength(len), NEW c \in BOOLEAN,
         NEW rest \in Seq(Byte)
  PROVE  LET b == TLOctets(tag, len, c) \o rest
         IN /\ b \in Seq(Byte)
            /\ Len(TLOctets(tag, len, c)) = TLSize(tag, len)
            /\ FetchTag(b) = [n |-> TagSize(tag), tag |-> tag]
            /\ Constructed(b[1]) = c
            /\ FetchLength(c, DropFirst(b, TagSize(tag))) = [n |-> LengthSize(len), len |-> len]
<1>. DEFINE h == Marked(TagOctets(tag), c)
            l == LengthOctets(len)
            r == l \o rest
<1>1. /\ l \in Seq(Byte) /\ Len(l) = LengthSize(len)
      /\ FetchLength(c, r) = [n |-> LengthSize(len), len |-> len]
  BY LengthIsFetched
<1>. HIDE DEF l
<1>2. r \in Seq(Byte)
  BY <1>1, BytesJoined
<1>3. /\ h \in Seq(Byte) /\ h # <<>> /\ Len(h) = TagSize(tag) /\ Constructed(h[1]) = c
      /\ FetchTag(h \o r) = [n |-> TagSize(tag), tag |-> tag]
  <2>1. PICK class \in 0..3, v \in Nat : tag = <<class, v>>
    BY DEF IsTag
  <2>2. ShiftRight(v, TagBits - 2) = 0
    BY <2>1 DEF IsTag
  <2>. DEFINE s == Marked(TagOctets(<<class, v>>), c)
  <2>. HIDE DEF r
  <2>3. /\ s \in Seq(Byte) /\ s # <<>> /\ Len(s) = TagSize(<<class, v>>) /\ Constructed(s[1]) = c
        /\ FetchTag(s \o r) = [n |-> TagSize(<<class, v>>), tag |-> <<class, v>>]
    BY <1>2, <2>2, TagIsFetched
  <2>4. QED
    BY <2>1, <2>3
<1>4. TLOctets(tag, len, c) = h \o l
  BY DEF TLOctets, Marked, l
<1>. HIDE DEF h
<1>5. (h \o l) \o rest = h \o r
  <2>1. \A s, t \in Seq(Byte) : (s \o t) \o rest = s \o (t \o rest)
    BY ConcatAssociative
  <2>2. QED
    BY <1>1, <1>3, <2>1, Zenon
<1>6. Len(h \o l) = TLSize(tag, len)
  <2>1. h \in Seq(Int) /\ l \in Seq(Int)
    BY <1>1, <1>3, BytesAreNumbers
  <2>2. Len(h \o l) = Len(h) + Len(l)
    BY <2>1, Joined
  <2>3. QED
    BY <1>1, <1>3, <2>2 DEF TLSize
<1>. HIDE DEF r
<1>. DEFINE b == h \o r
<1>7. b \in Seq(Byte) /\ b[1] = h[1]
  BY <1>2, <1>3, BytesJoined, BytesAreNumbers, Joined
<1>8. DropFirst(b, TagSize(tag)) = r
  <2>. DEFINE d == SubSeq(b, Len(h) + 1, Len(b))
  <2>1. h \in Seq(Int) /\ r \in Seq(Int)
    BY <1>2, <1>3, BytesAreNumbers
  <2>2. d = r
    BY <2>1
  <2>3. QED
    BY <1>3, <2>2 DEF DropFirst
<1>9. QED
  BY <1>1, <1>3, <1>4, <1>5, <1>6, <1>7, <1>8

(* -- INTEGER -------------------------------------------------------------- *)
(* v as two's complement in n octets.                                       *)
Fits(v, n) == ShiftRight(v, 8 * n - 1) \in {0, -1}
Sign(octet) == IF octet >= 128 THEN -1 ELSE 0

LEMMA FitsMore ==
  ASSUME NEW v \in Int, NEW n \in Nat \ {0}, NEW m \in Nat, n <= m, Fits(v, n)
  PROVE  Fits(v, m)
<1>. DEFINE k == 8 * n - 1
<1>1. PICK d \in Nat : 8 * m - 1 = k + d
  <2>1. 8 * (m - n) \in Nat /\ 8 * m - 1 = k + 8 * (m - n)
    OBVIOUS
  <2>2. QED
    BY <2>1
<1>2. k \in Nat
  OBVIOUS
<1>3. ShiftRight(v, k) \in {0, -1}
  BY DEF Fits
<1>. HIDE DEF k
<1>4. ShiftRight(v, k + d) = ShiftRight(ShiftRight(v, k), d)
  BY <1>2, ShiftRightTwice
<1>5. \A x \in {0, -1} : ShiftRight(x, d) = x
  BY ShiftRightEnds
<1>6. QED
  BY <1>1, <1>3, <1>4, <1>5 DEF Fits

LEMMA SignedFunction ==
  ASSUME NEW b \in Seq(Byte), b # <<>>
  PROVE  LET a == Accumulated(256, Sign(b[1]), b)
             n == Len(b)
         IN /\ n \in Nat \ {0}
            /\ a \in [0..n -> Int] /\ a[0] = Sign(b[1])
            /\ \A i \in 1..n : a[i] = 256 * a[i - 1] + b[i] /\ b[i] \in 0..255
            /\ \A i \in 0..n : ShiftRight(a[n], 8 * (n - i)) = a[i]
            /\ Signed(b) = a[n]
<1>. DEFINE start == Sign(b[1])
            n == Len(b)
<1>1. b \in Seq(Int) /\ n \in Nat /\ AreDigits(b, n, 256) /\ n # 0
  BY BytesAreNumbers, EmptySeq
<1>2. \A i \in 1..n : b[i] \in 0..255
  BY <1>1 DEF AreDigits
<1>3. start \in Int
  BY DEF Sign
<1>4. Signed(b) = Accumulated(256, start, b)[n]
  BY DEF Signed, Sign
<1>. HIDE DEF start
<1>5. /\ Accumulated(256, start, b) \in [0..n -> Int]
      /\ Accumulated(256, start, b)[0] = start
      /\ \A i \in 1..n : Accumulated(256, start, b)[i] = 256 * Accumulated(256, start, b)[i - 1] + b[i]
  BY <1>1, <1>3, AccumulatedFunction
<1>6. n <= Len(b)
  BY <1>1
<1>. HIDE DEF n
<1>7. \A i \in 0..n : ShiftRight(Accumulated(256, start, b)[n], 8 * (n - i)) = Accumulated(256, start, b)[i]
  BY <1>1, <1>3, <1>6, NumberLosesOctets
<1>8. QED
  BY <1>1, <1>2, <1>4, <1>5, <1>7 DEF start, n

LEMMA SignedFits ==
  ASSUME NEW b \in Seq(Byte), b # <<>>
  PROVE  Signed(b) \in Int /\ Fits(Signed(b), Len(b))
<1>. DEFINE a == Accumulated(256, Sign(b[1]), b)
            n == Len(b)
<1>1. /\ n \in Nat \ {0}
      /\ a \in [0..n -> Int] /\ a[0] = Sign(b[1])
      /\ \A i \in 1..n : a[i] = 256 * a[i - 1] + b[i] /\ b[i] \in 0..255
      /\ \A i \in 0..n : ShiftRight(a[n], 8 * (n - i)) = a[i]
      /\ Signed(b) = a[n]
  BY SignedFunction
<1>. HIDE DEF a, n
<1>2. 1 \in 1..n /\ 1 \in 0..n /\ n \in 0..n /\ 1 - 1 = 0
  BY <1>1
<1>3. a[1] = 256 * Sign(b[1]) + b[1] /\ b[1] \in 0..255 /\ a[n] \in Int /\ a[1] \in Int
  BY <1>1, <1>2
<1>4. a[1] \div 128 \in {0, -1}
  <2>1. \A x \in Int, y \in 0..255 : x = 256 * Sign(y) + y => x \div 128 \in {0, -1}
    BY DEF Sign
  <2>2. QED
    BY <1>3, <2>1, Zenon
<1>5. ShiftRight(a[n], 8 * (n - 1)) = a[1]
  BY <1>1, <1>2
<1>6. 8 * (n - 1) \in Nat /\ 8 * (n - 1) + 7 = 8 * n - 1
  BY <1>1
<1>7. ShiftRight(a[n], 8 * (n - 1) + 7) = ShiftRight(a[n], 8 * (n - 1)) \div 128
  <2>1. \A x \in Int, k \in Nat : ShiftRight(x, k + 7) = ShiftRight(x, k) \div 128
    BY ShiftRightMore
  <2>2. QED
    BY <1>3, <1>6, <2>1
<1>8. Fits(a[n], n)
  BY <1>4, <1>5, <1>6, <1>7 DEF Fits
<1>9. QED
  BY <1>1, <1>3, <1>8 DEF n

(* The octets of a number that fits make the number.                        *)
LEMMA OctetsAreSigned ==
  ASSUME NEW v \in Int, NEW n \in Nat \ {0}, Fits(v, n)
  PROVE  Octets(v, n) \in Seq(Byte) /\ Len(Octets(v, n)) = n /\ Signed(Octets(v, n)) = v
<1>. DEFINE b == Octets(v, n)
<1>1. ASSUME NEW i \in 1..n PROVE ShiftRight(v, 8 * (n - i)) % 256 \in Byte
  <2>1. 8 * (n - i) \in Nat
    OBVIOUS
  <2>2. ShiftRight(v, 8 * (n - i)) \in Int
    BY <2>1, ShiftRightType
  <2>3. \A x \in Int : (x % 256) \in Byte
    BY DEF Byte
  <2>4. QED
    BY <2>2, <2>3
<1>2. b \in Seq(Byte) /\ Len(b) = n /\ \A i \in 1..n : b[i] = ShiftRight(v, 8 * (n - i)) % 256
  BY <1>1 DEF Octets
<1>. HIDE DEF b
<1>3. b # <<>> /\ b \in Seq(Int)
  BY <1>2, BytesAreNumbers
<1>. DEFINE x == ShiftRight(v, 8 * (n - 1))
<1>4. 8 * (n - 1) \in Nat /\ 8 * (n - 1) + 7 = 8 * n - 1 /\ 8 * (n - 1) + 8 = 8 * n
  OBVIOUS
<1>5. x \in Int /\ x \div 128 \in {0, -1} /\ ShiftRight(v, 8 * n) = x \div 256
  <2>1. ShiftRight(v, 8 * (n - 1) + 7) = x \div 128 /\ ShiftRight(v, 8 * (n - 1) + 8) = x \div 256
    BY <1>4, ShiftRightMore
  <2>2. x \in Int
    BY <1>4, ShiftRightType
  <2>3. QED
    BY <1>4, <2>1, <2>2 DEF Fits
<1>6. b[1] = x % 256
  BY <1>2
<1>. HIDE DEF x
<1>7. Sign(b[1]) = ShiftRight(v, 8 * n)
  <2>1. \A y \in Int : y \div 128 \in {0, -1} => Sign(y % 256) = y \div 256
    BY DEF Sign
  <2>2. QED
    BY <1>5, <1>6, <2>1
<1>8. AreDigitsOf(b, v, n, 8, 256)
  BY <1>2 DEF AreDigitsOf
<1>9. \A i \in 0..n : Accumulated(256, ShiftRight(v, 8 * n), b)[i] = ShiftRight(v, 8 * (n - i))
  BY <1>2, <1>3, <1>8, OctetsMakeNumber, SMTT(30)
<1>10. n \in 0..n /\ 8 * (n - n) = 0
  OBVIOUS
<1>11. Signed(b) = Accumulated(256, Sign(b[1]), b)[n]
  BY <1>2, <1>3 DEF Signed, Sign
<1>12. Signed(b) = v
  BY <1>7, <1>9, <1>10, <1>11, ShiftRightZero
<1>13. QED
  BY <1>2, <1>12 DEF b

(* -- leading octets that only repeat the sign ----------------------------- *)
LEMMA GreatestIsGreatest ==
  ASSUME NEW S, S \subseteq Nat, S # {}, NEW n \in Nat, \A i \in S : i <= n
  PROVE  Max(S) \in S /\ \A i \in S : i <= Max(S)
<1>. DEFINE T == {n - i : i \in S}
<1>0. \A i \in S : n - i \in Nat
  OBVIOUS
<1>1. T \subseteq Nat /\ T # {}
  BY <1>0, Zenon
<1>2. PICK t \in T : \A u \in T : t <= u
  <2>. HIDE DEF T
  <2>1. QED
    BY <1>1, LeastNatural
<1>3. PICK m \in S : t = n - m
  OBVIOUS
<1>4. ASSUME NEW i \in S PROVE m >= i
  <2>1. n - i \in T
    OBVIOUS
  <2>2. n - m <= n - i
    BY <1>2, <1>3, <2>1
  <2>3. m \in Nat /\ i \in Nat
    OBVIOUS
  <2>4. QED
    BY <2>2, <2>3
<1>5. Max(S) \in S /\ \A i \in S : Max(S) >= i
  BY <1>3, <1>4, Zenon DEF Max
<1>6. QED
  BY <1>5

Repeats(b, i) == \/ b[i] = 0 /\ b[i + 1] < 128
                 \/ b[i] = 255 /\ b[i + 1] >= 128

LEMMA SuperfluousRepeat ==
  ASSUME NEW b \in Seq(Byte), b # <<>>
  PROVE  /\ Superfluous(b) \in 0..(Len(b) - 1)
         /\ \A i \in 1..Superfluous(b) : Repeats(b, i)
         /\ Superfluous(b) + 1 <= Len(b) - 1 => ~Repeats(b, Superfluous(b) + 1)
<1>. DEFINE n == Len(b)
            S == {k \in 0..(n - 1) : \A i \in 1..k : Repeats(b, i)} \cup {0}
            s == Max(S)
<1>1. n \in Nat /\ n # 0
  BY BytesAreNumbers, EmptySeq
<1>2. Superfluous(b) = s
  BY DEF Superfluous, Repeats
<1>. HIDE DEF n
<1>3. /\ S \subseteq Nat /\ S # {}
      /\ \A k \in S : k \in 0..(n - 1) /\ k <= n /\ \A i \in 1..k : Repeats(b, i)
      /\ \A k \in 0..(n - 1) : (\A i \in 1..k : Repeats(b, i)) => k \in S
  BY <1>1
<1>. HIDE DEF S
<1>4. s \in S /\ \A i \in S : i <= s
  BY <1>1, <1>3, GreatestIsGreatest
<1>. HIDE DEF s
<1>5. s \in 0..(n - 1) /\ \A i \in 1..s : Repeats(b, i)
  BY <1>3, <1>4
<1>6. ASSUME s + 1 <= n - 1, Repeats(b, s + 1) PROVE FALSE
  <2>1. \A i \in 1..(s + 1) : i \in 1..s \/ i = s + 1
    BY <1>5
  <2>2. \A i \in 1..(s + 1) : Repeats(b, i)
    BY <1>5, <1>6, <2>1
  <2>3. s + 1 \in 0..(n - 1)
    BY <1>1, <1>5, <1>6
  <2>4. s + 1 <= s
    BY <1>3, <1>4, <2>2, <2>3
  <2>5. QED
    BY <1>5, <2>4
<1>7. QED
  BY <1>2, <1>5, <1>6 DEF n

LEMMA CanonicalOctets ==
  ASSUME NEW b \in Seq(Byte), b # <<>>
  PROVE  /\ Canonical(b) \in Seq(Byte) /\ Canonical(b) # <<>>
         /\ Len(Canonical(b)) = Len(b) - Superfluous(b)
         /\ \A i \in 1..(Len(b) - Superfluous(b)) : Canonical(b)[i] = b[Superfluous(b) + i]
         /\ Superfluous(Canonical(b)) = 0
<1>. DEFINE n == Len(b)
            s == Superfluous(b)
            c == Canonical(b)
<1>1. n \in Nat /\ n # 0 /\ \A i \in 1..n : b[i] \in Byte
  BY BytesAreNumbers, EmptySeq, ElementOfSeq
<1>2. /\ s \in 0..(n - 1) /\ \A i \in 1..s : Repeats(b, i)
      /\ s + 1 <= n - 1 => ~Repeats(b, s + 1)
  BY SuperfluousRepeat
<1>3. c = SubSeq(b, s + 1, n)
  BY DEF Canonical
<1>. HIDE DEF s, c
<1>4. /\ c \in Seq(Byte) /\ Len(c) = n - s
      /\ \A i \in 1..(n - s) : c[i] = b[s + i]
  BY <1>1, <1>2, <1>3
<1>5. c # <<>>
  BY <1>1, <1>2, <1>4, EmptySeq
<1>6. Superfluous(c) = 0
  <2>. DEFINE k == Superfluous(c)
  <2>1. k \in 0..(Len(c) - 1) /\ \A i \in 1..k : Repeats(c, i)
    BY <1>4, <1>5, SuperfluousRepeat
  <2>. HIDE DEF k
  <2>2. SUFFICES ASSUME k # 0 PROVE FALSE
    BY DEF k
  <2>. HIDE DEF n
  <2>3. 1 \in 1..k /\ 1 \in 1..(n - s) /\ 2 \in 1..(n - s) /\ s + 1 <= n - 1 /\ 1 + 1 = 2
        /\ (s + 1) + 1 = s + 2
    BY <1>1, <1>2, <1>4, <2>1, <2>2
  <2>4. c[1] = b[s + 1] /\ c[2] = b[s + 2]
    BY <1>4, <2>3
  <2>5. Repeats(c, 1)
    BY <2>1, <2>3
  <2>6. Repeats(b, s + 1)
    BY <2>3, <2>4, <2>5 DEF Repeats
  <2>7. QED
    BY <1>2, <2>3, <2>6
<1>7. QED
  BY <1>4, <1>5, <1>6 DEF c, s

(* Dropping them changes the octets and not the number.                     *)
LEMMA CanonicalIsSame ==
  ASSUME NEW b \in Seq(Byte), b # <<>>
  PROVE  Signed(Canonical(b)) = Signed(b)
<1>. DEFINE n == Len(b)
            s == Superfluous(b)
            c == Canonical(b)
            a == Accumulated(256, Sign(b[1]), b)
            d == Accumulated(256, Sign(c[1]), c)
<1>1. /\ c \in Seq(Byte) /\ c # <<>> /\ Len(c) = n - s
      /\ \A i \in 1..(n - s) : c[i] = b[s + i]
  BY CanonicalOctets
<1>2. s \in 0..(n - 1) /\ \A i \in 1..s : Repeats(b, i)
  BY SuperfluousRepeat
<1>3. /\ n \in Nat \ {0} /\ a[0] = Sign(b[1]) /\ Signed(b) = a[n]
      /\ \A i \in 1..n : a[i] = 256 * a[i - 1] + b[i] /\ b[i] \in 0..255
  BY SignedFunction
<1>. HIDE DEF c
<1>4. /\ d[0] = Sign(c[1]) /\ Signed(c) = d[n - s]
      /\ \A i \in 1..(n - s) : d[i] = 256 * d[i - 1] + c[i]
  <2>1. /\ d[0] = Sign(c[1]) /\ Signed(c) = d[Len(c)]
        /\ \A i \in 1..Len(c) : d[i] = 256 * d[i - 1] + c[i]
    <3>1. \A e \in Seq(Byte) : e # <<>> =>
            /\ Accumulated(256, Sign(e[1]), e)[0] = Sign(e[1])
            /\ Signed(e) = Accumulated(256, Sign(e[1]), e)[Len(e)]
            /\ \A i \in 1..Len(e) : Accumulated(256, Sign(e[1]), e)[i]
                                       = 256 * Accumulated(256, Sign(e[1]), e)[i - 1] + e[i]
      BY SignedFunction
    <3>2. QED
      BY <1>1, <3>1, SMTT(30)
  <2>. HIDE DEF d, s, n
  <2>2. QED
    BY <1>1, <2>1
<1>. HIDE DEF a, d, s, n
<1>5. a[s] = Sign(b[s + 1])
  <2>. DEFINE T == {i \in Nat : i <= s => a[i] = Sign(b[i + 1])}
  <2>1. 0 \in T
    BY <1>3, 0 + 1 = 1
  <2>2. ASSUME NEW i \in Nat, i \in T PROVE i + 1 \in T
    <3>. SUFFICES ASSUME NEW j \in 1..s, j = i + 1 PROVE a[j] = Sign(b[j + 1])
      OBVIOUS
    <3>1. j \in 1..n /\ j - 1 = i /\ i <= s
      BY <1>2, <1>3
    <3>2. a[j] = 256 * Sign(b[j]) + b[j]
      BY <1>3, <2>2, <3>1
    <3>3. Repeats(b, j)
      BY <1>2
    <3>4. CASE b[j] = 0 /\ b[j + 1] < 128
      <4>1. Sign(b[j]) = 0
        BY <3>4 DEF Sign
      <4>2. j + 1 \in 1..n
        BY <1>2, <1>3, <3>1
      <4>3. b[j + 1] \in 0..255
        BY <1>3, <4>2
      <4>4. Sign(b[j + 1]) = 0
        <5>1. \A y \in 0..255 : y < 128 => Sign(y) = 0
          BY DEF Sign
        <5>2. QED
          BY <3>4, <4>3, <5>1, Zenon
      <4>5. QED
        BY <3>2, <3>4, <4>1, <4>4
    <3>5. CASE b[j] = 255 /\ b[j + 1] >= 128
      <4>1. Sign(b[j]) = -1
        BY <3>5 DEF Sign
      <4>2. Sign(b[j + 1]) = -1
        BY <3>5 DEF Sign
      <4>3. QED
        BY <3>2, <3>5, <4>1, <4>2
    <3>6. QED
      BY <3>3, <3>4, <3>5 DEF Repeats
  <2>. HIDE DEF T
  <2>3. s \in T
    <3>1. Nat \subseteq T
      BY <2>1, <2>2, Induction
    <3>2. QED
      BY <1>2, <3>1
  <2>4. QED
    BY <1>2, <2>3 DEF T
<1>6. d[0] = a[s]
  <2>1. 1 \in 1..(n - s)
    BY <1>2, <1>3
  <2>2. c[1] = b[s + 1]
    BY <1>1, <2>1
  <2>3. QED
    BY <1>4, <1>5, <2>2
<1>7. d[n - s] = a[n]
  <2>. DEFINE T == {i \in Nat : i <= n - s => d[i] = a[s + i]}
  <2>1. 0 \in T
    BY <1>2, <1>6
  <2>2. ASSUME NEW i \in Nat, i \in T PROVE i + 1 \in T
    <3>. SUFFICES ASSUME NEW j \in 1..(n - s), j = i + 1 PROVE d[j] = a[s + j]
      OBVIOUS
    <3>1. j - 1 = i /\ i <= n - s /\ s + j \in 1..n /\ (s + j) - 1 = s + i
      BY <1>2, <1>3
    <3>2. d[j] = 256 * d[i] + c[j] /\ c[j] = b[s + j]
      BY <1>1, <1>4, <3>1
    <3>3. a[s + j] = 256 * a[s + i] + b[s + j]
      BY <1>3, <3>1
    <3>4. QED
      BY <2>2, <3>1, <3>2, <3>3
  <2>. HIDE DEF T
  <2>3. Nat \subseteq T
    BY <2>1, <2>2, Induction
  <2>4. n - s \in Nat /\ s + (n - s) = n
    BY <1>2, <1>3
  <2>5. n - s \in T
    BY <2>3, <2>4
  <2>6. QED
    BY <2>4, <2>5 DEF T
<1>8. QED
  BY <1>3, <1>4, <1>7 DEF c

(* A number has no shorter octets than those without superfluous ones.      *)
LEMMA CanonicalIsShortest ==
  ASSUME NEW c \in Seq(Byte), c # <<>>, Superfluous(c) = 0, NEW m \in Nat \ {0}, Fits(Signed(c), m)
  PROVE  Len(c) <= m
<1>. SUFFICES ASSUME ~(Len(c) <= m) PROVE FALSE
  OBVIOUS
<1>. DEFINE a == Accumulated(256, Sign(c[1]), c)
            n == Len(c)
<1>1. /\ n \in Nat \ {0}
      /\ a \in [0..n -> Int] /\ a[0] = Sign(c[1])
      /\ \A i \in 1..n : a[i] = 256 * a[i - 1] + c[i] /\ c[i] \in 0..255
      /\ \A i \in 0..n : ShiftRight(a[n], 8 * (n - i)) = a[i]
      /\ Signed(c) = a[n]
  BY SignedFunction
<1>2. 1 <= n - 1 => ~Repeats(c, 1)
  BY SuperfluousRepeat, 0 + 1 = 1
<1>. HIDE DEF a, n
<1>3. /\ n - 1 \in Nat /\ m <= n - 1 /\ 1 <= n - 1
      /\ 1 \in 1..n /\ 2 \in 1..n /\ 2 \in 0..n /\ n \in 0..n /\ 1 - 1 = 0 /\ 2 - 1 = 1
  BY <1>1 DEF n
<1>4. a[n] \in Int /\ a[2] \in Int
  BY <1>1, <1>3
<1>5. Fits(a[n], n - 1)
  <2>1. \A v \in Int : Fits(v, m) => Fits(v, n - 1)
    BY <1>3, FitsMore
  <2>2. QED
    BY <1>1, <1>4, <2>1
<1>6. a[2] \div 128 \in {0, -1}
  <2>1. 8 * (n - 2) \in Nat /\ 8 * (n - 2) + 7 = 8 * (n - 1) - 1
    BY <1>3
  <2>2. \A v \in Int, k \in Nat : ShiftRight(v, k + 7) = ShiftRight(v, k) \div 128
    BY ShiftRightMore
  <2>3. ShiftRight(a[n], 8 * (n - 2) + 7) = ShiftRight(a[n], 8 * (n - 2)) \div 128
    BY <1>4, <2>1, <2>2
  <2>4. ShiftRight(a[n], 8 * (n - 2)) = a[2]
    BY <1>1, <1>3
  <2>5. QED
    BY <1>5, <2>1, <2>3, <2>4 DEF Fits
<1>7. /\ a[2] = 256 * (256 * Sign(c[1]) + c[1]) + c[2]
      /\ c[1] \in 0..255 /\ c[2] \in 0..255
  <2>1. a[1] = 256 * a[0] + c[1] /\ a[2] = 256 * a[1] + c[2]
    BY <1>1, <1>3
  <2>2. QED
    BY <1>1, <1>3, <2>1
<1>8. (c[1] = 0 /\ c[2] < 128) \/ (c[1] = 255 /\ c[2] >= 128)
  <2>1. PICK x \in 0..255, y \in 0..255 : x = c[1] /\ y = c[2]
    <3>1. c[1] \in 0..255 /\ c[2] \in 0..255
      BY <1>7
    <3>2. QED
      BY <3>1, Zenon
  <2>2. (256 * (256 * Sign(x) + x) + y) \div 128 \in {0, -1}
    BY <1>6, <1>7, <2>1
  <2>3. (x = 0 /\ y < 128) \/ (x = 255 /\ y >= 128)
    BY <2>2 DEF Sign
  <2>4. QED
    BY <2>1, <2>3
<1>9. QED
  BY <1>2, <1>3, <1>8, 1 + 1 = 2 DEF Repeats

(* asn_INTEGER2long gives the number of any octets if it fits in a long and *)
(* fails if not, however many superfluous octets they begin with.           *)
THEOREM IntegerIsRead ==
  ASSUME NEW b \in Seq(Byte)
  PROVE  asn_INTEGER2long(b) = IF Fits(Signed(b), LongOctets) THEN Signed(b) ELSE Failed
<1>. DEFINE s == IF Len(b) > LongOctets THEN Canonical(b) ELSE b
<1>0. LongOctets \in Nat \ {0}
  BY PrimAssumption
<1>1. asn_INTEGER2long(b) = IF Len(s) > LongOctets THEN Failed ELSE Signed(s)
  BY DEF asn_INTEGER2long
<1>2. CASE b = <<>>
  <2>1. Len(b) = 0 /\ Signed(b) = 0
    BY <1>2 DEF Signed
  <2>2. s = b /\ Len(s) = 0
    BY <1>0, <2>1
  <2>3. 8 * LongOctets - 1 \in Nat
    BY <1>0
  <2>. DEFINE k == 8 * LongOctets - 1
  <2>. HIDE DEF k, s
  <2>4. ShiftRight(0, k) = 0
    BY <2>3, ShiftRightEnds DEF k
  <2>5. Fits(0, LongOctets)
    BY <2>4 DEF Fits, k
  <2>6. QED
    BY <1>0, <1>1, <2>1, <2>2, <2>5
<1>3. CASE b # <<>>
  <2>1. /\ s \in Seq(Byte) /\ s # <<>> /\ Signed(s) = Signed(b) /\ Len(s) \in Nat
        /\ Len(b) > LongOctets => Superfluous(s) = 0
        /\ ~(Len(b) > LongOctets) => s = b
    <3>1. CASE Len(b) > LongOctets
      <4>1. s = Canonical(b)
        BY <3>1
      <4>. HIDE DEF s
      <4>2. s \in Seq(Byte) /\ s # <<>> /\ Signed(s) = Signed(b) /\ Superfluous(s) = 0
        BY <1>3, <4>1, CanonicalOctets, CanonicalIsSame
      <4>3. QED
        BY <3>1, <4>2, BytesAreNumbers
    <3>2. CASE ~(Len(b) > LongOctets)
      <4>1. s = b
        BY <3>2
      <4>. HIDE DEF s
      <4>2. QED
        BY <1>3, <3>2, <4>1, BytesAreNumbers
    <3>3. QED
      BY <3>1, <3>2
  <2>. HIDE DEF s
  <2>2. CASE Len(s) > LongOctets
    <3>1. Superfluous(s) = 0
      BY <2>1, <2>2
    <3>2. ASSUME Fits(Signed(s), LongOctets) PROVE FALSE
      <4>1. Len(s) <= LongOctets
        BY <1>0, <2>1, <3>1, <3>2, CanonicalIsShortest
      <4>2. QED
        BY <1>0, <2>1, <2>2, <4>1
    <3>3. QED
      BY <1>1, <2>1, <2>2, <3>2
  <2>3. CASE ~(Len(s) > LongOctets)
    <3>1. Signed(s) \in Int /\ Fits(Signed(s), Len(s))
      BY <2>1, SignedFits
    <3>2. Len(s) \in Nat \ {0} /\ LongOctets \in Nat /\ Len(s) <= LongOctets
      BY <1>0, <2>1, <2>3, EmptySeq
    <3>3. \A v \in Int, n \in Nat \ {0}, m \in Nat : n <= m /\ Fits(v, n) => Fits(v, m)
      BY FitsMore
    <3>4. Fits(Signed(s), LongOctets)
      BY <3>1, <3>2, <3>3, Zenon
    <3>5. QED
      BY <1>1, <2>1, <2>3, <3>4
  <2>4. QED
    BY <2>2, <2>3
<1>4. QED
  BY <1>2, <1>3

(* asn_long2INTEGER writes a long in octets that asn_INTEGER2long reads as  *)
(* the same number, and no octets of that number are fewer.                 *)
THEOREM IntegerArrives ==
  ASSUME NEW v \in Int, Fits(v, LongOctets)
  PROVE  /\ asn_long2INTEGER(v) \in Seq(Byte) /\ asn_long2INTEGER(v) # <<>>
         /\ asn_INTEGER2long(asn_long2INTEGER(v)) = v
         /\ \A b \in Seq(Byte) : b # <<>> /\ Signed(b) = v => Len(asn_long2INTEGER(v)) <= Len(b)
<1>. DEFINE o == Octets(v, LongOctets)
            c == asn_long2INTEGER(v)
<1>0. LongOctets \in Nat \ {0}
  BY PrimAssumption
<1>1. o \in Seq(Byte) /\ Len(o) = LongOctets /\ Signed(o) = v
  BY <1>0, OctetsAreSigned
<1>2. c = Canonical(o)
  BY DEF asn_long2INTEGER
<1>. HIDE DEF o, c
<1>3. o # <<>>
  BY <1>0, <1>1, EmptySeq
<1>4. c \in Seq(Byte) /\ c # <<>> /\ Superfluous(c) = 0 /\ Signed(c) = v
  BY <1>1, <1>2, <1>3, CanonicalOctets, CanonicalIsSame
<1>5. asn_INTEGER2long(c) = v
  BY <1>4, IntegerIsRead
<1>6. ASSUME NEW b \in Seq(Byte), b # <<>>, Signed(b) = v PROVE Len(c) <= Len(b)
  <2>1. Fits(Signed(b), Len(b)) /\ Len(b) \in Nat \ {0}
    BY <1>6, SignedFits, EmptySeq
  <2>2. \A m \in Nat \ {0} : Fits(Signed(c), m) => Len(c) <= m
    BY <1>4, CanonicalIsShortest
  <2>3. QED
    BY <1>4, <1>6, <2>1, <2>2
<1>7. QED
  BY <1>4, <1>5, <1>6 DEF c

(* -- arcs ----------------------------------------------------------------- *)
(* The arcs an application of this size can pass.                           *)
IsArc(v) == v \in Nat /\ ShiftRight(v, 8 * ArcOctets) = 0

(* The number of groups set_single_arc writes.                              *)
ArcGroups(v) ==
  LET m == Significant(v)
      bits == (8 * m) % 7
      first == IF bits # 0 /\ ShiftRight(v, 8 * m - bits) # 0 THEN 1 ELSE 0
  IN first + ((8 * m) \div 7)

LEMMA ArcOctetsCounted ==
  ASSUME NEW v \in Nat, IsArc(v)
  PROVE  LET m == Significant(v)
         IN /\ m \in 1..ArcOctets /\ ShiftRight(v, 8 * m) = 0
            /\ m # 1 => ShiftRight(v, 8 * (m - 1)) # 0
<1>. DEFINE S == {k \in 1..(ArcOctets + 1) : ShiftRight(v, 8 * k) = 0}
            m == Min(S)
<1>1. ArcOctets \in Nat \ {0}
  BY PrimAssumption
<1>2. ArcOctets \in S
  BY <1>1 DEF IsArc
<1>3. S \subseteq Nat /\ S # {} /\ \A k \in S : k \in 1..(ArcOctets + 1) /\ ShiftRight(v, 8 * k) = 0
  BY <1>2
<1>4. \A k \in 1..(ArcOctets + 1) : ShiftRight(v, 8 * k) = 0 => k \in S
  OBVIOUS
<1>5. m = Significant(v)
  BY DEF Significant
<1>. HIDE DEF S
<1>6. m \in S /\ \A k \in S : m <= k
  BY <1>3, LeastIsLeast
<1>. HIDE DEF m
<1>7. m \in 1..ArcOctets /\ ShiftRight(v, 8 * m) = 0
  BY <1>1, <1>2, <1>3, <1>6
<1>8. ASSUME m # 1, ShiftRight(v, 8 * (m - 1)) = 0 PROVE FALSE
  <2>1. m - 1 \in 1..(ArcOctets + 1) /\ ~(m <= m - 1)
    BY <1>1, <1>7, <1>8
  <2>2. QED
    BY <1>4, <1>6, <1>8, <2>1
<1>9. QED
  BY <1>5, <1>7, <1>8

(* The groups hold the arc, in no more bits than the octets of the arc and  *)
(* six. The first is an empty one only where the significant octets fill    *)
(* all the groups: the bits that are no full group are tested, a full group *)
(* is not.                                                                  *)
LEMMA ArcSize ==
  ASSUME NEW v \in Nat, IsArc(v)
  PROVE  LET n == ArcGroups(v)
             m == Significant(v)
         IN /\ n \in Nat \ {0} /\ ShiftRight(v, 7 * n) = 0
            /\ 7 * n <= 8 * ArcOctets + 6
            /\ n # 1 /\ ShiftRight(v, 7 * (n - 1)) = 0 => m % 7 = 0
            /\ m % 7 = 0 => n # 1 /\ 7 * (n - 1) = 8 * m - 7
<1>. DEFINE n == ArcGroups(v)
            m == Significant(v)
<1>1. /\ m \in Nat \ {0} /\ m <= ArcOctets /\ ArcOctets \in Nat
      /\ ShiftRight(v, 8 * m) = 0
      /\ m # 1 => ShiftRight(v, 8 * (m - 1)) # 0
  BY ArcOctetsCounted, PrimAssumption
<1>2. n = (IF (8 * m) % 7 # 0 /\ ShiftRight(v, 8 * m - ((8 * m) % 7)) # 0 THEN 1 ELSE 0)
            + ((8 * m) \div 7)
  BY DEF ArcGroups
<1>. SUFFICES /\ n \in Nat \ {0} /\ ShiftRight(v, 7 * n) = 0
              /\ 7 * n <= 8 * ArcOctets + 6
              /\ n # 1 /\ ShiftRight(v, 7 * (n - 1)) = 0 => m % 7 = 0
              /\ m % 7 = 0 => n # 1 /\ 7 * (n - 1) = 8 * m - 7
  BY DEF n, m
<1>. HIDE DEF n, m
<1>3. PICK q \in Nat, r \in 0..6 :
        8 * m = 7 * q + r /\ (8 * m) \div 7 = q /\ (8 * m) % 7 = r
  <2>1. (8 * m) \div 7 \in Nat /\ (8 * m) % 7 \in 0..6
        /\ 8 * m = 7 * ((8 * m) \div 7) + ((8 * m) % 7)
    BY <1>1
  <2>2. QED
    BY <2>1
<1>4. m % 7 = r
  BY <1>1, <1>3
<1>. DEFINE short == r # 0 /\ ShiftRight(v, 7 * q) # 0
<1>5. n = q + IF short THEN 1 ELSE 0
  <2>1. 8 * m - r = 7 * q
    BY <1>1, <1>3
  <2>2. QED
    BY <1>2, <1>3, <2>1
<1>6. q # 0
  BY <1>1, <1>3
<1>7. CASE short
  <2>1. n = q + 1 /\ n - 1 = q /\ r # 0 /\ ShiftRight(v, 7 * q) # 0
    BY <1>3, <1>5, <1>7
  <2>. DEFINE j == 8 * m
              k == 7 * n
  <2>2. j \in Nat /\ k \in Nat /\ j <= k /\ k <= 8 * ArcOctets + 6
    BY <1>1, <1>3, <2>1
  <2>3. ShiftRight(v, j) = 0 /\ v <= v
    BY <1>1
  <2>. HIDE DEF j, k
  <2>4. ShiftRight(v, k) = 0
    BY <2>2, <2>3, ShiftedOut
  <2>5. QED
    BY <1>3, <1>4, <2>1, <2>2, <2>4 DEF k
<1>8. CASE ~short
  <2>1. n = q
    BY <1>3, <1>5, <1>8
  <2>2. ShiftRight(v, 7 * n) = 0
    <3>1. CASE r = 0
      BY <1>1, <1>3, <2>1, <3>1
    <3>2. CASE r # 0
      BY <1>8, <2>1, <3>2
    <3>3. QED
      BY <3>1, <3>2
  <2>3. 7 * n <= 8 * ArcOctets + 6
    BY <1>1, <1>3, <2>1
  <2>4. ASSUME n # 1, r # 0 PROVE ShiftRight(v, 7 * (n - 1)) # 0
    <3>. DEFINE j == 7 * (n - 1)
                k == 8 * (m - 1)
    <3>1. m # 1
      BY <1>3, <2>1, <2>4
    <3>2. j \in Nat /\ k \in Nat /\ j <= k /\ v <= v
      BY <1>1, <1>3, <1>6, <2>1, <2>4
    <3>3. ShiftRight(v, k) # 0
      BY <1>1, <3>1
    <3>. HIDE DEF j, k
    <3>4. ShiftRight(v, j) # 0
      BY <3>2, <3>3, ShiftedOut
    <3>5. QED
      BY <3>4 DEF j
  <2>5. r = 0 => n # 1 /\ 7 * (n - 1) = 8 * m - 7
    BY <1>1, <1>3, <2>1
  <2>6. QED
    BY <1>3, <1>4, <1>6, <2>1, <2>2, <2>3, <2>4, <2>5
<1>9. QED
  BY <1>7, <1>8

(* What get_single_arc returns is the number its octets make, and fits.     *)
LEMMA ArcOfGroups ==
  ASSUME NEW b \in Seq(Byte), b # <<>>, NEW add \in Int
  PROVE  LET val == Accumulated(128, 0, Groups(b))
             n == Len(b)
             extra == 7 * n - 8 * ArcOctets
         IN /\ n \in Nat \ {0}
            /\ val[n] \in Nat /\ ShiftRight(val[n], 7 * n) = 0
            /\ ShiftRight(val[n], 7 * (n - 1)) = b[1] % 128
            /\ get_single_arc(b, add) =
                 IF \/ extra > 8
                    \/ extra > 0 /\ ShiftRight(b[1] % 128, 7 - extra) # 0
                    \/ val[n] + add < 0
                 THEN Failed ELSE val[n] + add
<1>. DEFINE g == Groups(b)
            val == Accumulated(128, 0, g)
            n == Len(b)
<1>1. n \in Nat \ {0} /\ DOMAIN b = 1..n
  BY BytesAreNumbers, EmptySeq
<1>2. [i \in DOMAIN b |-> b[i] % 128] = g
  BY <1>1 DEF Groups
<1>3. /\ g \in Seq(Int) /\ Len(g) = n
      /\ \A i \in 1..n : g[i] = b[i] % 128 /\ b[i] \in 0..255
  BY GroupsAreDigits
<1>4. n \in 0..Len(b)
  BY <1>1
<1>5. /\ val[0] = 0 /\ val[n] \in Nat
      /\ \A i \in 0..n : ShiftRight(val[n], 7 * (n - i)) = val[i]
  <2>1. \A e \in 0..Len(b) :
           /\ Accumulated(128, 0, Groups(b))[0] = 0
           /\ Accumulated(128, 0, Groups(b))[e] \in Nat
           /\ \A i \in 0..e : ShiftRight(Accumulated(128, 0, Groups(b))[e], 7 * (e - i))
                                = Accumulated(128, 0, Groups(b))[i]
    BY GroupsAccumulate
  <2>2. QED
    BY <1>4, <2>1
<1>6. get_single_arc(b, add) =
        LET extra == 7 * n - 8 * ArcOctets
            v == Number(128, g) + add
        IN IF extra > 8 \/ (extra > 0 /\ ShiftRight(b[1] % 128, 7 - extra) # 0) \/ v < 0
           THEN Failed ELSE v
  BY <1>2 DEF get_single_arc
<1>. HIDE DEF g
<1>7. Number(128, g) = val[n]
  BY <1>3 DEF Number
<1>8. val[1] = b[1] % 128
  <2>1. \A i \in 1..Len(g) : val[i] = 128 * val[i - 1] + g[i]
    BY <1>3, AccumulatedFunction
  <2>. HIDE DEF val, n
  <2>2. 1 \in 1..n /\ 1 - 1 = 0
    BY <1>1
  <2>3. val[1] = 128 * val[0] + g[1] /\ g[1] = b[1] % 128 /\ b[1] \in 0..255
    BY <1>3, <2>1, <2>2
  <2>4. PICK y \in 0..127 : b[1] % 128 = y
    <3>1. \A z \in 0..255 : (z % 128) \in 0..127
      OBVIOUS
    <3>2. (b[1] % 128) \in 0..127
      BY <2>3, <3>1, Zenon
    <3>3. QED
      BY <3>2, Zenon
  <2>5. 128 * 0 + y = y
    OBVIOUS
  <2>6. QED
    BY <1>5, <2>3, <2>4, <2>5, Zenon
<1>. HIDE DEF val, n
<1>9. ShiftRight(val[n], 7 * n) = 0 /\ ShiftRight(val[n], 7 * (n - 1)) = val[1]
  <2>1. 0 \in 0..n /\ 1 \in 0..n /\ 7 * (n - 0) = 7 * n
    BY <1>1
  <2>2. QED
    BY <1>5, <2>1
<1>10. QED
  BY <1>1, <1>5, <1>6, <1>7, <1>8, <1>9 DEF val, n, g

(* An arc is written in groups of seven bits of which only the last octet   *)
(* lacks the high bit, so that arcs can follow one another, and             *)
(* get_single_arc reads them as the same arc, with any offset that leaves   *)
(* it a number (the first two arcs are one). The first group is an empty    *)
(* one, which X.690 8.19.2 does not allow, exactly when the significant     *)
(* octets of the arc are seven or fourteen and the seven highest of their   *)
(* bits are zero: set_single_arc tests only the bits that are no full group *)
(* (OBJECT_IDENTIFIER.c:465).                                               *)
THEOREM ArcArrives ==
  ASSUME NEW v \in Nat, IsArc(v)
  PROVE  LET b == set_single_arc(v)
             m == Significant(v)
         IN /\ b \in Seq(Byte) /\ b # <<>>
            /\ \A i \in 1..Len(b) : b[i] < 128 <=> i = Len(b)
            /\ \A add \in Int : v + add >= 0 => get_single_arc(b, add) = v + add
            /\ b[1] = 128 <=> m % 7 = 0 /\ ShiftRight(v, 8 * m - 7) = 0
<1>. DEFINE n == ArcGroups(v)
            m == Significant(v)
            group(i) == ShiftRight(v, 7 * (n - i)) % 128
            b == set_single_arc(v)
<1>0. PICK bits \in Nat : bits = 8 * ArcOctets
  BY PrimAssumption
<1>1. /\ n \in Nat \ {0} /\ ShiftRight(v, 7 * n) = 0
      /\ 7 * n <= bits + 6
      /\ n # 1 /\ ShiftRight(v, 7 * (n - 1)) = 0 => m % 7 = 0
      /\ m % 7 = 0 => n # 1 /\ 7 * (n - 1) = 8 * m - 7
  BY <1>0, ArcSize
<1>2. b = [i \in 1..n |-> group(i) + IF i < n THEN 128 ELSE 0]
  BY DEF set_single_arc, ArcGroups
<1>. HIDE DEF n, b, m
<1>3. ASSUME NEW i \in 1..n PROVE group(i) \in 0..127
  <2>1. 7 * (n - i) \in Nat
    BY <1>1
  <2>2. ShiftRight(v, 7 * (n - i)) \in Int
    BY <2>1, ShiftRightType
  <2>3. \A y \in Int : (y % 128) \in 0..127
    OBVIOUS
  <2>4. QED
    BY <2>2, <2>3
<1>. HIDE DEF group
<1>4. \A i \in 1..n : b[i] = group(i) + IF i < n THEN 128 ELSE 0
  BY <1>2
<1>5. ASSUME NEW i \in 1..n
      PROVE  b[i] \in 0..255 /\ b[i] % 128 = group(i) /\ (b[i] < 128 <=> i = n)
             /\ (b[i] = 128 => group(i) = 0 /\ i # n)
  <2>1. PICK y \in 0..127 : group(i) = y
    BY <1>3
  <2>2. b[i] = y + IF i < n THEN 128 ELSE 0
    BY <1>4, <2>1
  <2>3. QED
    BY <1>1, <2>1, <2>2
<1>6. b \in Seq(Byte) /\ Len(b) = n
  BY <1>1, <1>2, <1>5 DEF Byte
<1>7. b # <<>> /\ 1 \in 1..n /\ n \in 0..n /\ 7 * (n - n) = 0
  BY <1>1, <1>6, EmptySeq
<1>. DEFINE x == ShiftRight(v, 7 * (n - 1))
<1>8. x \in 0..127 /\ x = group(1)
  <2>1. 7 * (n - 1) \in Nat /\ 7 * (n - 1) + 7 = 7 * n
    BY <1>1
  <2>2. x \in Nat
    BY <2>1, ShiftRightNat
  <2>3. ShiftRight(v, 7 * (n - 1) + 7) = x \div 128
    BY <2>1, ShiftRightMore
  <2>4. group(1) = x % 128
    BY DEF group
  <2>. HIDE DEF x
  <2>5. x \div 128 = 0
    BY <1>1, <2>1, <2>3
  <2>6. x \in 0..127
    BY <2>2, <2>5
  <2>7. QED
    BY <2>4, <2>6
<1>9. b[1] = 128 <=> m % 7 = 0 /\ ShiftRight(v, 8 * m - 7) = 0
  <2>1. b[1] = x + IF 1 < n THEN 128 ELSE 0
    BY <1>4, <1>7, <1>8
  <2>2. b[1] = 128 <=> n # 1 /\ x = 0
    <3>. HIDE DEF x
    <3>1. QED
      BY <1>1, <1>8, <2>1
  <2>3. CASE m % 7 = 0
    BY <1>1, <2>2, <2>3
  <2>4. CASE m % 7 # 0
    BY <1>1, <2>2, <2>4
  <2>5. QED
    BY <2>3, <2>4
<1>10. Accumulated(128, 0, Groups(b))[n] = v
  <2>. DEFINE g == Groups(b)
  <2>1. g \in Seq(Int) /\ Len(g) = Len(b) /\ \A i \in 1..Len(b) : g[i] = b[i] % 128
    BY <1>6, GroupsAreDigits
  <2>. HIDE DEF g
  <2>2. AreDigitsOf(g, v, n, 7, 128)
    <3>1. \A i \in 1..n : g[i] = group(i)
      BY <1>5, <1>6, <2>1
    <3>2. QED
      BY <3>1 DEF AreDigitsOf, group
  <2>3. n <= Len(g)
    BY <1>1, <1>6, <2>1
  <2>4. \A i \in 0..n : Accumulated(128, ShiftRight(v, 7 * n), g)[i] = ShiftRight(v, 7 * (n - i))
    BY <1>1, <2>1, <2>2, <2>3, GroupsMakeNumber
  <2>5. Accumulated(128, 0, g)[n] = ShiftRight(v, 0)
    BY <1>1, <1>7, <2>4
  <2>6. QED
    BY <2>5, ShiftRightZero DEF g
<1>. DEFINE extra == 7 * n - 8 * ArcOctets
<1>11. extra \in Int /\ extra = 7 * n - bits /\ extra <= 6
  BY <1>0, <1>1
<1>12. extra > 0 => ShiftRight(b[1] % 128, 7 - extra) = 0
  <2>1. SUFFICES ASSUME extra > 0 PROVE ShiftRight(x, 7 - extra) = 0
    BY <1>5, <1>7, <1>8
  <2>. DEFINE k == 7 * (n - 1)
              d == 7 - extra
  <2>2. k \in Nat /\ d \in Nat /\ k + d = bits
    BY <1>0, <1>1, <1>11
  <2>3. ShiftRight(v, bits) = 0
    BY <1>0 DEF IsArc
  <2>. HIDE DEF k, d
  <2>4. \A p, q \in Nat : ShiftRight(ShiftRight(v, p), q) = ShiftRight(v, p + q)
    BY ShiftRightTwice
  <2>5. ShiftRight(ShiftRight(v, k), d) = 0
    BY <2>2, <2>3, <2>4
  <2>6. QED
    BY <2>5 DEF k, d
<1>. HIDE DEF extra
<1>13. ASSUME NEW add \in Int, v + add >= 0 PROVE get_single_arc(b, add) = v + add
  <2>. DEFINE w == Accumulated(128, 0, Groups(b))[n]
  <2>1. get_single_arc(b, add) =
          IF \/ extra > 8
             \/ extra > 0 /\ ShiftRight(b[1] % 128, 7 - extra) # 0
             \/ w + add < 0
          THEN Failed ELSE w + add
    <3>1. get_single_arc(b, add) =
            IF \/ 7 * Len(b) - 8 * ArcOctets > 8
               \/ 7 * Len(b) - 8 * ArcOctets > 0
                  /\ ShiftRight(b[1] % 128, 7 - (7 * Len(b) - 8 * ArcOctets)) # 0
               \/ Accumulated(128, 0, Groups(b))[Len(b)] + add < 0
            THEN Failed ELSE Accumulated(128, 0, Groups(b))[Len(b)] + add
      BY <1>6, <1>7, ArcOfGroups
    <3>2. QED
      BY <1>6, <3>1, Zenon DEF extra
  <2>2. w + add = v + add /\ ~(w + add < 0)
    BY <1>10, <1>13
  <2>3. ~(extra > 8)
    BY <1>11
  <2>. HIDE DEF w
  <2>4. QED
    BY <1>12, <2>1, <2>2, <2>3
<1>14. \A i \in 1..n : b[i] < 128 <=> i = n
  BY <1>5
<1>15. QED
  BY <1>6, <1>7, <1>9, <1>13, <1>14 DEF b, m

(* Whatever octets it is given, get_single_arc fails or returns what they   *)
(* say, a number that fits the arcs of the application (before an offset,   *)
(* the one of the first two arcs), never a part of a larger one.            *)
THEOREM ArcFits ==
  ASSUME NEW b \in Seq(Byte), b # <<>>, NEW add \in Int, get_single_arc(b, add) # Failed
  PROVE  LET v == Number(128, Groups(b))
         IN IsArc(v) /\ get_single_arc(b, add) = v + add /\ v + add >= 0
<1>. DEFINE n == Len(b)
            v == Accumulated(128, 0, Groups(b))[n]
            extra == 7 * n - 8 * ArcOctets
<1>1. /\ n \in Nat \ {0}
      /\ v \in Nat /\ ShiftRight(v, 7 * n) = 0
      /\ ShiftRight(v, 7 * (n - 1)) = b[1] % 128
      /\ get_single_arc(b, add) =
           IF \/ extra > 8
              \/ extra > 0 /\ ShiftRight(b[1] % 128, 7 - extra) # 0
              \/ v + add < 0
           THEN Failed ELSE v + add
  BY ArcOfGroups
<1>2. Number(128, Groups(b)) = v
  BY GroupsAreDigits DEF Number
<1>. HIDE DEF v, n
<1>3. extra \in Int /\ extra # 8 /\ ArcOctets \in Nat
  BY <1>1, PrimAssumption
<1>4. /\ ~(extra > 8) /\ ~(v + add < 0) /\ get_single_arc(b, add) = v + add
      /\ extra > 0 => ShiftRight(b[1] % 128, 7 - extra) = 0
  <2>. HIDE DEF extra
  <2>1. QED
    BY <1>1
<1>5. PICK bits \in Nat : bits = 8 * ArcOctets
  BY <1>3
<1>6. ShiftRight(v, bits) = 0
  <2>1. CASE extra > 0
    <3>. DEFINE k == 7 * (n - 1)
                d == 7 - extra
    <3>1. k \in Nat /\ d \in Nat /\ k + d = bits
      BY <1>1, <1>3, <1>4, <1>5, <2>1
    <3>2. ShiftRight(ShiftRight(v, k), d) = 0
      BY <1>1, <1>4, <2>1
    <3>. HIDE DEF k, d
    <3>3. \A p, q \in Nat : ShiftRight(ShiftRight(v, p), q) = ShiftRight(v, p + q)
      BY <1>1, ShiftRightTwice
    <3>4. QED
      BY <3>1, <3>2, <3>3
  <2>2. CASE ~(extra > 0)
    <3>. DEFINE k == 7 * n
    <3>1. k \in Nat /\ k <= bits /\ ShiftRight(v, k) = 0 /\ v <= v
      BY <1>1, <1>5, <2>2
    <3>. HIDE DEF k
    <3>2. QED
      BY <1>1, <3>1, ShiftedOut
  <2>3. QED
    BY <2>1, <2>2
<1>7. IsArc(v)
  BY <1>1, <1>5, <1>6 DEF IsArc
<1>8. v + add >= 0
  BY <1>1, <1>4
<1>9. QED
  BY <1>2, <1>4, <1>7, <1>8

(* -- lists of arcs -------------------------------------------------------- *)
(* Joining is associative.                                                  *)
LEMMA JoinedInOrder ==
  ASSUME NEW S, NEW q1 \in Seq(S), NEW q2 \in Seq(S), NEW q3 \in Seq(S)
  PROVE  (q1 \o q2) \o q3 = q1 \o (q2 \o q3)
BY ConcatAssociative, SMTT(30)

LEMMA FunctionIsSequence ==
  ASSUME NEW S, NEW n \in Nat, NEW f \in [1..n -> S]
  PROVE  f \in Seq(S) /\ Len(f) = n
OBVIOUS

(* What the loop over the octets makes of the next one.                     *)
Taken(at, b, i) ==
  IF b[i] >= 128 THEN at
  ELSE [startn |-> i + 1, arcs |-> Append(at.arcs, SubSeq(b, at.startn, i))]
ArcLoops == [startn : Nat \ {0}, arcs : Seq(Seq(Byte))]

LEMMA TakenType ==
  ASSUME NEW b \in Seq(Byte), NEW at \in ArcLoops, NEW i \in 1..Len(b)
  PROVE  Taken(at, b, i) \in ArcLoops
<1>1. at.startn \in Nat \ {0} /\ at.arcs \in Seq(Seq(Byte)) /\ Len(b) \in Nat
  BY DEF ArcLoops
<1>2. \A j \in 1..Len(b) : b[j] \in Byte
  BY ElementOfSeq
<1>3. SubSeq(b, at.startn, i) \in Seq(Byte)
  <2>. DEFINE m == at.startn
  <2>1. m \in Int /\ i \in Int /\ \A j \in m..i : b[j] \in Byte
    BY <1>1, <1>2
  <2>. HIDE DEF m
  <2>2. SubSeq(b, m, i) \in Seq(Byte)
    BY <2>1, SubSeqProperties
  <2>3. QED
    BY <2>2 DEF m
<1>4. Append(at.arcs, SubSeq(b, at.startn, i)) \in Seq(Seq(Byte))
  BY <1>1, <1>3, AppendProperties
<1>5. i + 1 \in Nat \ {0}
  BY <1>1
<1>6. QED
  BY <1>4, <1>5 DEF Taken, ArcLoops

LEMMA ArcLoopFunction ==
  ASSUME NEW b \in Seq(Byte)
  PROVE  /\ ArcLoop(b)[0] = [startn |-> 1, arcs |-> <<>>]
         /\ \A i \in 1..Len(b) : ArcLoop(b)[i] = Taken(ArcLoop(b)[i - 1], b, i)
         /\ \A i \in 0..Len(b) : ArcLoop(b)[i] \in ArcLoops /\ ArcLoop(b)[i].startn <= i + 1
<1>. DEFINE n == Len(b)
            start == [startn |-> 1, arcs |-> <<>>]
            h == [p \in ArcLoops \X Nat |-> IF p[2] \in 1..n THEN Taken(p[1], b, p[2]) ELSE p[1]]
<1>1. n \in Nat
  OBVIOUS
<1>2. start \in ArcLoops
  <2>1. <<>> \in Seq(Seq(Byte))
    OBVIOUS
  <2>2. QED
    BY <2>1 DEF ArcLoops
<1>3. \A x \in ArcLoops, i \in 1..n : Taken(x, b, i) \in ArcLoops
  BY TakenType
<1>. HIDE DEF start, n
<1>4. h \in [ArcLoops \X Nat -> ArcLoops]
  BY <1>3
<1>5. \A x \in ArcLoops, i \in 1..n : h[<<x, i>>] = Taken(x, b, i)
  BY <1>1
<1>. HIDE DEF h
<1>6. PICK g \in [0..n -> ArcLoops] : Follows(g, start, h, n)
  BY <1>1, <1>2, <1>4, FunctionExists
<1>7. g[0] = start /\ \A i \in 1..n : g[i] = Taken(g[i - 1], b, i)
  <2>1. ASSUME NEW i \in 1..n PROVE g[i] = Taken(g[i - 1], b, i)
    <3>1. g[i - 1] \in ArcLoops
      BY <1>1
    <3>2. QED
      BY <1>5, <1>6, <3>1 DEF Follows
  <2>2. QED
    BY <1>6, <2>1 DEF Follows
<1>8. g = [i \in 0..n |-> IF i = 0 THEN start ELSE Taken(g[i - 1], b, i)]
  BY <1>1, <1>7
<1>9. PICK f : /\ f = [i \in 0..n |-> IF i = 0 THEN start ELSE Taken(f[i - 1], b, i)]
               /\ ArcLoop(b) = f
  BY <1>8 DEF ArcLoop, Taken, start, n
<1>10. f[0] = start /\ \A i \in 1..n : f[i] = Taken(f[i - 1], b, i)
  <2>1. f[0] = start
    BY <1>1, <1>9
  <2>2. ASSUME NEW i \in 1..n PROVE f[i] = Taken(f[i - 1], b, i)
    <3>1. i \in 0..n /\ i # 0
      BY <1>1
    <3>2. QED
      BY <1>9, <3>1
  <2>3. QED
    BY <2>1, <2>2
<1>11. \A i \in 0..n : f[i] = g[i]
  <2>1. f[0] = g[0]
    BY <1>7, <1>10
  <2>2. \A i \in 1..n : f[i - 1] = g[i - 1] => f[i] = g[i]
    BY <1>7, <1>10
  <2>3. InStep(f, g, n)
    BY <2>1, <2>2 DEF InStep
  <2>4. QED
    BY <1>1, <2>3, FunctionsAgree
<1>12. \A i \in 0..n : f[i] \in ArcLoops
  BY <1>11
<1>13. \A i \in 0..n : f[i].startn <= i + 1
  <2>. DEFINE T == {i \in Nat : i <= n => f[i].startn <= i + 1}
  <2>1. 0 \in T
    BY <1>10 DEF start
  <2>2. ASSUME NEW i \in Nat, i \in T PROVE i + 1 \in T
    <3>. SUFFICES ASSUME NEW j \in 1..n, j = i + 1 PROVE f[j].startn <= j + 1
      BY <1>1
    <3>1. j - 1 = i /\ f[i].startn <= i + 1 /\ i \in 0..n
      BY <1>1, <2>2
    <3>2. f[j] = Taken(f[i], b, j)
      BY <1>10, <3>1
    <3>3. f[j].startn = f[i].startn \/ f[j].startn = j + 1
      BY <3>2 DEF Taken
    <3>4. f[i].startn \in Nat
      BY <1>12, <3>1 DEF ArcLoops
    <3>5. QED
      BY <3>1, <3>3, <3>4
  <2>. HIDE DEF T
  <2>3. Nat \subseteq T
    BY <2>1, <2>2, Induction
  <2>4. QED
    BY <1>1, <2>3 DEF T
<1>14. QED
  BY <1>9, <1>10, <1>12, <1>13 DEF n, start

(* What the loop has made of some octets does not depend on those behind.   *)
LEMMA ArcLoopStays ==
  ASSUME NEW s \in Seq(Byte), NEW t \in Seq(Byte)
  PROVE  \A i \in 0..Len(s) : ArcLoop(s \o t)[i] = ArcLoop(s)[i]
<1>. DEFINE u == s \o t
            n == Len(s)
            f == ArcLoop(u)
            g == ArcLoop(s)
<1>1. u \in Seq(Byte) /\ n \in Nat /\ n <= Len(u) /\ \A i \in 1..n : u[i] = s[i]
  OBVIOUS
<1>2. f[0] = [startn |-> 1, arcs |-> <<>>] /\ \A i \in 1..Len(u) : f[i] = Taken(f[i - 1], u, i)
  BY <1>1, ArcLoopFunction
<1>3. /\ g[0] = [startn |-> 1, arcs |-> <<>>]
      /\ \A i \in 1..n : g[i] = Taken(g[i - 1], s, i)
      /\ \A i \in 0..n : g[i] \in ArcLoops /\ g[i].startn <= i + 1
  BY ArcLoopFunction
<1>. HIDE DEF f, g
<1>4. ASSUME NEW i \in 1..n, f[i - 1] = g[i - 1] PROVE f[i] = g[i]
  <2>. DEFINE at == g[i - 1]
  <2>1. i \in 1..Len(u) /\ i - 1 \in 0..n
    BY <1>1
  <2>2. at.startn \in 1..n
    BY <1>1, <1>3, <2>1 DEF ArcLoops
  <2>3. f[i] = Taken(at, u, i) /\ g[i] = Taken(at, s, i)
    BY <1>2, <1>3, <1>4, <2>1
  <2>. HIDE DEF at
  <2>4. SubSeq(u, at.startn, i) = SubSeq(s, at.startn, i)
    <3>. DEFINE m == at.startn
    <3>1. m \in 1..n
      BY <2>2
    <3>. HIDE DEF m
    <3>2. SubSeq(u, m, i) = SubSeq(s, m, i)
      BY <3>1, SubSeqOfConcat1
    <3>3. QED
      BY <3>2 DEF m
  <2>5. u[i] = s[i]
    BY <1>1
  <2>. HIDE DEF u
  <2>6. QED
    BY <2>3, <2>4, <2>5 DEF Taken
<1>. HIDE DEF n
<1>5. \A i \in 0..n : f[i] = g[i]
  <2>1. n \in Nat /\ f[0] = g[0]
    BY <1>1, <1>2, <1>3
  <2>2. \A i \in 1..n : f[i - 1] = g[i - 1] => f[i] = g[i]
    BY <1>4
  <2>3. InStep(f, g, n)
    BY <2>1, <2>2 DEF InStep
  <2>4. QED
    BY <2>1, <2>3, FunctionsAgree
<1>6. QED
  BY <1>5 DEF f, g, n, u

(* The octets of one arc, and octets that end with an arc.                  *)
IsOneArc(t) == t \in Seq(Byte) /\ t # <<>> /\ \A i \in 1..Len(t) : t[i] < 128 <=> i = Len(t)
EndsWhole(p) == p \in Seq(Byte) /\ ArcLoop(p)[Len(p)].startn = Len(p) + 1

LEMMA ArcAppended ==
  ASSUME NEW p, EndsWhole(p), NEW t, IsOneArc(t)
  PROVE  EndsWhole(p \o t) /\ ArcsIn(p \o t) = Append(ArcsIn(p), t)
<1>. DEFINE u == p \o t
            n == Len(p)
            k == Len(t)
            f == ArcLoop(u)
            at == ArcLoop(p)[n]
<1>1. p \in Seq(Byte) /\ at.startn = n + 1
  BY DEF EndsWhole
<1>2. t \in Seq(Byte) /\ k \in Nat \ {0} /\ \A i \in 1..k : t[i] < 128 <=> i = k
  BY EmptySeq DEF IsOneArc
<1>3. /\ u \in Seq(Byte) /\ n \in Nat /\ Len(u) = n + k
      /\ \A i \in 1..k : u[n + i] = t[i] /\ t[i] \in Byte
  <2>1. /\ u \in Seq(Byte) /\ Len(u) = n + k
        /\ \A i \in 1..(n + k) : u[i] = IF i <= n THEN p[i] ELSE t[i - n]
    BY <1>1, <1>2, ConcatProperties
  <2>2. n \in Nat /\ \A i \in 1..k : t[i] \in Byte
    BY <1>1, <1>2, ElementOfSeq
  <2>. HIDE DEF u, n, k
  <2>3. \A i \in 1..k : n + i \in 1..(n + k) /\ ~(n + i <= n) /\ (n + i) - n = i
    BY <1>2, <2>2
  <2>4. QED
    BY <2>1, <2>2, <2>3
<1>4. f[n] = at
  BY <1>1, <1>2, <1>3, ArcLoopStays
<1>5. \A i \in 1..(n + k) : f[i] = Taken(f[i - 1], u, i)
  BY <1>3, ArcLoopFunction
<1>. HIDE DEF f, at, u, n, k
<1>6. ASSUME NEW i \in 0..(k - 1) PROVE f[n + i] = at
  <2>. DEFINE T == {j \in Nat : j <= k - 1 => f[n + j] = at}
  <2>1. 0 \in T
    BY <1>3, <1>4
  <2>2. ASSUME NEW j \in Nat, j \in T PROVE j + 1 \in T
    <3>. SUFFICES ASSUME j + 1 <= k - 1 PROVE f[n + (j + 1)] = at
      OBVIOUS
    <3>1. /\ n + (j + 1) \in 1..(n + k) /\ (n + (j + 1)) - 1 = n + j
          /\ j + 1 \in 1..k /\ j + 1 # k /\ j <= k - 1
      BY <1>2, <1>3
    <3>2. f[n + j] = at
      BY <2>2, <3>1
    <3>3. u[n + (j + 1)] >= 128
      <4>1. u[n + (j + 1)] = t[j + 1] /\ t[j + 1] \in Byte /\ ~(t[j + 1] < 128)
        BY <1>2, <1>3, <3>1
      <4>2. PICK y \in Byte : y = t[j + 1]
        BY <4>1
      <4>3. y >= 128
        BY <4>1, <4>2 DEF Byte
      <4>4. QED
        BY <4>1, <4>2, <4>3
    <3>4. f[n + (j + 1)] = Taken(at, u, n + (j + 1))
      BY <1>5, <3>1, <3>2
    <3>5. QED
      BY <3>3, <3>4 DEF Taken
  <2>. HIDE DEF T
  <2>3. Nat \subseteq T
    BY <2>1, <2>2, Induction
  <2>4. i \in T /\ i <= k - 1
    BY <1>2, <2>3
  <2>5. QED
    BY <2>4 DEF T
<1>7. f[n + k] = [startn |-> (n + k) + 1, arcs |-> Append(at.arcs, SubSeq(u, n + 1, n + k))]
  <2>1. k - 1 \in 0..(k - 1) /\ n + k \in 1..(n + k) /\ (n + k) - 1 = n + (k - 1) /\ k \in 1..k
    BY <1>2, <1>3
  <2>2. f[n + k] = Taken(at, u, n + k)
    BY <1>5, <1>6, <2>1
  <2>3. ~(u[n + k] >= 128)
    <3>1. u[n + k] = t[k] /\ t[k] \in Byte /\ t[k] < 128
      BY <1>2, <1>3, <2>1
    <3>2. PICK y \in Byte : y = t[k]
      BY <3>1
    <3>3. ~(y >= 128)
      BY <3>1, <3>2 DEF Byte
    <3>4. QED
      BY <3>1, <3>2, <3>3
  <2>4. QED
    BY <1>1, <2>2, <2>3 DEF Taken
<1>8. SubSeq(u, n + 1, n + k) = t
  <2>1. n + 1 \in (n + 1)..(n + k) /\ n + k \in (n + 1)..(n + k)
        /\ (n + 1) - n = 1 /\ (n + k) - n = k
    BY <1>2, <1>3
  <2>2. SubSeq(u, n + 1, n + k) = SubSeq(t, (n + 1) - n, (n + k) - n)
    BY <1>1, <1>2, <2>1, SubSeqOfConcat2 DEF n, k, u
  <2>3. SubSeq(t, 1, k) = t
    BY <1>2, SubSeqFull DEF k
  <2>4. QED
    BY <2>1, <2>2, <2>3
<1>9. ArcsIn(p) = at.arcs /\ ArcsIn(u) = f[n + k].arcs /\ Len(u) = n + k /\ f = ArcLoop(u)
  BY <1>3 DEF ArcsIn, at, f, n
<1>10. ArcsIn(u) = Append(ArcsIn(p), t)
  BY <1>7, <1>8, <1>9
<1>11. EndsWhole(u)
  BY <1>3, <1>7, <1>9 DEF EndsWhole
<1>12. QED
  BY <1>10, <1>11 DEF u

LEMMA NoArcs == EndsWhole(<<>>) /\ ArcsIn(<<>>) = <<>>
<1>1. <<>> \in Seq(Byte) /\ Len(<<>>) = 0
  OBVIOUS
<1>2. ArcLoop(<<>>)[0] = [startn |-> 1, arcs |-> <<>>]
  BY <1>1, ArcLoopFunction
<1>3. QED
  BY <1>1, <1>2 DEF EndsWhole, ArcsIn

(* FlattenSeq puts one after the other behind what there is.                *)
LEMMA FlattenFunction ==
  ASSUME NEW seqs \in Seq(Seq(Byte))
  PROVE  \E f \in [0..Len(seqs) -> Seq(Byte)] :
           /\ f[0] = <<>> /\ f[Len(seqs)] = FlattenSeq(seqs)
           /\ \A i \in 1..Len(seqs) : f[i] = f[i - 1] \o seqs[i]
<1>. DEFINE n == Len(seqs)
            Bytes == Seq(Byte)
            none == <<>>
            joined(x, i) == x \o seqs[i]
            h == [q \in Bytes \X Nat |-> IF q[2] \in 1..n THEN joined(q[1], q[2]) ELSE q[1]]
<1>1. n \in Nat /\ none \in Bytes
  OBVIOUS
<1>2. \A i \in 1..n : seqs[i] \in Bytes
  BY ElementOfSeq
<1>3. \A x, y \in Bytes : x \o y \in Bytes
  OBVIOUS
<1>4. \A x \in Bytes : none \o x = x
  BY ConcatEmptySeq
<1>. HIDE DEF n, Bytes, none
<1>5. \A x \in Bytes, i \in 1..n : joined(x, i) \in Bytes
  BY <1>2, <1>3
<1>. HIDE DEF joined
<1>6. /\ h \in [Bytes \X Nat -> Bytes]
      /\ \A x \in Bytes, i \in 1..n : h[<<x, i>>] = joined(x, i)
  BY <1>1, <1>5
<1>. HIDE DEF h
<1>7. PICK f \in [0..n -> Bytes] : Follows(f, none, h, n)
  BY <1>1, <1>6, FunctionExists
<1>8. f[0] = none /\ \A i \in 1..n : f[i] = f[i - 1] \o seqs[i]
  <2>1. ASSUME NEW i \in 1..n PROVE f[i] = f[i - 1] \o seqs[i]
    <3>1. f[i - 1] \in Bytes
      BY <1>1
    <3>2. f[i] = joined(f[i - 1], i)
      BY <1>6, <1>7, <3>1 DEF Follows
    <3>3. QED
      BY <3>2 DEF joined
  <2>2. QED
    BY <1>7, <2>1 DEF Follows
<1>. HIDE DEF joined
<1>9. f[n] = FlattenSeq(seqs)
  <2>1. CASE n = 0
    <3>1. FlattenSeq(seqs) = seqs /\ seqs = <<>>
      BY <2>1, EmptySeq DEF FlattenSeq, n
    <3>2. QED
      BY <1>8, <2>1, <3>1 DEF none
  <2>2. CASE n # 0
    <3>0. 1 \in 1..n /\ f[1] = seqs[1]
      <4>1. 1 \in 1..n /\ 1 - 1 = 0
        BY <1>1, <2>2
      <4>2. f[1] = none \o seqs[1] /\ seqs[1] \in Bytes
        BY <1>2, <1>8, <4>1
      <4>3. QED
        BY <1>4, <4>1, <4>2
    <3>. DEFINE g == [i \in 1..n |-> f[i]]
    <3>1. g = [i \in 1..n |-> IF i = 1 THEN seqs[i] ELSE g[i - 1] \o seqs[i]]
      <4>1. ASSUME NEW i \in 1..n PROVE g[i] = IF i = 1 THEN seqs[i] ELSE g[i - 1] \o seqs[i]
        <5>1. f[i] = f[i - 1] \o seqs[i] /\ seqs[i] \in Bytes
          BY <1>2, <1>8
        <5>2. CASE i = 1
          BY <3>0, <5>2
        <5>3. CASE i # 1
          <6>1. i - 1 \in 1..n
            BY <1>1, <5>3
          <6>2. QED
            BY <5>1, <5>3, <6>1
        <5>4. QED
          BY <5>2, <5>3
      <4>. HIDE DEF g
      <4>2. g = [i \in 1..n |-> g[i]]
        BY DEF g
      <4>3. QED
        BY <4>1, <4>2
    <3>2. PICK e : /\ e = [i \in 1..n |-> IF i = 1 THEN seqs[i] ELSE e[i - 1] \o seqs[i]]
                   /\ FlattenSeq(seqs) = e[n]
      <4>. HIDE DEF g
      <4>1. QED
        BY <2>2, <3>1 DEF FlattenSeq, n
    <3>. HIDE DEF g
    <3>3. ASSUME NEW i \in 1..n PROVE e[i] = IF i = 1 THEN seqs[i] ELSE e[i - 1] \o seqs[i]
      BY <3>2
    <3>. DEFINE T == {i \in Nat : i + 1 <= n => e[i + 1] = f[i + 1]}
    <3>4. 0 \in T
      BY <3>0, <3>3, 0 + 1 = 1
    <3>5. ASSUME NEW i \in Nat, i \in T PROVE i + 1 \in T
      <4>. SUFFICES ASSUME NEW j \in 1..n, j = (i + 1) + 1 PROVE e[j] = f[j]
        OBVIOUS
      <4>1. j # 1 /\ j - 1 = i + 1 /\ i + 1 <= n
        BY <1>1
      <4>2. e[j] = e[j - 1] \o seqs[j] /\ f[j] = f[j - 1] \o seqs[j]
        BY <1>8, <3>3, <4>1
      <4>3. QED
        BY <3>5, <4>1, <4>2
    <3>. HIDE DEF T
    <3>6. n - 1 \in T
      <4>1. Nat \subseteq T
        BY <3>4, <3>5, Induction
      <4>2. QED
        BY <1>1, <2>2, <4>1
    <3>7. (n - 1) + 1 = n /\ n <= n
      BY <1>1
    <3>8. (n - 1) + 1 <= n => e[(n - 1) + 1] = f[(n - 1) + 1]
      BY <3>6 DEF T
    <3>9. e[n] = f[n]
      BY <3>7, <3>8
    <3>10. QED
      BY <3>2, <3>9
  <2>3. QED
    BY <2>1, <2>2
<1>10. QED
  BY <1>7, <1>8, <1>9 DEF n, Bytes, none

LEMMA PrefixGrows ==
  ASSUME NEW S, NEW x \in Seq(S), NEW s \in Seq(S), NEW j \in 1..Len(s)
  PROVE  Append(x \o SubSeq(s, 1, j - 1), s[j]) = x \o SubSeq(s, 1, j)
<1>. DEFINE y == SubSeq(s, 1, j - 1)
            e == s[j]
<1>1. e \in S /\ \A i \in 1..(j - 1) : s[i] \in S
  BY ElementOfSeq
<1>2. y \in Seq(S)
  BY <1>1, SubSeqProperties
<1>3. SubSeq(s, 1, j) = y \o <<e>>
  BY SubSeqRecursiveSecond
<1>. HIDE DEF y, e
<1>4. <<e>> \in Seq(S)
  BY <1>1
<1>5. x \o y \in Seq(S)
  BY <1>2, ConcatProperties
<1>6. Append(x \o y, e) = (x \o y) \o <<e>>
  BY <1>1, <1>5, AppendIsConcat
<1>7. (x \o y) \o <<e>> = x \o (y \o <<e>>)
  <2>. DEFINE d == <<e>>
  <2>1. d \in Seq(S)
    BY <1>4
  <2>. HIDE DEF d
  <2>2. (x \o y) \o d = x \o (y \o d)
    BY <1>2, <2>1, JoinedInOrder, SMTT(30)
  <2>3. QED
    BY <2>2 DEF d
<1>8. QED
  BY <1>3, <1>6, <1>7 DEF y, e

LEMMA ArcsOfFlattened ==
  ASSUME NEW p, EndsWhole(p), NEW seqs \in Seq(Seq(Byte)),
         \A i \in 1..Len(seqs) : IsOneArc(seqs[i])
  PROVE  /\ p \o FlattenSeq(seqs) \in Seq(Byte)
         /\ ArcsIn(p \o FlattenSeq(seqs)) = ArcsIn(p) \o seqs
<1>. DEFINE n == Len(seqs)
            a == ArcsIn(p)
            Is(i, q) == EndsWhole(q) /\ ArcsIn(q) = a \o SubSeq(seqs, 1, i)
<1>1. n \in Nat /\ \A i \in 1..n : seqs[i] \in Seq(Byte)
  BY ElementOfSeq
<1>2. p \in Seq(Byte) /\ a \in Seq(Seq(Byte))
  <2>1. p \in Seq(Byte) /\ Len(p) \in 0..Len(p)
    BY DEF EndsWhole
  <2>2. ArcLoop(p)[Len(p)] \in ArcLoops
    BY <2>1, ArcLoopFunction
  <2>3. QED
    BY <2>1, <2>2 DEF ArcsIn, ArcLoops
<1>3. PICK f \in [0..n -> Seq(Byte)] :
        /\ f[0] = <<>> /\ f[n] = FlattenSeq(seqs)
        /\ \A i \in 1..n : f[i] = f[i - 1] \o seqs[i]
  BY FlattenFunction
<1>. HIDE DEF n, a
<1>. DEFINE T == {i \in Nat : i <= n => Is(i, p \o f[i])}
<1>4. 0 \in T
  <2>1. p \o f[0] = p /\ a \o <<>> = a
    BY <1>2, <1>3, ConcatEmptySeq
  <2>2. SubSeq(seqs, 1, 0) = <<>>
    BY SubSeqEmpty
  <2>3. Is(0, p \o f[0])
    BY <2>1, <2>2 DEF a
  <2>4. QED
    BY <2>3
<1>5. ASSUME NEW i \in Nat, i \in T PROVE i + 1 \in T
  <2>. SUFFICES ASSUME NEW j \in 1..n, j = i + 1 PROVE Is(j, p \o f[j])
    BY <1>1, SMTT(30)
  <2>. DEFINE q == p \o f[i]
  <2>1. j - 1 = i /\ i \in 0..n /\ i <= n
    BY <1>1
  <2>2. Is(i, q)
    BY <1>5, <2>1
  <2>3. f[i] \in Seq(Byte) /\ seqs[j] \in Seq(Byte) /\ f[j] = f[i] \o seqs[j]
    BY <1>1, <1>3, <2>1
  <2>4. p \o f[j] = q \o seqs[j]
    <3>1. \A q1, q2, q3 \in Seq(Byte) : (q1 \o q2) \o q3 = q1 \o (q2 \o q3)
      BY JoinedInOrder, SMTT(30)
    <3>2. (p \o f[i]) \o seqs[j] = p \o (f[i] \o seqs[j])
      BY <1>2, <2>3, <3>1, Zenon
    <3>3. QED
      BY <2>3, <3>2
  <2>. HIDE DEF q
  <2>5. IsOneArc(seqs[j])
    BY DEF n
  <2>6. EndsWhole(q \o seqs[j]) /\ ArcsIn(q \o seqs[j]) = Append(ArcsIn(q), seqs[j])
    BY <2>2, <2>5, ArcAppended
  <2>7. Append(a \o SubSeq(seqs, 1, j - 1), seqs[j]) = a \o SubSeq(seqs, 1, j)
    BY <1>2, PrefixGrows DEF n
  <2>8. QED
    BY <2>1, <2>2, <2>4, <2>6, <2>7
<1>. HIDE DEF T
<1>6. Nat \subseteq T
  BY <1>4, <1>5, Induction
<1>7. Is(n, p \o f[n])
  BY <1>1, <1>6 DEF T
<1>8. SubSeq(seqs, 1, n) = seqs
  BY SubSeqFull DEF n
<1>9. QED
  BY <1>3, <1>7, <1>8 DEF a, EndsWhole

(* One arc is written as what ArcsIn takes for one arc.                     *)
LEMMA ArcWritten ==
  ASSUME NEW v \in Nat, IsArc(v)
  PROVE  /\ IsOneArc(set_single_arc(v))
         /\ \A add \in Int : v + add >= 0 => get_single_arc(set_single_arc(v), add) = v + add
  BY ArcArrives DEF IsOneArc

(* Arcs that are written one after the other are read as the same arcs.     *)
THEOREM RelativeOidArrives ==
  ASSUME NEW arcs \in Seq(Nat), \A i \in 1..Len(arcs) : IsArc(arcs[i])
  PROVE  LET b == RELATIVE_OID_set_arcs(arcs)
         IN b \in Seq(Byte) /\ RELATIVE_OID_get_arcs(b) = arcs
<1>. DEFINE n == Len(arcs)
            seqs == [i \in 1..n |-> set_single_arc(arcs[i])]
            b == FlattenSeq(seqs)
<1>1. n \in Nat /\ DOMAIN arcs = 1..n /\ arcs = [i \in 1..n |-> arcs[i]]
      /\ \A i \in 1..n : arcs[i] \in Nat /\ IsArc(arcs[i])
  OBVIOUS
<1>2. ASSUME NEW i \in 1..n
      PROVE  IsOneArc(set_single_arc(arcs[i])) /\ get_single_arc(set_single_arc(arcs[i]), 0) = arcs[i]
  <2>1. PICK v \in Nat : v = arcs[i] /\ IsArc(v)
    BY <1>1
  <2>2. v + 0 >= 0 /\ v + 0 = v
    OBVIOUS
  <2>3. IsOneArc(set_single_arc(v)) /\ get_single_arc(set_single_arc(v), 0) = v + 0
    BY <2>1, <2>2, ArcWritten
  <2>4. QED
    BY <2>1, <2>2, <2>3
<1>3. seqs \in Seq(Seq(Byte)) /\ Len(seqs) = n /\ DOMAIN seqs = 1..n
      /\ \A i \in 1..n : seqs[i] = set_single_arc(arcs[i])
  <2>1. \A i \in 1..n : set_single_arc(arcs[i]) \in Seq(Byte)
    BY <1>2 DEF IsOneArc
  <2>2. QED
    BY <1>1, <2>1
<1>4. RELATIVE_OID_set_arcs(arcs) = b
  BY <1>1 DEF RELATIVE_OID_set_arcs
<1>. HIDE DEF seqs
<1>5. b \in Seq(Byte) /\ ArcsIn(b) = seqs
  <2>1. EndsWhole(<<>>) /\ ArcsIn(<<>>) = <<>> /\ <<>> \in Seq(Byte)
    BY NoArcs
  <2>2. \A i \in 1..Len(seqs) : IsOneArc(seqs[i])
    BY <1>2, <1>3
  <2>3. <<>> \o b \in Seq(Byte) /\ ArcsIn(<<>> \o b) = <<>> \o seqs
    BY <1>3, <2>1, <2>2, ArcsOfFlattened
  <2>4. <<>> \o b = b
    <3>1. PICK f \in [0..Len(seqs) -> Seq(Byte)] : f[Len(seqs)] = FlattenSeq(seqs)
      BY <1>3, FlattenFunction
    <3>2. b \in Seq(Byte)
      BY <1>1, <1>3, <3>1
    <3>3. QED
      BY <3>2, ConcatEmptySeq
  <2>5. <<>> \o seqs = seqs
    BY <1>3, ConcatEmptySeq
  <2>6. QED
    BY <2>3, <2>4, <2>5
<1>. HIDE DEF b
<1>6. [k \in DOMAIN seqs |-> get_single_arc(seqs[k], 0)] = arcs
  <2>1. \A k \in 1..n : get_single_arc(seqs[k], 0) = arcs[k]
    BY <1>2, <1>3
  <2>. HIDE DEF n
  <2>2. QED
    BY <1>1, <1>3, <2>1
<1>7. RELATIVE_OID_get_arcs(b) = IF \E k \in DOMAIN arcs : arcs[k] = Failed THEN Failed ELSE arcs
  BY <1>5, <1>6 DEF RELATIVE_OID_get_arcs
<1>8. Failed \notin Nat
  BY PrimAssumption
<1>9. QED
  BY <1>1, <1>4, <1>5, <1>7, <1>8

(* An arc takes one octet, its own number, exactly if it is below 128.      *)
LEMMA ArcOfOneOctet ==
  ASSUME NEW v \in Nat, IsArc(v)
  PROVE  /\ v < 128 => set_single_arc(v) = <<v>>
         /\ v >= 128 => Len(set_single_arc(v)) > 1
<1>. DEFINE n == ArcGroups(v)
            m == Significant(v)
            b == set_single_arc(v)
<1>1. n \in Nat \ {0} /\ ShiftRight(v, 7 * n) = 0
  BY ArcSize
<1>2. b = [i \in 1..n |-> (ShiftRight(v, 7 * (n - i)) % 128) + IF i < n THEN 128 ELSE 0]
  BY DEF set_single_arc, ArcGroups
<1>3. n = (IF (8 * m) % 7 # 0 /\ ShiftRight(v, 8 * m - ((8 * m) % 7)) # 0 THEN 1 ELSE 0)
            + ((8 * m) \div 7)
  BY DEF ArcGroups
<1>4. m \in 1..ArcOctets /\ (m # 1 => ShiftRight(v, 8 * (m - 1)) # 0) /\ ArcOctets \in Nat
  BY ArcOctetsCounted, PrimAssumption
<1>5. ShiftRight(v, 7) = v \div 128 /\ ShiftRight(v, 0) = v
  BY ShiftRightSmall, ShiftRightZero
<1>. HIDE DEF n, m, b
<1>6. CASE v < 128
  <2>1. ShiftRight(v, 7) = 0
    BY <1>5, <1>6
  <2>2. m = 1
    <3>. SUFFICES ASSUME m # 1 PROVE FALSE
      OBVIOUS
    <3>. DEFINE k == 8 * (m - 1)
    <3>1. k \in Nat /\ 7 <= k /\ v <= v /\ ShiftRight(v, k) # 0
      BY <1>4
    <3>. HIDE DEF k
    <3>2. QED
      BY <2>1, <3>1, ShiftedOut
  <2>3. (8 * 1) % 7 = 1 /\ (8 * 1) \div 7 = 1 /\ 8 * 1 - 1 = 7
    OBVIOUS
  <2>4. n = 1
    BY <1>3, <2>1, <2>2, <2>3
  <2>5. b = [i \in 1..1 |-> (ShiftRight(v, 7 * (1 - i)) % 128) + IF i < 1 THEN 128 ELSE 0]
    BY <1>2, <2>4
  <2>6. (ShiftRight(v, 7 * (1 - 1)) % 128) + 0 = v
    <3>1. 7 * (1 - 1) = 0 /\ v % 128 = v
      BY <1>6
    <3>2. QED
      BY <1>5, <3>1
  <2>7. b = [i \in 1..1 |-> v]
    BY <2>5, <2>6
  <2>8. b = <<v>>
    BY <2>7
  <2>9. QED
    BY <1>6, <2>8 DEF b
<1>7. CASE ~(v < 128)
  <2>1. n # 1
    <3>. SUFFICES ASSUME n = 1 PROVE FALSE
      OBVIOUS
    <3>1. ShiftRight(v, 7) = 0
      BY <1>1, 7 * 1 = 7
    <3>2. QED
      BY <1>5, <1>7, <3>1
  <2>2. Len(b) = n
    BY <1>1, <1>2
  <2>3. QED
    BY <1>1, <1>7, <2>1, <2>2 DEF b
<1>8. QED
  BY <1>6, <1>7

(* What the first two arcs make of each other: root, and the number they    *)
(* are written as, from which get_arcs takes them apart.                    *)
LEMMA FirstArcs ==
  ASSUME NEW r \in 0..2, NEW a \in Nat, r = 2 \/ a < 39, IsArc(40 * r + a)
  PROVE  LET s == set_single_arc(40 * r + a)
         IN /\ IsOneArc(s)
            /\ (IF Len(s) > 1 \/ s[1] >= 79 THEN 2 ELSE IF s[1] <= 39 THEN 0 ELSE 1) = r
            /\ get_single_arc(s, -40 * r) = a
<1>. DEFINE v == 40 * r + a
            s == set_single_arc(v)
<1>1. v \in Nat /\ IsArc(v) /\ -40 * r \in Int /\ v + (-40 * r) = a /\ a >= 0
      /\ (v >= 128 => r = 2) /\ (v >= 79 <=> r = 2) /\ (v <= 39 <=> r = 0)
  OBVIOUS
<1>. HIDE DEF v
<1>2. IsOneArc(s) /\ get_single_arc(s, -40 * r) = a
  <2>1. \A add \in Int : v + add >= 0 => get_single_arc(s, add) = v + add
    BY <1>1, ArcWritten
  <2>2. IsOneArc(s)
    BY <1>1, ArcWritten
  <2>3. QED
    BY <1>1, <2>1, <2>2
<1>3. (v < 128 => s = <<v>>) /\ (v >= 128 => Len(s) > 1)
  BY <1>1, ArcOfOneOctet
<1>. HIDE DEF s
<1>4. (IF Len(s) > 1 \/ s[1] >= 79 THEN 2 ELSE IF s[1] <= 39 THEN 0 ELSE 1) = r
  <2>1. CASE v >= 128
    BY <1>1, <1>3, <2>1
  <2>2. CASE ~(v >= 128)
    <3>1. Len(s) = 1 /\ s[1] = v
      BY <1>1, <1>3, <2>2
    <3>2. QED
      BY <1>1, <3>1
  <2>3. QED
    BY <2>1, <2>2
<1>5. QED
  BY <1>2, <1>4 DEF s, v

LEMMA OneInFront ==
  ASSUME NEW S, NEW e \in S, NEW r \in Seq(S)
  PROVE  /\ <<e>> \o r # <<>> /\ Head(<<e>> \o r) = e /\ Len(<<e>> \o r) = Len(r) + 1
         /\ \A k \in 1..Len(r) : (<<e>> \o r)[k + 1] = r[k]
  OBVIOUS

(* So are those of an OBJECT IDENTIFIER, whose first two arcs are written   *)
(* as one number: under the roots 0 and 1 the second is below 39, and the   *)
(* number fits an arc of the application.                                   *)
THEOREM ObjectIdentifierArrives ==
  ASSUME ArcOctets # 1,
         NEW arcs \in Seq(Nat), Len(arcs) >= 2, \A i \in 1..Len(arcs) : IsArc(arcs[i]),
         arcs[1] \in 0..2, arcs[1] = 2 \/ arcs[2] < 39, IsArc(40 * arcs[1] + arcs[2])
  PROVE  LET b == OBJECT_IDENTIFIER_set_arcs(arcs)
         IN b \in Seq(Byte) /\ OBJECT_IDENTIFIER_get_arcs(b) = arcs
<1>. DEFINE n == Len(arcs) - 2
            s == set_single_arc(40 * arcs[1] + arcs[2])
            rest == [i \in 1..n |-> set_single_arc(arcs[i + 2])]
            b == s \o FlattenSeq(rest)
<1>1. /\ n \in Nat /\ Len(arcs) = n + 2
      /\ \A i \in 1..(n + 2) : arcs[i] \in Nat /\ IsArc(arcs[i])
      /\ arcs[2] \in Nat
  <2>1. n \in Nat /\ Len(arcs) = n + 2 /\ 2 \in 1..Len(arcs)
    OBVIOUS
  <2>2. \A i \in 1..Len(arcs) : arcs[i] \in Nat
    BY ElementOfSeq
  <2>. HIDE DEF n
  <2>3. QED
    BY <2>1, <2>2
<1>2. /\ IsOneArc(s)
      /\ (IF Len(s) > 1 \/ s[1] >= 79 THEN 2 ELSE IF s[1] <= 39 THEN 0 ELSE 1) = arcs[1]
      /\ get_single_arc(s, -40 * arcs[1]) = arcs[2]
  <2>1. PICK r \in 0..2, a \in Nat : r = arcs[1] /\ a = arcs[2]
    BY <1>1
  <2>2. (r = 2 \/ a < 39) /\ IsArc(40 * r + a) /\ s = set_single_arc(40 * r + a)
    BY <2>1
  <2>. HIDE DEF s
  <2>3. /\ IsOneArc(s)
        /\ (IF Len(s) > 1 \/ s[1] >= 79 THEN 2 ELSE IF s[1] <= 39 THEN 0 ELSE 1) = r
        /\ get_single_arc(s, -40 * r) = a
    BY <2>2, FirstArcs
  <2>4. QED
    BY <2>1, <2>3
<1>3. ASSUME NEW i \in 1..n
      PROVE  IsOneArc(set_single_arc(arcs[i + 2]))
             /\ get_single_arc(set_single_arc(arcs[i + 2]), 0) = arcs[i + 2]
  <2>1. PICK v \in Nat : v = arcs[i + 2] /\ IsArc(v)
    BY <1>1
  <2>2. v + 0 >= 0 /\ v + 0 = v
    OBVIOUS
  <2>3. IsOneArc(set_single_arc(v)) /\ get_single_arc(set_single_arc(v), 0) = v + 0
    BY <2>1, <2>2, ArcWritten
  <2>4. QED
    BY <2>1, <2>2, <2>3
<1>4. rest \in Seq(Seq(Byte)) /\ Len(rest) = n
      /\ \A i \in 1..n : rest[i] = set_single_arc(arcs[i + 2])
  <2>1. \A i \in 1..n : set_single_arc(arcs[i + 2]) \in Seq(Byte)
    BY <1>3 DEF IsOneArc
  <2>. HIDE DEF n
  <2>2. QED
    BY <1>1, <2>1
<1>5. OBJECT_IDENTIFIER_set_arcs(arcs) = b
  <2>. DEFINE seen(a) == IF ArcOctets \in {1, 2, 4} THEN a ELSE a % 256
  <2>1. OBJECT_IDENTIFIER_set_arcs(arcs) =
          IF Len(arcs) < 2 THEN Failed
          ELSE IF seen(arcs[1]) > 2 \/ (seen(arcs[1]) <= 1 /\ seen(arcs[2]) >= 39) THEN Failed
          ELSE set_single_arc(40 * seen(arcs[1]) + arcs[2]) \o FlattenSeq(rest)
    BY DEF OBJECT_IDENTIFIER_set_arcs
  <2>2. seen(arcs[1]) = arcs[1]
    BY SMTT(30)
  <2>3. arcs[2] < 39 => seen(arcs[2]) = arcs[2]
    <3>1. \A y \in Nat : y < 39 => y % 256 = y
      OBVIOUS
    <3>2. arcs[2] < 39 => arcs[2] % 256 = arcs[2]
      BY <1>1, <3>1
    <3>3. QED
      BY <3>2, Zenon
  <2>. HIDE DEF seen, rest, n
  <2>4. /\ ~(Len(arcs) < 2) /\ ~(seen(arcs[1]) > 2)
        /\ ~(seen(arcs[1]) <= 1 /\ seen(arcs[2]) >= 39)
    BY <1>1, <2>2, <2>3
  <2>5. OBJECT_IDENTIFIER_set_arcs(arcs) = set_single_arc(40 * seen(arcs[1]) + arcs[2]) \o FlattenSeq(rest)
    BY <2>1, <2>4, Zenon
  <2>6. QED
    BY <2>2, <2>5, Zenon
<1>. HIDE DEF rest, s, n
<1>6. b \in Seq(Byte) /\ ArcsIn(b) = <<s>> \o rest
  <2>1. EndsWhole(<<>>) /\ ArcsIn(<<>>) = <<>>
    BY NoArcs
  <2>2. <<>> \o s = s
    BY <1>2, ConcatEmptySeq DEF IsOneArc
  <2>3. EndsWhole(<<>> \o s) /\ ArcsIn(<<>> \o s) = Append(<<>>, s)
    BY <1>2, <2>1, ArcAppended
  <2>4. Append(<<>>, s) = <<s>>
    OBVIOUS
  <2>5. EndsWhole(s) /\ ArcsIn(s) = <<s>>
    BY <2>2, <2>3, <2>4
  <2>6. \A i \in 1..Len(rest) : IsOneArc(rest[i])
    BY <1>3, <1>4
  <2>7. s \o FlattenSeq(rest) \in Seq(Byte) /\ ArcsIn(s \o FlattenSeq(rest)) = ArcsIn(s) \o rest
    BY <1>4, <2>5, <2>6, ArcsOfFlattened
  <2>8. QED
    BY <2>5, <2>7
<1>. HIDE DEF b
<1>. DEFINE all == <<s>> \o rest
            tail == [k \in 1..(Len(all) - 1) |-> get_single_arc(all[k + 1], 0)]
            got == <<arcs[1], arcs[2]>> \o tail
<1>7. /\ Head(all) = s /\ all # <<>> /\ Len(all) = n + 1
      /\ \A k \in 1..n : all[k + 1] = rest[k]
  <2>1. s \in Seq(Byte)
    BY <1>2 DEF IsOneArc
  <2>. DEFINE Bytes == Seq(Byte)
  <2>2. s \in Bytes /\ rest \in Seq(Bytes)
    BY <1>4, <2>1
  <2>. HIDE DEF Bytes
  <2>3. QED
    BY <1>4, <2>2, OneInFront
<1>8. got = arcs
  <2>. HIDE DEF all
  <2>0. Len(all) - 1 = n /\ \A k \in 1..n : get_single_arc(all[k + 1], 0) = arcs[k + 2]
    <3>1. Len(all) - 1 = n
      BY <1>1, <1>7
    <3>2. ASSUME NEW k \in 1..n
          PROVE  get_single_arc(all[k + 1], 0) = arcs[k + 2]
      <4>1. all[k + 1] = set_single_arc(arcs[k + 2])
        BY <1>4, <1>7, Zenon
      <4>2. QED
        BY <4>1, <1>3, Zenon
    <3>3. QED
      BY <3>1, <3>2
  <2>1. \A k \in 1..n : k + 2 \in 1..(n + 2) /\ arcs[k + 2] \in Nat
    BY <1>1
  <2>2. tail = [k \in 1..n |-> arcs[k + 2]]
    BY <2>0
  <2>. HIDE DEF tail
  <2>3. tail \in Seq(Nat) /\ Len(tail) = n /\ \A k \in 1..n : tail[k] = arcs[k + 2]
    <3>1. tail \in [1..n -> Nat] /\ \A k \in 1..n : tail[k] = arcs[k + 2]
      BY <2>1, <2>2, Zenon
    <3>2. n \in Nat
      BY <1>1
    <3>3. QED
      BY <3>1, <3>2, FunctionIsSequence
  <2>4. <<arcs[1], arcs[2]>> \in Seq(Nat)
    BY <1>1
  <2>5. /\ got \in Seq(Nat) /\ Len(got) = n + 2
        /\ got[1] = arcs[1] /\ got[2] = arcs[2] /\ \A k \in 1..n : got[k + 2] = arcs[k + 2]
    BY <1>1, <2>3, <2>4, SMTT(30)
  <2>. HIDE DEF got
  <2>6. \A k \in 1..(n + 2) : got[k] = arcs[k]
    <3>1. \A k \in 1..(n + 2) : k = 1 \/ k = 2 \/ (k - 2 \in 1..n /\ (k - 2) + 2 = k)
      BY <1>1
    <3>2. QED
      BY <2>5, <3>1
  <2>7. QED
    BY <1>1, <2>5, <2>6, SeqEqual
<1>9. OBJECT_IDENTIFIER_get_arcs(b) =
        IF \E k \in 2..Len(got) : got[k] = Failed THEN Failed ELSE got
  <2>. DEFINE root(first) == IF Len(first) > 1 \/ first[1] >= 79 THEN 2 ELSE IF first[1] <= 39 THEN 0 ELSE 1
              whole(x) == <<root(Head(x)), get_single_arc(Head(x), -40 * root(Head(x)))>>
                            \o [k \in 1..(Len(x) - 1) |-> get_single_arc(x[k + 1], 0)]
              checked(x) == IF \E k \in 2..Len(x) : x[k] = Failed THEN Failed ELSE x
  <2>1. OBJECT_IDENTIFIER_get_arcs(b) =
          IF ArcOctets = 1 THEN Failed
          ELSE IF ArcsIn(b) = <<>> THEN <<>> ELSE checked(whole(ArcsIn(b)))
    BY DEF OBJECT_IDENTIFIER_get_arcs
  <2>2. whole(all) = got
    <3>1. root(s) = arcs[1] /\ get_single_arc(s, -40 * arcs[1]) = arcs[2] /\ Head(all) = s
      BY <1>2, <1>7
    <3>. HIDE DEF root
    <3>2. whole(all) = <<root(s), get_single_arc(s, -40 * root(s))>> \o tail
      BY <3>1, Zenon
    <3>3. QED
      BY <3>1, <3>2, Zenon
  <2>. HIDE DEF whole, checked
  <2>3. ArcsIn(b) = all /\ all # <<>>
    BY <1>6, <1>7
  <2>. HIDE DEF all, got
  <2>4. OBJECT_IDENTIFIER_get_arcs(b) = checked(got)
    BY <2>1, <2>2, <2>3
  <2>5. QED
    BY <2>4 DEF checked
<1>10. Failed \notin Nat
  BY PrimAssumption
<1>11. \A k \in 2..Len(arcs) : arcs[k] \in Nat
  OBVIOUS
<1>. HIDE DEF got
<1>12. QED
  BY <1>5, <1>6, <1>8, <1>9, <1>10, <1>11
=============================================================================
