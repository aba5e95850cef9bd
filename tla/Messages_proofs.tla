--------------------------- MODULE Messages_proofs ---------------------------
(***************************************************************************)
(* Module Messages: what message_read takes from a message is what         *)
(* message_write put there, for values of every kind.                      *)
(***************************************************************************)
EXTENDS Messages, SequenceTheorems, TLAPS

Byte == 0 .. 255

(* How many numbers there are of k octets.                                 *)
Span(k) == 256^k
Spans == {256, 65536, 16777216, 4294967296}

(* What the C types hold.  A long that is wider than what is sent of it    *)
(* may have any value; "stream" is a piece that is appended as it is.      *)
Numbers == {"uchar", "schar", "ushort", "sshort", "ulong", "slong"}
Holds(kind) ==
  IF kind \in Numbers
  THEN IF LongIsWide /\ kind \in {"ulong", "slong"} THEN IF kind = "ulong" THEN Nat ELSE Int
       ELSE IF kind \in {"schar", "sshort", "slong"}
            THEN {n \in Int : -Span(Octets(kind)) <= 2 * n /\ 2 * n < Span(Octets(kind))}
            ELSE {n \in Nat : n < Span(Octets(kind))}
  ELSE IF kind = "float" THEN {v \in Seq(Byte) : Len(v) = 4}
  ELSE IF kind = "double" THEN {v \in Seq(Byte) : Len(v) = 8}
  ELSE IF kind = "string" THEN {v \in Seq(Byte) : Len(v) < Span(LongOctets)}
  ELSE Seq(Byte)

Copied == {"float", "double"}
Kinds == Numbers \cup Copied \cup {"string", "stream"}
Fits(f) == f = [kind |-> f.kind, value |-> f.value] /\ f.kind \in Kinds /\ f.value \in Holds(f.kind)

(* The bytes of a field in a message.                                      *)
Wire(f) ==
  IF f.kind = "string" THEN NetworkOrder(Len(f.value), LongOctets) \o f.value
  ELSE IF f.kind \in Numbers THEN NetworkOrder(f.value, Octets(f.kind))
  ELSE f.value

(* What of a value arrives: of a wide long, what is sent of it.            *)
Received(f) ==
  IF LongIsWide /\ f.kind \in {"slong", "ulong"} THEN f.value % Span(LongOctets) ELSE f.value

IsMessage(m) ==
  m = [stream |-> m.stream, position |-> m.position] /\ m.stream \in Seq(Byte) /\ m.position \in Nat

-----------------------------------------------------------------------------
(* What a number may be divided by or taken modulo.                        *)
LEMMA Powers ==
  256^0 = 1 /\ 256^1 = 256 /\ 256^2 = 65536 /\ 256^3 = 16777216 /\ 256^4 = 4294967296
  BY SMT

LEMMA SpanIs ==
  ASSUME NEW k \in 1 .. 4
  PROVE  Span(k) \in Spans
<1>1. CASE k = 1
  BY <1>1, Powers DEF Span, Spans
<1>2. CASE k = 2
  BY <1>2, Powers DEF Span, Spans
<1>3. CASE k = 3
  BY <1>3, Powers DEF Span, Spans
<1>4. CASE k = 4
  BY <1>4, Powers DEF Span, Spans
<1>5. QED
  BY <1>1, <1>2, <1>3, <1>4

LEMMA BytesAreNumbers == \A x \in 0 .. 255 : x \in Int
  OBVIOUS

(* ntohs() and ntohl() of one to four octets.                              *)
LEMMA UnsignedOctets ==
  ASSUME NEW b \in Seq(0 .. 255), NEW n \in 1 .. 4, Len(b) = n
  PROVE  /\ n = 1 => Unsigned(b) = b[1]
         /\ n = 2 => Unsigned(b) = 256 * b[1] + b[2]
         /\ n = 3 => Unsigned(b) = 65536 * b[1] + 256 * b[2] + b[3]
         /\ n = 4 => Unsigned(b) = 16777216 * b[1] + 65536 * b[2] + 256 * b[3] + b[4]
<1> DEFINE upTo == CHOOSE g : g = [i \in 0 .. Len(b) |-> IF i = 0 THEN 0 ELSE 256 * g[i - 1] + b[i]]
<1>1. \A i \in 1 .. n : b[i] \in 0 .. 255
  BY ElementOfSeq
<1>11. 1 \in 1 .. n /\ (n >= 2 => 2 \in 1 .. n) /\ (n >= 3 => 3 \in 1 .. n) /\ (n >= 4 => 4 \in 1 .. n)
  OBVIOUS
<1>12. b[1] \in Int /\ (n >= 2 => b[2] \in Int) /\ (n >= 3 => b[3] \in Int) /\ (n >= 4 => b[4] \in Int)
  <2>1. \A i \in 1 .. n : b[i] \in Int
    BY <1>1, BytesAreNumbers, Zenon
  <2>2. QED
    BY <1>11, <2>1
<1>2. \E g : g = [i \in 0 .. Len(b) |-> IF i = 0 THEN 0 ELSE 256 * g[i - 1] + b[i]]
  <2> DEFINE g1 == 256 * 0 + b[1]
             g2 == 256 * g1 + b[2]
             g3 == 256 * g2 + b[3]
             g4 == 256 * g3 + b[4]
             value(i) == IF i = 0 THEN 0 ELSE IF i = 1 THEN g1 ELSE IF i = 2 THEN g2
                         ELSE IF i = 3 THEN g3 ELSE g4
             g == [i \in 0 .. Len(b) |-> value(i)]
  <2>1. /\ value(0) = 0 /\ value(1) = 256 * value(0) + b[1]
        /\ value(2) = 256 * value(1) + b[2]
        /\ value(3) = 256 * value(2) + b[3]
        /\ value(4) = 256 * value(3) + b[4]
    OBVIOUS
  <2>2. \A i \in 0 .. n : i = 0 \/ (i \in 1 .. n /\ i - 1 \in 0 .. n)
    OBVIOUS
  <2>3. \A i \in 1 .. n : i = 1 \/ i = 2 \/ i = 3 \/ i = 4
    OBVIOUS
  <2> HIDE DEF value
  <2>4. \A i \in 0 .. n : g[i] = value(i)
    OBVIOUS
  <2>5. \A i \in 1 .. n : value(i) = 256 * value(i - 1) + b[i]
    BY <2>1, <2>3
  <2> HIDE DEF g
  <2>6. \A i \in 0 .. n : g[i] = IF i = 0 THEN 0 ELSE 256 * g[i - 1] + b[i]
    BY <2>1, <2>2, <2>4, <2>5
  <2>7. g = [i \in 0 .. Len(b) |-> g[i]]
    BY DEF g
  <2>8. g = [i \in 0 .. Len(b) |-> IF i = 0 THEN 0 ELSE 256 * g[i - 1] + b[i]]
    BY <2>6, <2>7
  <2>9. QED
    BY <2>8
<1>3. upTo = [i \in 0 .. Len(b) |-> IF i = 0 THEN 0 ELSE 256 * upTo[i - 1] + b[i]]
  BY <1>2
<1>4. Unsigned(b) = upTo[n]
  BY DEF Unsigned
<1> HIDE DEF upTo
<1>5. /\ upTo[0] = 0
      /\ \A i \in 1 .. n : upTo[i] = 256 * upTo[i - 1] + b[i]
  BY <1>3
<1>6. CASE n = 1
  BY <1>4, <1>5, <1>6, <1>11, <1>12
<1>7. CASE n = 2
  <2>1. upTo[2] = 256 * upTo[1] + b[2] /\ upTo[1] = 256 * upTo[0] + b[1] /\ upTo[0] = 0
    BY <1>5, <1>7, <1>11
  <2>2. b[1] \in Int /\ b[2] \in Int
    BY <1>12, <1>7
  <2>3. QED
    BY <1>4, <1>7, <2>1, <2>2
<1>8. CASE n = 3
  <2>1. /\ upTo[3] = 256 * upTo[2] + b[3]
        /\ upTo[2] = 256 * upTo[1] + b[2] /\ upTo[1] = 256 * upTo[0] + b[1] /\ upTo[0] = 0
    BY <1>5, <1>8, <1>11
  <2>2. b[1] \in Int /\ b[2] \in Int /\ b[3] \in Int
    BY <1>12, <1>8
  <2>3. QED
    BY <1>4, <1>8, <2>1, <2>2
<1>9. CASE n = 4
  <2>1. /\ upTo[4] = 256 * upTo[3] + b[4] /\ upTo[3] = 256 * upTo[2] + b[3]
        /\ upTo[2] = 256 * upTo[1] + b[2] /\ upTo[1] = 256 * upTo[0] + b[1] /\ upTo[0] = 0
    BY <1>5, <1>9, <1>11
  <2>2. b[1] \in Int /\ b[2] \in Int /\ b[3] \in Int /\ b[4] \in Int
    BY <1>12, <1>9
  <2>3. QED
    BY <1>4, <1>9, <2>1, <2>2
<1>10. QED
  BY <1>6, <1>7, <1>8, <1>9

LEMMA NetworkOrderOctets ==
  ASSUME NEW n \in Int, NEW k \in 1 .. 4
  PROVE  /\ NetworkOrder(n, k) \in Seq(0 .. 255)
         /\ Len(NetworkOrder(n, k)) = k
         /\ Unsigned(NetworkOrder(n, k)) = n % 256^k
<1> DEFINE b == NetworkOrder(n, k)
<1>1. 256^0 = 1 /\ 256^1 = 256 /\ 256^2 = 65536 /\ 256^3 = 16777216 /\ 256^4 = 4294967296
  BY SMT
<1>2. b = [i \in 1 .. k |-> (n \div 256^(k - i)) % 256]
  BY DEF NetworkOrder
<1>3. \A i \in 1 .. k : (n \div 256^(k - i)) % 256 \in 0 .. 255
  <2> SUFFICES ASSUME NEW i \in 1 .. k PROVE (n \div 256^(k - i)) % 256 \in 0 .. 255
    OBVIOUS
  <2>1. 256^(k - i) \in {1, 256, 65536, 16777216}
    <3> DEFINE d == k - i
    <3>1. d = 0 \/ d = 1 \/ d = 2 \/ d = 3
      OBVIOUS
    <3> HIDE DEF d
    <3>2. 256^d \in {1, 256, 65536, 16777216}
      <4>1. CASE d = 0
        BY <1>1, <4>1
      <4>2. CASE d = 1
        BY <1>1, <4>2
      <4>3. CASE d = 2
        BY <1>1, <4>3
      <4>4. CASE d = 3
        BY <1>1, <4>4
      <4>5. QED
        BY <3>1, <4>1, <4>2, <4>3, <4>4
    <3>3. QED
      BY <3>2 DEF d
  <2>2. QED
    BY <2>1
<1> HIDE DEF b
<1>4. b \in Seq(0 .. 255) /\ Len(b) = k
  BY <1>2, <1>3
<1>5. CASE k = 1
  <2>1. b[1] = n % 256
    <3>1. b[1] = (n \div 256^0) % 256
      BY <1>2, <1>5
    <3>2. QED
      BY <1>1, <3>1
  <2>2. QED
    BY <1>1, <1>4, <1>5, <2>1, UnsignedOctets DEF b
<1>6. CASE k = 2
  <2>1. b[1] = (n \div 256^1) % 256 /\ b[2] = (n \div 256^0) % 256
    BY <1>2, <1>6
  <2>2. b[1] = (n \div 256) % 256 /\ b[2] = n % 256
    BY <1>1, <2>1
  <2>3. Unsigned(b) = 256 * b[1] + b[2]
    BY <1>4, <1>6, UnsignedOctets
  <2>4. 256 * ((n \div 256) % 256) + (n % 256) = n % 65536
    BY SMT
  <2>5. Unsigned(b) = n % 65536
    BY <2>2, <2>3, <2>4
  <2>6. QED
    BY <1>1, <1>4, <1>6, <2>5 DEF b
<1>7. CASE k = 3
  <2>1. b[1] = (n \div 256^2) % 256 /\ b[2] = (n \div 256^1) % 256 /\ b[3] = (n \div 256^0) % 256
    BY <1>2, <1>7
  <2>2. b[1] = (n \div 65536) % 256 /\ b[2] = (n \div 256) % 256 /\ b[3] = n % 256
    BY <1>1, <2>1
  <2>3. Unsigned(b) = 65536 * b[1] + 256 * b[2] + b[3]
    BY <1>4, <1>7, UnsignedOctets
  <2>4. 65536 * ((n \div 65536) % 256) + 256 * ((n \div 256) % 256) + (n % 256) = n % 16777216
    BY SMT
  <2>5. Unsigned(b) = n % 16777216
    BY <2>2, <2>3, <2>4
  <2>6. QED
    BY <1>1, <1>4, <1>7, <2>5 DEF b
<1>8. CASE k = 4
  <2>1. /\ b[1] = (n \div 256^3) % 256 /\ b[2] = (n \div 256^2) % 256
        /\ b[3] = (n \div 256^1) % 256 /\ b[4] = (n \div 256^0) % 256
    BY <1>2, <1>8
  <2>2. /\ b[1] = (n \div 16777216) % 256 /\ b[2] = (n \div 65536) % 256
        /\ b[3] = (n \div 256) % 256 /\ b[4] = n % 256
    BY <1>1, <2>1
  <2>3. Unsigned(b) = 16777216 * b[1] + 65536 * b[2] + 256 * b[3] + b[4]
    BY <1>4, <1>8, UnsignedOctets
  <2>4. 16777216 * ((n \div 16777216) % 256) + 65536 * ((n \div 65536) % 256)
          + 256 * ((n \div 256) % 256) + (n % 256) = n % 4294967296
    <3>1. 65536 * ((n \div 65536) % 256) + 256 * ((n \div 256) % 256) + (n % 256) = n % 16777216
      BY SMT
    <3>2. 16777216 * ((n \div 16777216) % 256) + (n % 16777216) = n % 4294967296
      BY SMT
    <3>3. n \div 16777216 \in Int /\ n \div 65536 \in Int /\ n \div 256 \in Int
      OBVIOUS
    <3>4. QED
      BY <3>1, <3>2, <3>3, SMT
  <2>5. Unsigned(b) = n % 4294967296
    BY <2>2, <2>3, <2>4
  <2>6. QED
    BY <1>1, <1>4, <1>8, <2>5 DEF b
<1>9. QED
  BY <1>4, <1>5, <1>6, <1>7, <1>8 DEF b

LEMMA OctetsOf ==
  ASSUME LongOctets \in 1 .. 4, NEW kind \in Numbers
  PROVE  /\ Octets(kind) \in 1 .. 4
         /\ kind \in {"uchar", "schar"} => Octets(kind) = 1
         /\ kind \in {"ushort", "sshort"} => Octets(kind) = 2
         /\ kind \in {"ulong", "slong"} => Octets(kind) = LongOctets
  BY DEF Octets, Numbers

LEMMA UnsignedOf ==
  ASSUME NEW k \in 1 .. 4, NEW n \in Int
  PROVE  Unsigned(NetworkOrder(n, k)) = n % Span(k)
  BY NetworkOrderOctets DEF Span

(* What is read as a signed number is what was written.                    *)
LEMMA SignedOctets ==
  ASSUME NEW k \in 1 .. 4, NEW n \in Int, -Span(k) <= 2 * n, 2 * n < Span(k)
  PROVE  Signed(NetworkOrder(n, k)) = n
<1> DEFINE all == Span(k)
           u == Unsigned(NetworkOrder(n, k))
<1>1. all \in Spans
  BY SpanIs
<1>2. Len(NetworkOrder(n, k)) = k /\ u = n % all
  BY NetworkOrderOctets, UnsignedOf
<1>3. Signed(NetworkOrder(n, k)) = IF 2 * u < all THEN u ELSE u - all
  BY <1>2 DEF Signed, Span
<1>4. -all <= 2 * n /\ 2 * n < all
  OBVIOUS
<1> HIDE DEF all, u
<1>5. n % all = IF 0 <= n THEN n ELSE n + all
  <2>1. CASE all = 256
    BY <1>4, <2>1
  <2>2. CASE all = 65536
    BY <1>4, <2>2
  <2>3. CASE all = 16777216
    BY <1>4, <2>3
  <2>4. CASE all = 4294967296
    BY <1>4, <2>4
  <2>5. QED
    BY <1>1, <2>1, <2>2, <2>3, <2>4 DEF Spans
<1>6. all \in Int
  BY <1>1 DEF Spans
<1>7. QED
  BY <1>2, <1>3, <1>4, <1>5, <1>6

(* A number in its range is what is left of it after the octets.           *)
LEMMA UnsignedNumber ==
  ASSUME NEW k \in 1 .. 4, NEW n \in Nat, n < Span(k)
  PROVE  Unsigned(NetworkOrder(n, k)) = n
<1> DEFINE all == Span(k)
<1>1. all \in Spans
  BY SpanIs
<1>2. n < all
  OBVIOUS
<1> HIDE DEF all
<1>3. n % all = n
  BY <1>1, <1>2 DEF Spans
<1>4. QED
  BY <1>3, UnsignedOf DEF all

-----------------------------------------------------------------------------
(* Fields *)

LEMMA Appended ==
  ASSUME NEW a \in Seq(Byte), NEW b \in Seq(Byte), NEW c \in Seq(Byte)
  PROVE  (a \o b) \o c = a \o (b \o c)
  BY ConcatAssociative

LEMMA NumberTyped ==
  ASSUME NEW f, Fits(f), f.kind \in Numbers
  PROVE  f.value \in Int
<1>1. Holds(f.kind) \subseteq Int
  BY DEF Holds
<1>2. QED
  BY <1>1 DEF Fits

LEMMA BytesTyped ==
  ASSUME NEW f, Fits(f), f.kind \notin Numbers
  PROVE  /\ f.value \in Seq(Byte)
         /\ f.kind = "float" => Len(f.value) = 4
         /\ f.kind = "double" => Len(f.value) = 8
         /\ f.kind = "string" => Len(f.value) < Span(LongOctets)
<1>1. f.value \in Holds(f.kind) /\ f.kind \in {"float", "double", "string", "stream"}
  BY DEF Fits, Kinds, Copied
<1>2. CASE f.kind = "float"
  BY <1>1, <1>2 DEF Holds
<1>3. CASE f.kind = "double"
  BY <1>1, <1>3 DEF Holds
<1>4. CASE f.kind = "string"
  BY <1>1, <1>4 DEF Holds
<1>5. CASE f.kind = "stream"
  BY <1>1, <1>5 DEF Holds
<1>6. QED
  BY <1>1, <1>2, <1>3, <1>4, <1>5

LEMMA WireTyped ==
  ASSUME LongOctets \in 1 .. 4, NEW f, Fits(f)
  PROVE  Wire(f) \in Seq(Byte)
<1>1. CASE f.kind \in Numbers
  <2>1. Wire(f) = NetworkOrder(f.value, Octets(f.kind))
    BY <1>1 DEF Wire, Numbers
  <2>2. QED
    <3>1. f.value \in Int /\ Octets(f.kind) \in 1 .. 4
      BY <1>1, NumberTyped, OctetsOf
    <3>2. NetworkOrder(f.value, Octets(f.kind)) \in Seq(Byte)
      BY <3>1, NetworkOrderOctets, Zenon DEF Byte
    <3>3. QED
      BY <2>1, <3>2
<1>2. CASE f.kind = "string"
  <2>1. f.value \in Seq(Byte) /\ Len(f.value) \in Int
    BY <1>2, BytesTyped DEF Numbers
  <2>2. NetworkOrder(Len(f.value), LongOctets) \in Seq(Byte)
    BY <2>1, NetworkOrderOctets DEF Byte
  <2>3. QED
    BY <1>2, <2>1, <2>2, ConcatProperties DEF Wire
<1>3. CASE f.kind \notin Numbers /\ f.kind # "string"
  BY <1>3, BytesTyped DEF Wire
<1>4. QED
  BY <1>1, <1>2, <1>3

(* A write at the end appends, and leaves position at the end.             *)
LEMMA WrittenAtEnd ==
  ASSUME NEW m, IsMessage(m), m.position = Len(m.stream), NEW b \in Seq(Byte)
  PROVE  Written(m, b) = [stream |-> m.stream \o b, position |-> Len(m.stream \o b)]
<1> DEFINE s == m.stream
           n == Len(s)
           Elem == Byte \cup {Garbage}
           tail == [i \in DOMAIN b |-> Garbage]
           grown == s \o tail
<1>1. s \in Seq(Byte) /\ n \in Nat /\ Len(b) \in Nat
  BY DEF IsMessage
<1>2. s \in Seq(Elem)
  BY <1>1, SeqMonotonic
<1>3. tail \in Seq(Elem) /\ Len(tail) = Len(b)
  <2>1. DOMAIN b = 1 .. Len(b)
    BY <1>1
  <2>2. QED
    BY <1>1, <2>1
<1> HIDE DEF Elem, tail
<1>4. /\ grown \in Seq(Elem) /\ Len(grown) = n + Len(b)
      /\ \A i \in 1 .. n : grown[i] = s[i]
  <2>1. /\ grown \in Seq(Elem) /\ Len(grown) = n + Len(tail)
        /\ \A i \in 1 .. n + Len(tail) : grown[i] = IF i <= n THEN s[i] ELSE tail[i - n]
    BY <1>2, <1>3
  <2>2. QED
    BY <1>1, <1>3, <2>1
<1> HIDE DEF grown
<1>5. SubSeq(grown, 1, n) = s
  <2>1. \A i \in 1 .. n : grown[i] \in Byte
    BY <1>1, <1>4, ElementOfSeq
  <2>2. /\ SubSeq(grown, 1, n) \in Seq(Byte)
        /\ Len(SubSeq(grown, 1, n)) = n
        /\ \A i \in 1 .. n : SubSeq(grown, 1, n)[i] = grown[i]
    BY <1>1, <2>1, SubSeqProperties
  <2>3. QED
    BY <1>1, <1>4, <2>2, SeqEqual
<1>6. SubSeq(grown, n + Len(b) + 1, Len(grown)) = <<>>
  BY <1>1, <1>4, SubSeqEmpty
<1>7. s \o b \in Seq(Byte) /\ Len(s \o b) = n + Len(b) /\ (s \o b) \o <<>> = s \o b
  BY <1>1, ConcatProperties, ConcatEmptySeq
<1>8. Overwritten(m, b) = s \o b \o <<>>
  BY <1>5, <1>6 DEF Overwritten, grown, tail
<1>9. QED
  BY <1>7, <1>8 DEF Written, message_get_size

(* So does message_write with the bytes of a field.                        *)
LEMMA WriteAppends ==
  ASSUME LongOctets \in 1 .. 4, NEW f, Fits(f), f.kind # "stream",
         NEW m, IsMessage(m), m.position = Len(m.stream)
  PROVE  message_write(m, f) = [stream |-> m.stream \o Wire(f), position |-> Len(m.stream \o Wire(f))]
<1>1. m.stream \in Seq(Byte)
  BY DEF IsMessage
<1>2. CASE f.kind \in Numbers
  <2>1. Wire(f) = NetworkOrder(f.value, Octets(f.kind))
    BY <1>2 DEF Wire, Numbers
  <2>2. message_write(m, f) = Written(m, Wire(f))
    BY <1>2, <2>1 DEF message_write, IsCopied, Numbers
  <2>3. QED
    BY <2>2, WireTyped, WrittenAtEnd
<1>3. CASE f.kind = "string"
  <2> DEFINE size == NetworkOrder(Len(f.value), LongOctets)
             m1 == Written(m, size)
  <2>1. f.value \in Seq(Byte) /\ Len(f.value) \in Int
    BY <1>3, BytesTyped DEF Numbers
  <2>2. size \in Seq(Byte)
    BY <2>1, NetworkOrderOctets DEF Byte
  <2>3. message_write(m, f) = Written(m1, f.value)
    BY <1>3 DEF message_write, message_write_string
  <2>4. Wire(f) = size \o f.value
    BY <1>3 DEF Wire
  <2> HIDE DEF size
  <2>5. m1 = [stream |-> m.stream \o size, position |-> Len(m.stream \o size)]
    BY <2>2, WrittenAtEnd
  <2> HIDE DEF m1
  <2>6. m.stream \o size \in Seq(Byte) /\ Len(m.stream \o size) \in Nat
    BY <1>1, <2>2
  <2>7. IsMessage(m1) /\ m1.stream = m.stream \o size /\ m1.position = Len(m1.stream)
    BY <2>5, <2>6 DEF IsMessage
  <2>8. Written(m1, f.value) = [stream |-> (m.stream \o size) \o f.value,
                                position |-> Len((m.stream \o size) \o f.value)]
    BY <2>1, <2>7, WrittenAtEnd
  <2>9. (m.stream \o size) \o f.value = m.stream \o (size \o f.value)
    BY <1>1, <2>1, <2>2, Appended
  <2>10. QED
    BY <2>3, <2>4, <2>8, <2>9
<1>4. CASE f.kind \in Copied
  <2>1. Wire(f) = f.value
    BY <1>4 DEF Wire, Numbers, Copied
  <2>2. message_write(m, f) = Written(m, Wire(f))
    BY <1>4, <2>1 DEF message_write, IsCopied, Copied
  <2>3. QED
    BY <2>2, WireTyped, WrittenAtEnd
<1>5. QED
  BY <1>2, <1>3, <1>4 DEF Fits, Kinds

(* Where all the bytes of a read are in the message, it gets those.        *)
LEMMA BytesThere ==
  ASSUME NEW m, IsMessage(m), NEW w \in Seq(Byte), m.position + Len(w) <= Len(m.stream),
         \A x \in 1 .. Len(w) : m.stream[m.position + x] = w[x]
  PROVE  BytesAt(m, Len(w)) = w
<1> DEFINE p == m.position
           s == m.stream
           n == Len(w)
<1>1. p \in Nat /\ Len(s) \in Nat /\ n \in Nat /\ p + n <= Len(s)
  BY DEF IsMessage
<1>2. w = [x \in 1 .. n |-> w[x]]
  OBVIOUS
<1>3. BytesAt(m, n) = [x \in 1 .. n |-> IF p + x <= Len(s) THEN s[p + x] ELSE Garbage]
  BY DEF BytesAt, message_get_size
<1>4. \A x \in 1 .. n : s[p + x] = w[x]
  OBVIOUS
<1> HIDE DEF p, s, n
<1>5. \A x \in 1 .. n : (IF p + x <= Len(s) THEN s[p + x] ELSE Garbage) = w[x]
  BY <1>1, <1>4
<1>6. BytesAt(m, n) = [x \in 1 .. n |-> w[x]]
  BY <1>3, <1>5
<1>7. QED
  BY <1>2, <1>6 DEF n

(* message_read gives back what message_write wrote, wherever in the       *)
(* message that is, and moves on to what was written next: the fields of a *)
(* message need no marks between them.                                     *)
THEOREM ReadUndoesWrite ==
  ASSUME LongOctets \in 1 .. 4, NEW f, Fits(f), f.kind # "stream",
         NEW m, IsMessage(m), m.position + Len(Wire(f)) <= Len(m.stream),
         \A x \in 1 .. Len(Wire(f)) : m.stream[m.position + x] = Wire(f)[x]
  PROVE  message_read(m, f.kind) =
           [value |-> Received(f), m |-> [m EXCEPT !.position = @ + Len(Wire(f))]]
<1> DEFINE w == Wire(f)
<1>1. w \in Seq(Byte) /\ Len(w) \in Nat
  BY WireTyped
<1>2. BytesAt(m, Len(w)) = w
  BY <1>1, BytesThere
<1>3. CASE f.kind \in Numbers
  <2> DEFINE k == Octets(f.kind)
  <2>1. k \in 1 .. 4 /\ f.value \in Int
    BY <1>3, OctetsOf, NumberTyped
  <2>2. w = NetworkOrder(f.value, k) /\ Len(w) = k
    <3>1. w = NetworkOrder(f.value, k)
      BY <1>3 DEF Wire, Numbers
    <3>2. QED
      BY <2>1, <3>1, NetworkOrderOctets
  <2>3. f.value \in Holds(f.kind)
    BY DEF Fits
  <2>4. message_read(m, f.kind) =
          [value |-> IF IsSigned(f.kind) THEN Signed(w) ELSE Unsigned(w), m |-> Advanced(m, Len(w))]
    BY <1>2, <1>3, <2>2 DEF message_read, IsCopied, Numbers
  <2>5. CASE IsSigned(f.kind)
    <3>1. -Span(k) <= 2 * f.value /\ 2 * f.value < Span(k)
      BY <2>3, <2>5, <1>3 DEF Holds, IsSigned, Numbers
    <3>2. Signed(w) = f.value
      BY <2>1, <2>2, <3>1, SignedOctets
    <3>3. Received(f) = f.value
      BY <2>5 DEF Received, IsSigned
    <3>4. QED
      BY <2>4, <2>5, <3>2, <3>3 DEF Advanced
  <2>6. CASE LongIsWide /\ f.kind \in {"slong", "ulong"}
    <3>1. k = LongOctets /\ ~IsSigned(f.kind)
      BY <1>3, <2>6, OctetsOf DEF IsSigned
    <3>2. Unsigned(w) = f.value % Span(LongOctets)
      BY <2>1, <2>2, <3>1, UnsignedOf
    <3>3. QED
      BY <2>4, <2>6, <3>1, <3>2 DEF Received, Advanced
  <2>7. CASE ~IsSigned(f.kind) /\ ~(LongIsWide /\ f.kind \in {"slong", "ulong"})
    <3>1. f.value \in Nat /\ f.value < Span(k)
      BY <2>3, <2>7, <1>3, LongAssumption DEF Holds, IsSigned, Numbers
    <3>2. Unsigned(w) = f.value
      BY <2>1, <2>2, <3>1, UnsignedNumber
    <3>3. Received(f) = f.value
      BY <2>7 DEF Received
    <3>4. QED
      BY <2>4, <2>7, <3>2, <3>3 DEF Advanced
  <2>8. QED
    BY <2>5, <2>6, <2>7
<1>4. CASE f.kind = "string"
  <2> DEFINE size == NetworkOrder(Len(f.value), LongOctets)
             behind == Advanced(m, LongOctets)
  <2>1. /\ f.value \in Seq(Byte) /\ Len(f.value) \in Nat
        /\ Len(f.value) < Span(LongOctets)
    BY <1>4, BytesTyped DEF Numbers
  <2>2. size \in Seq(Byte) /\ Len(size) = LongOctets /\ Unsigned(size) = Len(f.value)
    <3>1. Len(f.value) \in Int
      BY <2>1
    <3>2. size \in Seq(Byte) /\ Len(size) = LongOctets
      BY <3>1, NetworkOrderOctets, Zenon DEF Byte
    <3>3. Unsigned(size) = Len(f.value)
      BY <2>1, UnsignedNumber
    <3>4. QED
      BY <3>2, <3>3
  <2>3. w = size \o f.value
    BY <1>4 DEF Wire
  <2> HIDE DEF size, w
  <2>4. /\ Len(w) = LongOctets + Len(f.value)
        /\ \A x \in 1 .. LongOctets : w[x] = size[x]
        /\ \A x \in 1 .. Len(f.value) : w[LongOctets + x] = f.value[x]
    BY <2>1, <2>2, <2>3
  <2>5. m.position \in Nat /\ m.stream \in Seq(Byte) /\ Len(m.stream) \in Nat
    BY DEF IsMessage
  <2>6. /\ m.position + Len(w) <= Len(m.stream)
        /\ \A x \in 1 .. Len(w) : m.stream[m.position + x] = w[x]
    BY DEF w
  <2>7. BytesAt(m, LongOctets) = size
    <3>1. m.position + Len(size) <= Len(m.stream)
      BY <2>1, <2>2, <2>4, <2>5, <2>6
    <3>2. \A x \in 1 .. Len(size) : m.stream[m.position + x] = size[x]
      BY <2>1, <2>2, <2>4, <2>6
    <3>3. QED
      BY <2>2, <3>1, <3>2, BytesThere
  <2>8. behind = [stream |-> m.stream, position |-> m.position + LongOctets]
    BY DEF Advanced, IsMessage
  <2> HIDE DEF behind
  <2>9. BytesAt(behind, Len(f.value)) = f.value
    <3>1. IsMessage(behind)
      BY <2>5, <2>8 DEF IsMessage
    <3>2. behind.position + Len(f.value) <= Len(behind.stream)
      BY <2>1, <2>4, <2>5, <2>6, <2>8
    <3>3. ASSUME NEW x \in 1 .. Len(f.value)
          PROVE  behind.stream[behind.position + x] = f.value[x]
      <4>1. LongOctets + x \in 1 .. Len(w)
        BY <2>1, <2>4
      <4>2. behind.position = m.position + LongOctets /\ behind.stream = m.stream
        BY <2>8
      <4>3. m.position + (LongOctets + x) = behind.position + x
        BY <2>1, <2>5, <4>2
      <4>4. m.stream[m.position + (LongOctets + x)] = w[LongOctets + x]
        BY <2>6, <4>1
      <4>5. QED
        BY <2>4, <4>2, <4>3, <4>4
    <3>4. QED
      BY <2>1, <3>1, <3>2, <3>3, BytesThere
  <2>10. message_read(m, f.kind) = [value |-> f.value, m |-> Advanced(behind, Len(f.value))]
    BY <1>4, <2>2, <2>7, <2>9 DEF message_read, message_read_string, behind
  <2>11. Advanced(behind, Len(f.value)) = [m EXCEPT !.position = @ + Len(w)]
    <3>1. Advanced(behind, Len(f.value)) =
            [stream |-> m.stream, position |-> (m.position + LongOctets) + Len(f.value)]
      BY <2>8 DEF Advanced
    <3>2. (m.position + LongOctets) + Len(f.value) = m.position + Len(w)
      BY <2>1, <2>4, <2>5
    <3>3. QED
      BY <3>1, <3>2 DEF IsMessage
  <2>12. Received(f) = f.value
    BY <1>4 DEF Received
  <2>13. QED
    BY <2>10, <2>11, <2>12 DEF w
<1>5. CASE f.kind \in Copied
  <2>1. w = f.value /\ Len(w) = Octets(f.kind)
    <3>1. w = f.value
      BY <1>5 DEF Wire, Numbers, Copied
    <3>2. /\ f.kind = "float" => Len(f.value) = 4
          /\ f.kind = "double" => Len(f.value) = 8
      BY <1>5, BytesTyped DEF Numbers, Copied
    <3>3. QED
      BY <1>5, <3>1, <3>2 DEF Octets, Copied
  <2>2. message_read(m, f.kind) = [value |-> w, m |-> Advanced(m, Len(w))]
    BY <1>2, <1>5, <2>1 DEF message_read, IsCopied, Copied
  <2>3. Received(f) = f.value
    BY <1>5 DEF Received, Copied
  <2>4. QED
    BY <2>1, <2>2, <2>3 DEF Advanced
<1>6. QED
  BY <1>3, <1>4, <1>5 DEF Fits, Kinds
=============================================================================
