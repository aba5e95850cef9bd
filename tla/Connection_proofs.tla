--------------------------- MODULE Connection_proofs ---------------------------
(***************************************************************************)
(* Module Connection, where the bytes of a send() arrive together, is a    *)
(* channel of messages, for all messages that fit into a size of four      *)
(* bytes.                                                                  *)
(***************************************************************************)
EXTENDS Connection, SequenceTheorems, TLAPS

(* What connection.c takes for granted: recv() gets what one send() took,  *)
(* no message is empty (connection_recv takes a recv() of no bytes for the *)
(* end), and the size of every message fits into network_size.             *)
SizeLimit == 4294967296
MessagesFit == \A m \in Message : Len(m) > 0 /\ Len(m) < SizeLimit
ArrivesWhole == Torn = FALSE /\ MessagesFit

(* The two send()s of every message of s, counted from the first message   *)
(* on: the odd ones are sizes, the even ones the bytes.                    *)
Unit(s, i) == IF i % 2 = 1 THEN Htonl(Len(s[(i + 1) \div 2])) ELSE s[i \div 2]

(* bytes are the units from + 1 to last, one behind the other; cut[i] is   *)
(* where the i-th ends.                                                    *)
CutAt(bytes, s, from, last, cut) ==
  /\ cut[from] = 0
  /\ cut[last] = Len(bytes)
  /\ \A i, j \in from .. last : i <= j => cut[i] <= cut[j]
  /\ \A i \in from + 1 .. last :
       /\ cut[i] = cut[i - 1] + Len(Unit(s, i))
       /\ \A x \in 1 .. Len(Unit(s, i)) : bytes[cut[i - 1] + x] = Unit(s, i)[x]

Carries(bytes, s, from, last) ==
  \E cut \in [from .. last -> 0 .. Len(bytes)] : CutAt(bytes, s, from, last, cut)

(* How many units recv() has returned.                                     *)
Taken == IF in = "data" THEN 2 * Len(received) + 1 ELSE 2 * Len(received)

(* What is under way are the units after last: all that connection_send    *)
(* has sent, unless its process has ended in the middle.                   *)
Underway(last) ==
  /\ last + Len(flight) <= 2 * Len(sent)
  /\ \A i \in 1 .. Len(flight) : flight[i] = Unit(sent, last + i)
  /\ out \in {"idle", "left"} => last + Len(flight) = 2 * Len(sent)
  /\ out = "data" => last + Len(flight) = 2 * Len(sent) - 1

(* As long as the receiving end receives, what has arrived and what is     *)
(* under way are the frames of the messages not yet received, from where   *)
(* it stands.                                                              *)
UnitsInOrder ==
  in \in {"size", "data"} =>
    \E last \in Taken .. 2 * Len(sent) : Carries(stream, sent, Taken, last) /\ Underway(last)

(* Each end knows the message it is busy with.                             *)
EndsKnow ==
  /\ out = "data" => sent # <<>> /\ message = sent[Len(sent)]
  /\ in = "data" => Len(received) < Len(sent) /\ buffer_size = Len(sent[Len(received) + 1])

(* Nothing is received or on its way that was not sent.                    *)
NeverAhead ==
  /\ Len(received) <= Len(sent)
  /\ out = "data" \/ flight # <<>> \/ stream # <<>> => Len(received) < Len(sent)

ReceivedAsSent ==
  \A i \in DOMAIN received : received[i] = [size |-> Len(sent[i]), data |-> sent[i]]

IInv ==
  /\ TypeOK
  /\ UnitsInOrder
  /\ EndsKnow
  /\ NeverAhead
  /\ ReceivedAsSent

-----------------------------------------------------------------------------
(* The operators the module is built from *)

(* Four bytes carry a size that fits, and connection_recv reads the size   *)
(* that connection_send wrote.                                             *)
LEMMA SizeArrives ==
  ASSUME NEW n \in Nat, n < SizeLimit
  PROVE  /\ Htonl(n) \in Seq(0 .. 255)
         /\ Len(Htonl(n)) = SizeBytes
         /\ Ntohl(Htonl(n)) = n
<1> DEFINE a == n \div 16777216
           b == (n \div 65536) % 256
           c == (n \div 256) % 256
           d == n % 256
<1>1. a \in 0 .. 255
  BY SMT DEF SizeLimit
<1>2. b \in 0 .. 255 /\ c \in 0 .. 255 /\ d \in 0 .. 255
  BY SMT
<1>3. a * 16777216 + b * 65536 + c * 256 + d = n
  BY SMT
<1>4. Htonl(n) = <<a, b, c, d>>
  BY SMT DEF Htonl
<1> HIDE DEF a, b, c, d
<1>5. QED
  BY <1>1, <1>2, <1>3, <1>4, SMT DEF Ntohl, SizeBytes

LEMMA MessageTyped ==
  ASSUME MessagesFit, NEW m \in Message
  PROVE  m \in Seq(0 .. 255) /\ Len(m) \in Nat /\ Len(m) > 0 /\ Len(m) < SizeLimit /\ m # <<>>
<1>1. m \in Seq(0 .. 255) /\ Len(m) \in Nat
  BY ByteAssumption
<1>2. Len(m) > 0 /\ Len(m) < SizeLimit
  BY DEF MessagesFit
<1>3. QED
  BY <1>1, <1>2

(* A unit is a sequence of bytes, and not empty.                           *)
LEMMA UnitTyped ==
  ASSUME MessagesFit, NEW s \in Seq(Message), NEW i \in 1 .. 2 * Len(s)
  PROVE  Unit(s, i) \in Seq(0 .. 255) /\ Len(Unit(s, i)) \in Nat /\ Len(Unit(s, i)) > 0
<1>1. CASE i % 2 = 1
  <2> DEFINE m == s[(i + 1) \div 2]
  <2>1. m \in Message
    <3>1. (i + 1) \div 2 \in 1 .. Len(s)
      BY <1>1
    <3>2. QED
      BY <3>1
  <2>2. Unit(s, i) = Htonl(Len(m))
    BY <1>1 DEF Unit
  <2> HIDE DEF m
  <2>3. Len(m) \in Nat /\ Len(m) < SizeLimit
    BY <2>1, MessageTyped
  <2>4. Htonl(Len(m)) \in Seq(0 .. 255) /\ Len(Htonl(Len(m))) = 4
    BY <2>3, SizeArrives DEF SizeBytes
  <2>5. QED
    BY <2>2, <2>4
<1>2. CASE i % 2 # 1
  <2>1. i \div 2 \in 1 .. Len(s)
    BY <1>2
  <2>2. Unit(s, i) \in Message
    BY <1>2, <2>1 DEF Unit
  <2>3. QED
    BY <2>2, MessageTyped
<1>3. QED
  BY <1>1, <1>2

(* The units of a message are its size and its bytes.                      *)
LEMMA UnitsOfMessage ==
  ASSUME NEW s, NEW k \in Nat
  PROVE  /\ Unit(s, 2 * k + 1) = Htonl(Len(s[k + 1]))
         /\ Unit(s, 2 * k + 2) = s[k + 1]
<1>1. (2 * k + 1) % 2 = 1 /\ ((2 * k + 1) + 1) \div 2 = k + 1
  OBVIOUS
<1>2. (2 * k + 2) % 2 # 1 /\ (2 * k + 2) \div 2 = k + 1
  OBVIOUS
<1>3. QED
  BY <1>1, <1>2 DEF Unit

(* Sending another message leaves the units of the earlier ones.           *)
LEMMA UnitsStay ==
  ASSUME NEW s \in Seq(Message), NEW m \in Message, NEW i \in 1 .. 2 * Len(s)
  PROVE  Unit(Append(s, m), i) = Unit(s, i)
<1>1. CASE i % 2 = 1
  <2>1. (i + 1) \div 2 \in 1 .. Len(s)
    BY <1>1
  <2>2. Append(s, m)[(i + 1) \div 2] = s[(i + 1) \div 2]
    BY <2>1
  <2>3. QED
    BY <1>1, <2>2 DEF Unit
<1>2. CASE i % 2 # 1
  <2>1. i \div 2 \in 1 .. Len(s)
    BY <1>2
  <2>2. Append(s, m)[i \div 2] = s[i \div 2]
    BY <2>1
  <2>3. QED
    BY <1>2, <2>2 DEF Unit
<1>3. QED
  BY <1>1, <1>2

-----------------------------------------------------------------------------
(* What carries units: more of them, one less, none, and longer histories. *)

LEMMA CarriesNone ==
  ASSUME NEW s, NEW from \in Nat
  PROVE  Carries(<<>>, s, from, from)
<1> DEFINE cut == [i \in from .. from |-> 0]
<1>1. cut \in [from .. from -> 0 .. Len(<<>>)] /\ CutAt(<<>>, s, from, from, cut)
  BY DEF CutAt
<1> HIDE DEF cut
<1>2. QED
  BY <1>1 DEF Carries

(* The next unit arrives.                                                  *)
LEMMA CarriesMore ==
  ASSUME MessagesFit,
         NEW s \in Seq(Message), NEW bytes \in Seq(0 .. 255),
         NEW from \in Nat, NEW last \in Nat, from <= last, last < 2 * Len(s),
         Carries(bytes, s, from, last)
  PROVE  Carries(bytes \o Unit(s, last + 1), s, from, last + 1)
<1> DEFINE u == Unit(s, last + 1)
           all == bytes \o u
<1>1. PICK cut \in [from .. last -> 0 .. Len(bytes)] : CutAt(bytes, s, from, last, cut)
  BY DEF Carries
<1>2. u \in Seq(0 .. 255) /\ Len(u) \in Nat /\ Len(u) > 0 /\ Len(bytes) \in Nat
  BY UnitTyped
<1>3. \A i \in from + 1 .. last : Len(Unit(s, i)) \in Nat
  BY UnitTyped
<1> HIDE DEF u
<1>4. Len(all) = Len(bytes) + Len(u)
  BY <1>2
<1>5. \A x \in 1 .. Len(bytes) : all[x] = bytes[x]
  BY <1>2
<1>6. \A x \in 1 .. Len(u) : all[Len(bytes) + x] = u[x]
  BY <1>2
<1> HIDE DEF all
<1> DEFINE more == [i \in from .. last + 1 |-> IF i = last + 1 THEN Len(all) ELSE cut[i]]
<1>7. more \in [from .. last + 1 -> 0 .. Len(all)]
  BY <1>2, <1>4
<1>8. /\ more[last + 1] = Len(all)
      /\ \A i \in from .. last : more[i] = cut[i]
  OBVIOUS
<1> HIDE DEF more
<1>9. more[from] = 0
  BY <1>1, <1>8 DEF CutAt
<1>10. \A i, j \in from .. last + 1 : i <= j => more[i] <= more[j]
  <2> SUFFICES ASSUME NEW i \in from .. last + 1, NEW j \in from .. last + 1, i <= j
               PROVE  more[i] <= more[j]
    OBVIOUS
  <2>1. CASE j = last + 1
    BY <1>2, <1>4, <1>7, <1>8, <2>1
  <2>2. CASE j # last + 1
    BY <1>1, <1>8, <2>2 DEF CutAt
  <2>3. QED
    BY <2>1, <2>2
<1>11. ASSUME NEW i \in from + 1 .. last + 1
       PROVE  /\ more[i] = more[i - 1] + Len(Unit(s, i))
              /\ \A x \in 1 .. Len(Unit(s, i)) : all[more[i - 1] + x] = Unit(s, i)[x]
  <2>1. CASE i = last + 1
    <3>1. Unit(s, i) = u /\ more[i - 1] = Len(bytes)
      BY <1>1, <1>8, <2>1 DEF u, CutAt
    <3>2. QED
      BY <1>4, <1>6, <1>8, <2>1, <3>1
  <2>2. CASE i # last + 1
    <3>1. i \in from + 1 .. last /\ i - 1 \in from .. last /\ i \in from .. last
      BY <2>2
    <3>2. /\ cut[i] = cut[i - 1] + Len(Unit(s, i))
          /\ \A x \in 1 .. Len(Unit(s, i)) : bytes[cut[i - 1] + x] = Unit(s, i)[x]
      BY <1>1, <3>1 DEF CutAt
    <3>3. cut[i] <= Len(bytes) /\ cut[i - 1] \in Nat /\ cut[i] \in Nat
      BY <1>2, <3>1
    <3>4. \A x \in 1 .. Len(Unit(s, i)) : cut[i - 1] + x \in 1 .. Len(bytes)
      BY <1>2, <1>3, <3>1, <3>2, <3>3
    <3>5. QED
      BY <1>5, <1>8, <3>1, <3>2, <3>4
  <2>3. QED
    BY <2>1, <2>2
<1>12. CutAt(all, s, from, last + 1, more)
  BY <1>8, <1>9, <1>10, <1>11 DEF CutAt
<1>13. QED
  BY <1>7, <1>12 DEF Carries, all, u

(* Bytes that carry something begin with the whole of the first unit.      *)
LEMMA CarriesFirst ==
  ASSUME MessagesFit,
         NEW s \in Seq(Message), NEW bytes \in Seq(0 .. 255),
         NEW from \in Nat, NEW last \in from .. 2 * Len(s),
         Carries(bytes, s, from, last), bytes # <<>>
  PROVE  LET u == Unit(s, from + 1)
         IN /\ from < last
            /\ Len(u) <= Len(bytes)
            /\ SubSeq(bytes, 1, Len(u)) = u
<1> DEFINE u == Unit(s, from + 1)
<1>1. PICK cut \in [from .. last -> 0 .. Len(bytes)] : CutAt(bytes, s, from, last, cut)
  BY DEF Carries
<1>2. Len(bytes) \in Nat /\ Len(bytes) > 0
  OBVIOUS
<1>3. from < last
  BY <1>1, <1>2 DEF CutAt
<1>4. u \in Seq(0 .. 255) /\ Len(u) \in Nat /\ Len(u) > 0
  BY <1>3, UnitTyped
<1>5. /\ cut[from + 1] = Len(u)
      /\ \A x \in 1 .. Len(u) : bytes[x] = u[x]
  <2>1. from + 1 \in from + 1 .. last /\ (from + 1) - 1 = from /\ cut[from] = 0
    BY <1>1, <1>3 DEF CutAt
  <2>2. /\ cut[from + 1] = 0 + Len(u)
        /\ \A x \in 1 .. Len(u) : bytes[0 + x] = u[x]
    BY <1>1, <2>1 DEF CutAt
  <2>3. QED
    BY <1>4, <2>2
<1>6. Len(u) <= Len(bytes)
  BY <1>2, <1>3, <1>5
<1> HIDE DEF u
<1>7. SubSeq(bytes, 1, Len(u)) = u
  <2>1. /\ SubSeq(bytes, 1, Len(u)) \in Seq(0 .. 255)
        /\ Len(SubSeq(bytes, 1, Len(u))) = Len(u)
        /\ \A x \in 1 .. Len(u) : SubSeq(bytes, 1, Len(u))[x] = bytes[x]
    <3>1. \A x \in 1 .. Len(u) : x \in 1 .. Len(bytes)
      BY <1>2, <1>4, <1>6
    <3>2. \A x \in 1 .. Len(bytes) : bytes[x] \in 0 .. 255
      BY ElementOfSeq
    <3>3. \A x \in 1 .. Len(u) : bytes[x] \in 0 .. 255
      BY <3>1, <3>2
    <3>4. QED
      BY <1>4, <3>3, SubSeqProperties
  <2>2. QED
    BY <1>4, <1>5, <2>1, SeqEqual
<1>8. QED
  BY <1>3, <1>6, <1>7 DEF u

(* Once that is taken, the rest carries the others.                        *)
LEMMA CarriesRest ==
  ASSUME MessagesFit,
         NEW s \in Seq(Message), NEW bytes \in Seq(0 .. 255),
         NEW from \in Nat, NEW last \in from .. 2 * Len(s),
         Carries(bytes, s, from, last), bytes # <<>>
  PROVE  Carries(SubSeq(bytes, Len(Unit(s, from + 1)) + 1, Len(bytes)), s, from + 1, last)
<1> DEFINE u == Unit(s, from + 1)
           k == Len(u)
           rest == SubSeq(bytes, k + 1, Len(bytes))
<1>1. PICK cut \in [from .. last -> 0 .. Len(bytes)] : CutAt(bytes, s, from, last, cut)
  BY DEF Carries
<1>2. from < last /\ k <= Len(bytes)
  BY CarriesFirst
<1>3. Len(bytes) \in Nat /\ k \in Nat
  BY <1>2, UnitTyped
<1>4. \A i \in from + 1 .. last : Len(Unit(s, i)) \in Nat
  BY UnitTyped
<1>5. cut[from + 1] = k
  <2>1. from + 1 \in from + 1 .. last /\ (from + 1) - 1 = from /\ cut[from] = 0
    BY <1>1, <1>2 DEF CutAt
  <2>2. cut[from + 1] = 0 + k
    BY <1>1, <2>1 DEF CutAt
  <2>3. QED
    BY <1>3, <2>2
<1> HIDE DEF k
<1>6. Len(rest) = Len(bytes) - k /\ \A x \in 1 .. Len(bytes) - k : rest[x] = bytes[k + x]
  BY <1>2, <1>3
<1> HIDE DEF rest
<1>7. \A i \in from + 1 .. last : cut[i] \in k .. Len(bytes)
  BY <1>1, <1>2, <1>3, <1>5 DEF CutAt
<1> DEFINE less == [i \in from + 1 .. last |-> cut[i] - k]
<1>8. less \in [from + 1 .. last -> 0 .. Len(rest)]
  BY <1>3, <1>6, <1>7
<1>9. \A i \in from + 1 .. last : less[i] = cut[i] - k
  OBVIOUS
<1> HIDE DEF less
<1>10. less[from + 1] = 0 /\ less[last] = Len(rest)
  <2>1. from + 1 \in from + 1 .. last /\ last \in from + 1 .. last
    BY <1>2
  <2>2. cut[last] = Len(bytes)
    BY <1>1 DEF CutAt
  <2>3. QED
    BY <1>3, <1>5, <1>6, <1>9, <2>1, <2>2
<1>11. \A i, j \in from + 1 .. last : i <= j => less[i] <= less[j]
  BY <1>1, <1>3, <1>7, <1>9 DEF CutAt
<1>12. ASSUME NEW i \in (from + 1) + 1 .. last
       PROVE  /\ less[i] = less[i - 1] + Len(Unit(s, i))
              /\ \A x \in 1 .. Len(Unit(s, i)) : rest[less[i - 1] + x] = Unit(s, i)[x]
  <2>1. i \in from + 1 .. last /\ i - 1 \in from + 1 .. last
    OBVIOUS
  <2>2. /\ cut[i] = cut[i - 1] + Len(Unit(s, i))
        /\ \A x \in 1 .. Len(Unit(s, i)) : bytes[cut[i - 1] + x] = Unit(s, i)[x]
    BY <1>1, <2>1 DEF CutAt
  <2>3. cut[i] \in k .. Len(bytes) /\ cut[i - 1] \in k .. Len(bytes)
    BY <1>7, <2>1
  <2>4. less[i] = cut[i] - k /\ less[i - 1] = cut[i - 1] - k
    BY <1>9, <2>1
  <2>5. less[i] = less[i - 1] + Len(Unit(s, i))
    BY <1>3, <1>4, <2>1, <2>2, <2>3, <2>4
  <2>6. ASSUME NEW x \in 1 .. Len(Unit(s, i))
        PROVE  rest[less[i - 1] + x] = Unit(s, i)[x]
    <3>1. less[i - 1] + x \in 1 .. Len(bytes) - k /\ k + (less[i - 1] + x) = cut[i - 1] + x
      <4>1. cut[i - 1] + x <= cut[i] /\ cut[i - 1] + x >= k + 1
        BY <1>3, <1>4, <2>1, <2>2, <2>3
      <4>2. \A a, b, y, n \in Int : /\ a + y <= b /\ a + y >= k + 1 /\ b <= n
                                    => (a - k) + y \in 1 .. n - k /\ k + ((a - k) + y) = a + y
        BY <1>3
      <4>3. x \in Int /\ Len(bytes) \in Int /\ cut[i] \in Int /\ cut[i - 1] \in Int
        BY <1>3, <1>4, <2>1, <2>3
      <4>4. cut[i] <= Len(bytes)
        BY <1>3, <2>3
      <4>5. QED
        BY <2>4, <4>1, <4>2, <4>3, <4>4
    <3>2. rest[less[i - 1] + x] = bytes[k + (less[i - 1] + x)]
      BY <1>6, <3>1
    <3>3. QED
      BY <2>2, <3>1, <3>2
  <2>7. QED
    BY <2>5, <2>6
<1>13. CutAt(rest, s, from + 1, last, less)
  BY <1>10, <1>11, <1>12 DEF CutAt
<1>14. QED
  BY <1>8, <1>13 DEF Carries, rest, k

(* Another message does not change what the bytes carry.                   *)
LEMMA CarriesStill ==
  ASSUME MessagesFit,
         NEW s \in Seq(Message), NEW m \in Message, NEW bytes,
         NEW from \in Nat, NEW last \in from .. 2 * Len(s),
         Carries(bytes, s, from, last)
  PROVE  Carries(bytes, Append(s, m), from, last)
<1>1. PICK cut \in [from .. last -> 0 .. Len(bytes)] : CutAt(bytes, s, from, last, cut)
  BY DEF Carries
<1>2. \A i \in from + 1 .. last : Unit(Append(s, m), i) = Unit(s, i)
  BY UnitsStay
<1>3. CutAt(bytes, Append(s, m), from, last, cut)
  BY <1>1, <1>2 DEF CutAt
<1>4. QED
  BY <1>3 DEF Carries

-----------------------------------------------------------------------------
(* Nothing is sent, and nothing on its way.                                *)
LEMMA InitIInv == Init => IInv
<1> SUFFICES ASSUME Init PROVE IInv
  OBVIOUS
<1> USE DEF Init
<1>1. TypeOK
  <2>1. buffer_size = Len(<<>>)
    OBVIOUS
  <2>2. QED
    BY <2>1 DEF TypeOK
<1>2. UnitsInOrder
  <2>1. Taken = 0 /\ Len(sent) = 0 /\ Len(flight) = 0
    BY DEF Taken
  <2>2. Carries(stream, sent, 0, 0)
    BY CarriesNone
  <2>3. Underway(0)
    BY <2>1 DEF Underway
  <2>4. QED
    BY <2>1, <2>2, <2>3 DEF UnitsInOrder
<1>3. EndsKnow /\ NeverAhead /\ ReceivedAsSent
  BY DEF EndsKnow, NeverAhead, ReceivedAsSent
<1>4. QED
  BY <1>1, <1>2, <1>3 DEF IInv

-----------------------------------------------------------------------------
(* connection_send: one more message, of which only the size is sent.      *)
LEMMA SendSizeKeeps ==
  ASSUME ArrivesWhole, IInv, NEW m \in Message, send_size(m)
  PROVE  IInv'
<1> USE DEF IInv
<1> DEFINE n == Len(sent)
           r == Len(received)
<1>1. /\ out = "idle" /\ out' = "data" /\ message' = m
      /\ sent' = Append(sent, m)
      /\ flight' = Append(flight, Htonl(Len(m)))
      /\ UNCHANGED <<stream, in, buffer_size, received>>
  BY DEF send_size, receiver
<1>2. /\ sent \in Seq(Message) /\ received \in Seq([size : Nat, data : Message])
      /\ flight \in Seq(Seq(0 .. 255)) /\ n \in Nat /\ r \in Nat
  BY DEF TypeOK
<1>3. /\ sent' \in Seq(Message) /\ Len(sent') = n + 1 /\ sent' # <<>>
      /\ sent'[n + 1] = m /\ \A i \in 1 .. n : sent'[i] = sent[i]
  BY <1>1, <1>2, AppendProperties
<1>4. Len(m) \in Nat /\ Len(m) < SizeLimit
  BY MessageTyped DEF ArrivesWhole
<1>5. Htonl(Len(m)) \in Seq(0 .. 255)
  BY <1>4, SizeArrives
<1>6. /\ flight' \in Seq(Seq(0 .. 255)) /\ Len(flight') = Len(flight) + 1
      /\ flight'[Len(flight) + 1] = Htonl(Len(m))
      /\ \A i \in 1 .. Len(flight) : flight'[i] = flight[i]
  BY <1>1, <1>2, <1>5
<1>7. TypeOK'
  BY <1>1, <1>3, <1>6 DEF TypeOK
<1>8. UnitsInOrder'
  <2> SUFFICES ASSUME in \in {"size", "data"} PROVE UnitsInOrder'
    BY <1>1 DEF UnitsInOrder
  <2>1. PICK last \in Taken .. 2 * n : Carries(stream, sent, Taken, last) /\ Underway(last)
    BY DEF UnitsInOrder
  <2>2. Taken' = Taken /\ Taken \in Nat
    BY <1>1, <1>2 DEF Taken
  <2>3. Carries(stream', sent', Taken', last)
    BY <1>1, <1>2, <2>1, <2>2, CarriesStill DEF ArrivesWhole
  <2>4. Len(flight) \in Nat /\ last \in Nat /\ last + Len(flight) = 2 * n
    BY <1>1, <1>2, <2>1, <2>2 DEF Underway
  <2> HIDE DEF n
  <2>5. n \in Nat
    BY <1>2
  <2>6. \A i \in 1 .. Len(flight) : flight'[i] = Unit(sent', last + i)
    <3> SUFFICES ASSUME NEW i \in 1 .. Len(flight) PROVE flight'[i] = Unit(sent', last + i)
      OBVIOUS
    <3>1. last + i \in 1 .. 2 * n
      BY <2>5, <2>4
    <3>2. Unit(sent', last + i) = Unit(sent, last + i)
      BY <1>1, <1>2, <3>1, UnitsStay DEF n
    <3>3. QED
      BY <1>6, <2>1, <3>2 DEF Underway
  <2>7. flight'[Len(flight) + 1] = Unit(sent', last + (Len(flight) + 1))
    <3>1. Unit(sent', 2 * n + 1) = Htonl(Len(m))
      BY <2>5, <1>3, UnitsOfMessage
    <3>2. last + (Len(flight) + 1) = 2 * n + 1
      BY <2>5, <2>4
    <3>3. QED
      BY <1>6, <3>1, <3>2
  <2>8. Underway(last)'
    <3>1. /\ last + Len(flight') <= 2 * Len(sent')
          /\ last + Len(flight') = 2 * Len(sent') - 1
      <4>1. \A k \in Nat : last + k = 2 * n => /\ last + (k + 1) <= 2 * (n + 1)
                                               /\ last + (k + 1) = 2 * (n + 1) - 1
        BY <2>5, <2>4
      <4>2. QED
        BY <1>3, <1>6, <2>4, <4>1
    <3>2. \A i \in 1 .. Len(flight') : flight'[i] = Unit(sent', last + i)
      <4> SUFFICES ASSUME NEW i \in 1 .. Len(flight') PROVE flight'[i] = Unit(sent', last + i)
        OBVIOUS
      <4>1. i \in 1 .. Len(flight) \/ i = Len(flight) + 1
        BY <1>6, <2>4
      <4>2. QED
        BY <4>1, <2>6, <2>7
    <3>3. QED
      BY <1>1, <3>1, <3>2 DEF Underway
  <2>9. last \in Taken' .. 2 * Len(sent')
    BY <1>2, <1>3, <2>2
  <2>10. QED
    BY <2>3, <2>8, <2>9 DEF UnitsInOrder
<1>9. EndsKnow'
  <2>1. in = "data" => r + 1 \in 1 .. n
    BY <1>2 DEF EndsKnow
  <2>2. in' = "data" => r < Len(sent') /\ buffer_size' = Len(sent'[r + 1])
    BY <1>1, <1>2, <1>3, <2>1 DEF EndsKnow
  <2>3. sent' # <<>> /\ message' = sent'[Len(sent')]
    BY <1>1, <1>3
  <2>4. QED
    BY <1>1, <2>2, <2>3 DEF EndsKnow
<1>10. NeverAhead'
  BY <1>1, <1>2, <1>3 DEF NeverAhead
<1>11. ReceivedAsSent'
  <2>1. \A i \in DOMAIN received : i \in 1 .. n
    BY <1>2 DEF NeverAhead
  <2>2. QED
    BY <1>1, <1>3, <2>1 DEF ReceivedAsSent
<1>12. QED
  BY <1>7, <1>8, <1>9, <1>10, <1>11

(* Then its bytes.                                                         *)
LEMMA SendDataKeeps ==
  ASSUME ArrivesWhole, IInv, send_data
  PROVE  IInv'
<1> USE DEF IInv
<1> DEFINE n == Len(sent)
<1>1. /\ out = "data" /\ out' = "idle"
      /\ UNCHANGED <<message, sent, stream, in, buffer_size, received>>
  BY DEF send_data, receiver
<1>2. /\ sent \in Seq(Message) /\ n \in Nat /\ n > 0
      /\ received \in Seq([size : Nat, data : Message])
      /\ flight \in Seq(Seq(0 .. 255)) /\ Len(flight) \in Nat
  BY <1>1 DEF TypeOK, EndsKnow
<1>3. message = sent[n] /\ message \in Message
  BY <1>1, <1>2 DEF EndsKnow
<1>4. message \in Seq(0 .. 255) /\ message # <<>>
  BY <1>3, MessageTyped DEF ArrivesWhole
<1>5. flight' = Append(flight, message)
  BY <1>4 DEF send_data
<1>6. /\ flight' \in Seq(Seq(0 .. 255)) /\ Len(flight') = Len(flight) + 1
      /\ flight'[Len(flight) + 1] = message
      /\ \A i \in 1 .. Len(flight) : flight'[i] = flight[i]
  BY <1>2, <1>4, <1>5
<1>7. TypeOK'
  BY <1>1, <1>6 DEF TypeOK
<1>8. UnitsInOrder'
  <2> SUFFICES ASSUME in \in {"size", "data"} PROVE UnitsInOrder'
    BY <1>1 DEF UnitsInOrder
  <2>1. PICK last \in Taken .. 2 * n : Carries(stream, sent, Taken, last) /\ Underway(last)
    BY DEF UnitsInOrder
  <2>2. Taken' = Taken /\ Taken \in Nat
    BY <1>1, <1>2 DEF Taken
  <2>3. last \in Nat /\ last + Len(flight) = 2 * n - 1
    BY <1>1, <2>1, <2>2 DEF Underway
  <2>4. flight'[Len(flight) + 1] = Unit(sent', last + (Len(flight) + 1))
    <3>1. n - 1 \in Nat /\ 2 * (n - 1) + 2 = 2 * n /\ (n - 1) + 1 = n
      BY <1>2
    <3>2. Unit(sent, 2 * n) = message
      BY <1>3, <3>1, UnitsOfMessage
    <3>3. last + (Len(flight) + 1) = 2 * n
      BY <1>2, <2>3
    <3>4. QED
      BY <1>1, <1>6, <3>2, <3>3
  <2>5. \A i \in 1 .. Len(flight) : flight'[i] = Unit(sent', last + i)
    BY <1>1, <1>6, <2>1 DEF Underway
  <2>6. Underway(last)'
    <3>1. last + Len(flight') <= 2 * Len(sent') /\ last + Len(flight') = 2 * Len(sent')
      BY <1>1, <1>2, <1>6, <2>3
    <3>2. \A i \in 1 .. Len(flight') : flight'[i] = Unit(sent', last + i)
      <4> SUFFICES ASSUME NEW i \in 1 .. Len(flight') PROVE flight'[i] = Unit(sent', last + i)
        OBVIOUS
      <4>1. i \in 1 .. Len(flight) \/ i = Len(flight) + 1
        BY <1>2, <1>6
      <4>2. QED
        BY <4>1, <2>4, <2>5
    <3>3. QED
      BY <1>1, <3>1, <3>2 DEF Underway
  <2>7. QED
    BY <1>1, <2>1, <2>2, <2>6 DEF UnitsInOrder
<1>9. EndsKnow' /\ ReceivedAsSent' /\ NeverAhead'
  BY <1>1, <1>2 DEF EndsKnow, ReceivedAsSent, NeverAhead
<1>10. QED
  BY <1>7, <1>8, <1>9

(* Nobody receives any more: what was sent only has a history.             *)
LEMMA SendFailsKeeps ==
  ASSUME IInv, NEW m \in Message, send_fails(m)
  PROVE  IInv'
<1> USE DEF IInv
<1> DEFINE n == Len(sent)
<1>1. /\ in \in {"dropped", "ended"} /\ out' = "idle"
      /\ UNCHANGED <<flight, stream, in, buffer_size, received>>
  BY DEF send_fails, receiver
<1>2. /\ sent \in Seq(Message) /\ n \in Nat
      /\ received \in Seq([size : Nat, data : Message]) /\ Len(received) \in Nat
      /\ flight \in Seq(Seq(0 .. 255)) /\ stream \in Seq(0 .. 255)
  BY DEF TypeOK
<1>3. \/ sent' = Append(sent, m) /\ message' = m
      \/ UNCHANGED <<message, sent>>
  BY DEF send_fails
<1>4. /\ sent' \in Seq(Message) /\ Len(sent') \in Nat /\ n <= Len(sent')
      /\ \A i \in 1 .. n : sent'[i] = sent[i]
  <2>1. CASE sent' = Append(sent, m)
    BY <1>2, <2>1
  <2>2. CASE sent' = sent
    BY <1>2, <2>2
  <2>3. QED
    BY <1>3, <2>1, <2>2
<1>5. TypeOK'
  BY <1>1, <1>3, <1>4 DEF TypeOK
<1>6. UnitsInOrder' /\ EndsKnow'
  BY <1>1 DEF UnitsInOrder, EndsKnow
<1>7. NeverAhead'
  BY <1>1, <1>2, <1>4 DEF NeverAhead
<1>8. ReceivedAsSent'
  <2>1. \A i \in DOMAIN received : i \in 1 .. n
    BY <1>2 DEF NeverAhead
  <2>2. QED
    BY <1>1, <1>4, <2>1 DEF ReceivedAsSent
<1>9. QED
  BY <1>5, <1>6, <1>7, <1>8

(* Whichever way the sending end goes, what remains is a beginning of what *)
(* was on its way.                                                         *)
LEMMA SenderEndKeeps ==
  ASSUME IInv, sender_leaves \/ sender_crashes
  PROVE  IInv'
<1> USE DEF IInv
<1>1. /\ out' \in Closed /\ UNCHANGED <<message, sent, in, buffer_size, received>>
      /\ Taken' = Taken
  BY DEF sender_leaves, sender_crashes, receiver, Closed, Taken
<1>2. flight' \in {flight, <<>>} /\ stream' \in {stream, <<>>}
  BY DEF sender_leaves, sender_crashes
<1>3. TypeOK'
  <2>1. flight \in Seq(Seq(0 .. 255)) /\ stream \in Seq(0 .. 255)
    BY DEF TypeOK
  <2>2. flight' \in Seq(Seq(0 .. 255)) /\ stream' \in Seq(0 .. 255)
    BY <1>2, <2>1, EmptySeq
  <2>3. QED
    BY <1>1, <2>2 DEF TypeOK
<1>4. EndsKnow' /\ ReceivedAsSent' /\ NeverAhead'
  BY <1>1, <1>2 DEF EndsKnow, ReceivedAsSent, NeverAhead, Closed
<1>5. UnitsInOrder'
  <2> SUFFICES ASSUME in \in {"size", "data"} PROVE UnitsInOrder'
    BY <1>1 DEF UnitsInOrder
  <2>1. PICK last \in Taken .. 2 * Len(sent) : Carries(stream, sent, Taken, last) /\ Underway(last)
    BY DEF UnitsInOrder
  <2>2. Taken \in Nat /\ Len(sent) \in Nat /\ Len(flight) \in Nat
    BY DEF Taken, TypeOK
  <2>3. CASE sender_leaves
    BY <1>1, <2>1, <2>3 DEF sender_leaves, receiver, UnitsInOrder, Underway
  <2>4. CASE sender_crashes /\ stream' = stream
    <3>1. Underway(last)'
      BY <1>1, <2>1, <2>2, <2>4 DEF sender_crashes, Underway
    <3>2. QED
      BY <1>1, <2>1, <2>4, <3>1 DEF UnitsInOrder
  <2>5. CASE sender_crashes /\ stream' = <<>>
    <3>1. Carries(stream', sent', Taken', Taken')
      BY <1>1, <2>2, <2>5, CarriesNone
    <3>2. Underway(Taken)'
      BY <1>1, <2>1, <2>2, <2>5 DEF sender_crashes, Underway
    <3>3. Taken' \in Taken' .. 2 * Len(sent')
      BY <1>1, <2>1, <2>2
    <3>4. QED
      BY <3>1, <3>2, <3>3 DEF UnitsInOrder
  <2>6. QED
    BY <2>3, <2>4, <2>5 DEF sender_crashes
<1>6. QED
  BY <1>3, <1>4, <1>5

(* The oldest unit under way arrives.                                      *)
LEMMA ArriveKeeps ==
  ASSUME ArrivesWhole, IInv, arrive
  PROVE  IInv'
<1> USE DEF IInv
<1> DEFINE u == Head(flight)
<1>1. /\ flight # <<>>
      /\ UNCHANGED <<out, message, sent, in, buffer_size, received>>
      /\ Taken' = Taken
  BY DEF arrive, sender, receiver, Taken
<1>2. /\ flight \in Seq(Seq(0 .. 255)) /\ stream \in Seq(0 .. 255)
      /\ sent \in Seq(Message) /\ Len(sent) \in Nat /\ Len(flight) \in Nat
      /\ Len(received) \in Nat
  BY DEF TypeOK
<1>3. u \in Seq(0 .. 255) /\ u = flight[1] /\ Len(u) \in Nat
  BY <1>1, <1>2
<1>4. /\ stream' = stream \o u
      /\ flight' = Tail(flight)
  <2>1. Arriving = {Len(u)}
    BY DEF Arriving, ArrivesWhole
  <2>2. SubSeq(u, 1, Len(u)) = u
    BY <1>3, SubSeqFull
  <2>3. QED
    BY <2>1, <2>2 DEF arrive
<1>5. /\ flight' \in Seq(Seq(0 .. 255)) /\ Len(flight') = Len(flight) - 1
      /\ \A i \in 1 .. Len(flight) - 1 : flight'[i] = flight[i + 1]
      /\ stream' \in Seq(0 .. 255)
  BY <1>1, <1>2, <1>3, <1>4, HeadTailProperties
<1>6. TypeOK'
  BY <1>1, <1>5 DEF TypeOK
<1>7. EndsKnow' /\ ReceivedAsSent'
  BY <1>1 DEF EndsKnow, ReceivedAsSent
<1>8. NeverAhead'
  BY <1>1 DEF NeverAhead
<1>9. UnitsInOrder'
  <2> SUFFICES ASSUME in \in {"size", "data"} PROVE UnitsInOrder'
    BY <1>1 DEF UnitsInOrder
  <2>1. PICK last \in Taken .. 2 * Len(sent) : Carries(stream, sent, Taken, last) /\ Underway(last)
    BY DEF UnitsInOrder
  <2>2. Taken \in Nat /\ last \in Nat /\ Len(flight) > 0
    BY <1>1, <1>2 DEF Taken
  <2>3. last < 2 * Len(sent) /\ u = Unit(sent, last + 1)
    BY <1>2, <1>3, <2>1, <2>2 DEF Underway
  <2>4. Carries(stream', sent', Taken', last + 1)
    BY <1>1, <1>2, <1>4, <2>1, <2>2, <2>3, CarriesMore DEF ArrivesWhole
  <2>5. (last + 1) + Len(flight') = last + Len(flight)
    BY <1>2, <1>5, <2>2
  <2>6. \A i \in 1 .. Len(flight') : flight'[i] = Unit(sent', (last + 1) + i)
    <3> SUFFICES ASSUME NEW i \in 1 .. Len(flight')
                 PROVE  flight'[i] = Unit(sent', (last + 1) + i)
      OBVIOUS
    <3>1. i + 1 \in 1 .. Len(flight) /\ last + (i + 1) = (last + 1) + i
      BY <1>2, <1>5, <2>2
    <3>2. flight'[i] = Unit(sent, last + (i + 1))
      BY <1>2, <1>5, <2>1, <3>1 DEF Underway
    <3>3. QED
      BY <1>1, <3>1, <3>2
  <2>7. Underway(last + 1)'
    BY <1>1, <2>1, <2>5, <2>6 DEF Underway
  <2>8. last + 1 \in Taken' .. 2 * Len(sent')
    BY <1>1, <1>2, <2>2, <2>3
  <2>9. QED
    BY <2>4, <2>7, <2>8 DEF UnitsInOrder
<1>10. QED
  BY <1>6, <1>7, <1>8, <1>9

-----------------------------------------------------------------------------
(* recv() of the length of the next unit returns that unit, and leaves the *)
(* others in order.                                                        *)
LEMMA TakesUnit ==
  ASSUME ArrivesWhole, IInv, in \in {"size", "data"}, stream # <<>>
  PROVE  LET u == Unit(sent, Taken + 1)
         IN /\ u \in Seq(0 .. 255)
            /\ Got(Len(u)) = u
            /\ Left(u) \in Seq(0 .. 255)
            /\ \E last \in Taken + 1 .. 2 * Len(sent) :
                 Carries(Left(u), sent, Taken + 1, last) /\ Underway(last)
<1> DEFINE u == Unit(sent, Taken + 1)
<1>1. /\ sent \in Seq(Message) /\ stream \in Seq(0 .. 255)
      /\ Len(received) \in Nat /\ Taken \in Nat /\ MessagesFit
  BY DEF IInv, TypeOK, Taken, ArrivesWhole
<1>2. PICK last \in Taken .. 2 * Len(sent) : Carries(stream, sent, Taken, last) /\ Underway(last)
  BY DEF IInv, UnitsInOrder
<1>3. /\ Taken < last
      /\ Len(u) <= Len(stream)
      /\ SubSeq(stream, 1, Len(u)) = u
  BY <1>1, <1>2, CarriesFirst
<1>4. Carries(Left(u), sent, Taken + 1, last)
  BY <1>1, <1>2, CarriesRest DEF Left
<1>5. u \in Seq(0 .. 255) /\ Len(u) \in Nat
  <2>1. Taken + 1 \in 1 .. 2 * Len(sent)
    BY <1>1, <1>2, <1>3
  <2>2. QED
    BY <1>1, <2>1, UnitTyped
<1> HIDE DEF u
<1>6. Got(Len(u)) = u
  BY <1>3 DEF Got
<1>7. Left(u) \in Seq(0 .. 255)
  <2>1. \A x \in Len(u) + 1 .. Len(stream) : stream[x] \in 0 .. 255
    <3>1. \A x \in Len(u) + 1 .. Len(stream) : x \in 1 .. Len(stream)
      BY <1>1, <1>5
    <3>2. QED
      BY <1>1, <3>1, ElementOfSeq
  <2>2. Len(u) + 1 \in Int /\ Len(stream) \in Int
    BY <1>1, <1>5
  <2>3. QED
    BY <2>1, <2>2, SubSeqProperties DEF Left
<1>8. last \in Taken + 1 .. 2 * Len(sent)
  BY <1>1, <1>2, <1>3
<1>9. QED
  BY <1>2, <1>4, <1>5, <1>6, <1>7, <1>8 DEF u

(* A full size leaves nothing of network_size uninitialised.                *)
LEMMA NoJunk ==
  ASSUME NEW junk \in [1 .. 0 -> Junk], NEW bytes \in Seq(0 .. 255)
  PROVE  bytes \o junk = bytes
<1>1. junk \in Seq(Junk) /\ Len(junk) = 0
  OBVIOUS
<1>2. junk = <<>>
  BY <1>1, EmptySeq
<1>3. QED
  BY <1>2, ConcatEmptySeq

(* connection_recv: the size of the next message.                          *)
LEMMA RecvSizeKeeps ==
  ASSUME ArrivesWhole, IInv, recv_size
  PROVE  IInv'
<1> DEFINE r == Len(received)
           u == Unit(sent, Taken + 1)
           m == sent[r + 1]
<1>1. /\ in = "size" /\ in' = "data" /\ stream # <<>>
      /\ UNCHANGED <<out, message, sent, flight, received>>
  BY DEF recv_size, sender
<1>2. /\ sent \in Seq(Message) /\ Len(sent) \in Nat /\ r \in Nat /\ r < Len(sent)
      /\ received \in Seq([size : Nat, data : Message])
  BY <1>1 DEF IInv, TypeOK, NeverAhead
<1>3. Taken = 2 * r /\ Taken' = Taken + 1
  BY <1>1, <1>2 DEF Taken
<1>4. /\ u \in Seq(0 .. 255)
      /\ Got(Len(u)) = u
      /\ Left(u) \in Seq(0 .. 255)
      /\ \E last \in Taken + 1 .. 2 * Len(sent) :
           Carries(Left(u), sent, Taken + 1, last) /\ Underway(last)
  BY <1>1, TakesUnit
<1>5. m \in Message /\ Len(m) \in Nat /\ Len(m) < SizeLimit
  BY <1>2, MessageTyped DEF ArrivesWhole
<1>6. u = Htonl(Len(m)) /\ Len(u) = SizeBytes /\ Ntohl(u) = Len(m)
  <2>1. u = Htonl(Len(m))
    BY <1>2, <1>3, UnitsOfMessage
  <2>2. QED
    BY <1>5, <2>1, SizeArrives
<1> HIDE DEF u
<1>7. stream' = Left(u) /\ buffer_size' = Len(m)
  <2>1. Got(SizeBytes) = u
    BY <1>4, <1>6
  <2>2. PICK junk \in [1 .. SizeBytes - Len(u) -> Junk] : buffer_size' = Ntohl(u \o junk)
    BY <2>1 DEF recv_size
  <2>3. SizeBytes - Len(u) = 0
    BY <1>6 DEF SizeBytes
  <2>4. u \o junk = u
    BY <1>4, <2>3, NoJunk
  <2>5. stream' = Left(u)
    BY <2>1 DEF recv_size
  <2>6. QED
    BY <1>6, <2>2, <2>4, <2>5
<1>8. TypeOK'
  BY <1>1, <1>4, <1>5, <1>7 DEF TypeOK, IInv
<1>9. UnitsInOrder'
  BY <1>1, <1>3, <1>4, <1>7 DEF UnitsInOrder, Underway
<1>10. EndsKnow'
  BY <1>1, <1>2, <1>7 DEF EndsKnow, IInv
<1>11. NeverAhead' /\ ReceivedAsSent'
  BY <1>1, <1>2 DEF NeverAhead, ReceivedAsSent, IInv
<1>12. QED
  BY <1>8, <1>9, <1>10, <1>11 DEF IInv

(* The message itself.                                                     *)
LEMMA RecvDataKeeps ==
  ASSUME ArrivesWhole, IInv, recv_data
  PROVE  /\ IInv'
         /\ Len(received) < Len(sent)
         /\ received' = Append(received, [size |-> Len(sent[Len(received) + 1]),
                                          data |-> sent[Len(received) + 1]])
<1> DEFINE r == Len(received)
           n == Len(sent)
           u == Unit(sent, Taken + 1)
           m == sent[r + 1]
           entry == [size |-> Len(m), data |-> m]
<1>1. /\ in = "data" /\ in' = "size" /\ stream # <<>>
      /\ UNCHANGED <<out, message, sent, flight, buffer_size>>
  BY DEF recv_data, sender
<1>2. /\ sent \in Seq(Message) /\ n \in Nat /\ r \in Nat /\ r < n
      /\ received \in Seq([size : Nat, data : Message])
      /\ flight \in Seq(Seq(0 .. 255))
      /\ buffer_size = Len(m)
  BY <1>1 DEF IInv, TypeOK, EndsKnow
<1>3. Taken = 2 * r + 1 /\ Taken + 1 = 2 * r + 2
  BY <1>1, <1>2 DEF Taken
<1>4. /\ u \in Seq(0 .. 255)
      /\ Got(Len(u)) = u
      /\ Left(u) \in Seq(0 .. 255)
      /\ \E last \in Taken + 1 .. 2 * Len(sent) :
           Carries(Left(u), sent, Taken + 1, last) /\ Underway(last)
  BY <1>1, TakesUnit
<1>5. m \in Message /\ Len(m) \in Nat
  BY <1>2, MessageTyped DEF ArrivesWhole
<1>6. u = m
  BY <1>2, <1>3, UnitsOfMessage
<1>7. stream' = Left(m) /\ received' = Append(received, entry)
  BY <1>2, <1>4, <1>6 DEF recv_data
<1>8. entry \in [size : Nat, data : Message]
  BY <1>5
<1> HIDE DEF u, entry
<1>9. /\ received' \in Seq([size : Nat, data : Message])
      /\ Len(received') = r + 1
      /\ received'[r + 1] = entry
      /\ \A i \in 1 .. r : received'[i] = received[i]
  BY <1>2, <1>7, <1>8, AppendProperties
<1>10. Taken' = Taken + 1 /\ Taken' = 2 * (r + 1)
  BY <1>1, <1>2, <1>3, <1>9 DEF Taken
<1>11. TypeOK'
  BY <1>1, <1>4, <1>6, <1>7, <1>9 DEF TypeOK, IInv
<1>12. PICK last \in Taken' .. 2 * Len(sent') : Carries(stream', sent', Taken', last) /\ Underway(last)'
  BY <1>1, <1>4, <1>6, <1>7, <1>10 DEF Underway
<1>13. UnitsInOrder'
  BY <1>12 DEF UnitsInOrder
<1>14. EndsKnow'
  BY <1>1 DEF EndsKnow, IInv
<1>15. ReceivedAsSent'
  <2> SUFFICES ASSUME NEW i \in 1 .. r + 1
               PROVE  received'[i] = [size |-> Len(sent[i]), data |-> sent[i]]
    BY <1>1, <1>2, <1>9 DEF ReceivedAsSent
  <2>1. CASE i = r + 1
    BY <1>9, <2>1 DEF entry
  <2>2. CASE i \in 1 .. r
    <3>1. i \in DOMAIN received
      BY <1>2, <2>2
    <3>2. QED
      BY <1>9, <2>2, <3>1 DEF ReceivedAsSent, IInv
  <2>3. i = r + 1 \/ i \in 1 .. r
    <3>1. r \in Nat
      BY <1>2
    <3>2. QED
      BY <3>1
  <2>4. QED
    BY <2>1, <2>2, <2>3
<1>16. NeverAhead'
  <2>1. CASE r + 1 < n
    BY <1>1, <1>2, <1>9, <2>1 DEF NeverAhead
  <2>2. CASE r + 1 = n
    <3>1. last \in 2 * n .. 2 * n /\ Carries(stream', sent, 2 * n, last)
      BY <1>1, <1>10, <1>12, <2>2
    <3>2. stream' \in Seq(0 .. 255) /\ Len(flight) \in Nat /\ MessagesFit /\ 2 * n \in Nat
      BY <1>2, <1>11 DEF TypeOK, ArrivesWhole
    <3>3. last = 2 * n
      BY <1>2, <3>1
    <3>4. stream' = <<>>
      <4>1. ASSUME stream' # <<>> PROVE 2 * n < last
        BY <1>2, <3>1, <3>2, <4>1, CarriesFirst
      <4>2. QED
        BY <3>2, <3>3, <4>1
    <3>5. /\ 2 * n + Len(flight) <= 2 * n
          /\ out = "data" => 2 * n + Len(flight) = 2 * n - 1
      BY <1>1, <1>12, <3>3 DEF Underway
    <3>6. Len(flight) = 0 /\ out # "data"
      BY <3>2, <3>5
    <3>7. flight = <<>>
      BY <1>2, <3>6, EmptySeq
    <3>8. QED
      BY <1>1, <1>2, <1>9, <2>2, <3>4, <3>6, <3>7 DEF NeverAhead
  <2>3. QED
    BY <1>2, <2>1, <2>2
<1>17. QED
  BY <1>2, <1>7, <1>11, <1>13, <1>14, <1>15, <1>16 DEF IInv, entry

(* The end of file, and the end of the receiving process.                  *)
LEMMA ReceiverEndKeeps ==
  ASSUME IInv, recv_nothing \/ receiver_ends
  PROVE  IInv'
<1>1. /\ in' \in {"dropped", "ended"}
      /\ UNCHANGED <<out, message, sent, flight, stream, buffer_size, received>>
  BY DEF recv_nothing, receiver_ends, sender
<1>2. TypeOK'
  BY <1>1 DEF TypeOK, IInv
<1>3. UnitsInOrder' /\ EndsKnow' /\ NeverAhead' /\ ReceivedAsSent'
  BY <1>1 DEF UnitsInOrder, EndsKnow, NeverAhead, ReceivedAsSent, IInv
<1>4. QED
  BY <1>2, <1>3 DEF IInv

LEMMA NextKeeps ==
  ASSUME ArrivesWhole, IInv, [Next]_vars
  PROVE  IInv'
<1>1. CASE connection_send
  BY <1>1, SendSizeKeeps, SendFailsKeeps, SendDataKeeps DEF connection_send
<1>2. CASE sender_leaves \/ sender_crashes
  BY <1>2, SenderEndKeeps
<1>3. CASE arrive
  BY <1>3, ArriveKeeps
<1>4. CASE connection_recv \/ receiver_ends
  BY <1>4, RecvSizeKeeps, RecvDataKeeps, ReceiverEndKeeps DEF connection_recv
<1>5. CASE UNCHANGED vars
  BY <1>5
  DEF IInv, TypeOK, UnitsInOrder, EndsKnow, NeverAhead, ReceivedAsSent, Taken, Underway,
      vars, sender, receiver
<1>6. QED
  BY <1>1, <1>2, <1>3, <1>4, <1>5 DEF Next

LEMMA Inductive ==
  ASSUME ArrivesWhole
  PROVE  Spec => []IInv
<1>1. IInv /\ [Next]_vars => IInv'
  BY NextKeeps
<1>2. QED
  BY <1>1, InitIInv, PTL DEF Spec

-----------------------------------------------------------------------------
(* Every size received is that of a message, and every message received is *)
(* one that may be sent.                                                   *)
THEOREM TypeCorrect ==
  ASSUME ArrivesWhole
  PROVE  Spec => []TypeOK
<1>1. IInv => TypeOK
  BY DEF IInv
<1>2. QED
  BY <1>1, Inductive, PTL

(* connection_recv never takes bytes of a message for a size, nor a size   *)
(* for bytes of a message, though nothing on the wire tells them apart.    *)
THEOREM FramesAlwaysAligned ==
  ASSUME ArrivesWhole
  PROVE  Spec => []FramesAligned
<1>1. ASSUME IInv PROVE FramesAligned
  <2> DEFINE next == sent[Len(received) + 1]
             begins(bytes) == Len(bytes) <= Len(stream) /\ SubSeq(stream, 1, Len(bytes)) = bytes
  <2> SUFFICES ASSUME stream # <<>>
               PROVE  /\ Len(received) < Len(sent)
                      /\ in = "size" => begins(Htonl(Len(next)))
                      /\ in = "data" => begins(next)
    BY DEF FramesAligned
  <2>1. Len(received) < Len(sent)
    BY <1>1 DEF IInv, NeverAhead
  <2>2. /\ sent \in Seq(Message) /\ stream \in Seq(0 .. 255) /\ Len(received) \in Nat
        /\ Taken \in Nat /\ MessagesFit
    BY <1>1 DEF IInv, TypeOK, Taken, ArrivesWhole
  <2>3. ASSUME in \in {"size", "data"} PROVE begins(Unit(sent, Taken + 1))
    <3>1. PICK last \in Taken .. 2 * Len(sent) : Carries(stream, sent, Taken, last)
      BY <1>1, <2>3 DEF IInv, UnitsInOrder
    <3>2. QED
      BY <2>2, <3>1, CarriesFirst
  <2>4. in = "size" => Unit(sent, Taken + 1) = Htonl(Len(next))
    BY <2>2, UnitsOfMessage DEF Taken
  <2>5. in = "data" => Unit(sent, Taken + 1) = next
    <3>1. in = "data" => Taken + 1 = 2 * Len(received) + 2
      BY <2>2 DEF Taken
    <3>2. QED
      BY <2>2, <3>1, UnitsOfMessage
  <2>6. QED
    BY <2>1, <2>3, <2>4, <2>5
<1>2. QED
  BY <1>1, Inductive, PTL

(* Where a send() arrives as one piece, every message that is constructed  *)
(* consists of bytes that came in.                                         *)
THEOREM MessagesAlwaysWhole ==
  ASSUME ArrivesWhole
  PROVE  Spec => []WholeMessages
<1>1. IInv => WholeMessages
  BY DEF IInv, ReceivedAsSent, WholeMessages
<1>2. QED
  BY <1>1, Inductive, PTL

-----------------------------------------------------------------------------
(* The messages that the abstract channel has delivered.                   *)
Delivered == [i \in DOMAIN received |-> received[i].data]

LEMMA DeliveredTyped ==
  ASSUME TypeOK
  PROVE  Delivered \in Seq(Message) /\ Len(Delivered) = Len(received)
<1>1. received \in Seq([size : Nat, data : Message])
  BY DEF TypeOK
<1>2. DOMAIN received = 1 .. Len(received) /\ Len(received) \in Nat
  BY <1>1
<1>3. \A i \in 1 .. Len(received) : received[i].data \in Message
  <2>1. \A i \in 1 .. Len(received) : received[i] \in [size : Nat, data : Message]
    BY <1>1, ElementOfSeq
  <2>2. QED
    BY <2>1
<1>4. QED
  BY <1>2, <1>3 DEF Delivered

(* A message that recv_data returns is delivered behind the others.        *)
LEMMA DeliversNext ==
  ASSUME ArrivesWhole, IInv, recv_data
  PROVE  Delivered' = Append(Delivered, sent[Len(Delivered) + 1])
<1> DEFINE r == Len(received)
           m == sent[r + 1]
           entry == [size |-> Len(m), data |-> m]
<1>1. received' = Append(received, entry) /\ IInv' /\ r < Len(sent)
  BY RecvDataKeeps
<1>2. /\ received \in Seq([size : Nat, data : Message]) /\ r \in Nat
      /\ received' \in Seq([size : Nat, data : Message])
      /\ sent \in Seq(Message) /\ Len(sent) \in Nat
  BY <1>1 DEF IInv, TypeOK
<1>3. m \in Message
  BY <1>1, <1>2
<1>4. entry \in [size : Nat, data : Message]
  BY <1>3, MessageTyped DEF ArrivesWhole
<1>5. /\ Delivered \in Seq(Message) /\ Len(Delivered) = r
      /\ Delivered = [i \in DOMAIN received |-> received[i].data]
      /\ DOMAIN received = 1 .. r
  BY <1>2, DeliveredTyped DEF Delivered, IInv
<1>6. entry.data = m
  OBVIOUS
<1> HIDE DEF m, entry
<1>7. /\ Len(received') = r + 1
      /\ received'[r + 1] = entry
      /\ \A i \in 1 .. r : received'[i] = received[i]
      /\ DOMAIN received' = 1 .. r + 1
  BY <1>1, <1>2, <1>4, AppendProperties, LenProperties
<1>8. Delivered' = [i \in 1 .. r + 1 |-> received'[i].data]
  BY <1>7 DEF Delivered
<1>9. \A i \in 1 .. r + 1 : received'[i].data \in Message
  <2>1. \A i \in 1 .. r + 1 : received'[i] \in [size : Nat, data : Message]
    BY <1>2, <1>7, ElementOfSeq
  <2>2. QED
    BY <2>1
<1>10. Delivered' \in Seq(Message) /\ Len(Delivered') = r + 1
  BY <1>2, <1>8, <1>9
<1>11. /\ Append(Delivered, m) \in Seq(Message) /\ Len(Append(Delivered, m)) = r + 1
       /\ Append(Delivered, m)[r + 1] = m
       /\ \A i \in 1 .. r : Append(Delivered, m)[i] = Delivered[i]
  BY <1>3, <1>5, AppendProperties
<1>12. \A i \in 1 .. r + 1 : Delivered'[i] = Append(Delivered, m)[i]
  <2> SUFFICES ASSUME NEW i \in 1 .. r + 1 PROVE Delivered'[i] = Append(Delivered, m)[i]
    OBVIOUS
  <2>1. CASE i = r + 1
    BY <1>6, <1>7, <1>8, <1>11, <2>1
  <2>2. CASE i \in 1 .. r
    BY <1>5, <1>7, <1>8, <1>11, <2>2
  <2>3. i = r + 1 \/ i \in 1 .. r
    <3>1. r \in Nat
      BY <1>2
    <3>2. QED
      BY <3>1
  <2>4. QED
    BY <2>1, <2>2, <2>3
<1>13. Delivered' = Append(Delivered, m)
  BY <1>10, <1>11, <1>12, SeqEqual
<1>14. QED
  BY <1>5, <1>13 DEF m

(* Every step of connection.c is a step of the channel or none at all: a   *)
(* message counts as sent with its size, and as received with its bytes.   *)
LEMMA StepRefines ==
  ASSUME ArrivesWhole, IInv, [Next]_vars
  PROVE  [C!Next]_(C!vars)
<1> USE DEF C!Next, C!vars
<1>1. CASE connection_send
  <2>1. UNCHANGED <<in, received>>
    BY <1>1 DEF connection_send, send_size, send_data, send_fails, receiver
  <2>2. ASSUME NEW m \in Message, send_size(m) \/ send_fails(m)
        PROVE  C!Send(m) \/ UNCHANGED <<sent, out \in Closed>>
    BY <2>2, <2>1 DEF send_size, send_fails, C!Send, Closed
  <2>3. send_data => UNCHANGED <<sent, out \in Closed>>
    BY DEF send_data, Closed
  <2>4. QED
    BY <1>1, <2>1, <2>2, <2>3 DEF connection_send
<1>2. CASE sender_leaves \/ sender_crashes
  <2>1. C!Leave
    BY <1>2 DEF sender_leaves, sender_crashes, receiver, C!Leave, Closed
  <2>2. QED
    BY <2>1
<1>3. CASE recv_data
  <2>1. /\ in = "data" /\ in' = "size" /\ UNCHANGED <<out, message, sent>>
    BY <1>3 DEF recv_data, sender
  <2>2. Len(Delivered) < Len(sent)
    BY <1>3, RecvDataKeeps, DeliveredTyped DEF IInv
  <2>3. C!Receive
    BY <1>3, <2>1, <2>2, DeliversNext DEF C!Receive, Delivered
  <2>4. QED
    BY <2>3
<1>4. CASE recv_nothing
  <2>1. out \in Closed
    <3>1. in = "data" => buffer_size # 0
      <4>1. in = "data" => sent[Len(received) + 1] \in Message
        BY DEF IInv, TypeOK, EndsKnow
      <4>2. QED
        BY <4>1, MessageTyped DEF IInv, EndsKnow, ArrivesWhole
    <3>2. QED
      BY <1>4, <3>1 DEF recv_nothing, EndOfFile
  <2>2. C!Drop
    BY <1>4, <2>1 DEF recv_nothing, sender, C!Drop
  <2>3. QED
    BY <2>2
<1>5. CASE arrive \/ recv_size \/ receiver_ends \/ UNCHANGED vars
  <2>1. UNCHANGED <<sent, received, out>> /\ (in = "dropped" <=> in' = "dropped")
    BY <1>5 DEF arrive, recv_size, receiver_ends, vars, sender, receiver
  <2>2. QED
    BY <2>1
<1>6. QED
  BY <1>1, <1>2, <1>3, <1>4, <1>5 DEF Next, connection_recv

(* connection_send and connection_recv together are a channel: messages    *)
(* are received whole, in order and once, and connection_recv returns NULL *)
(* only when the other end is gone.                                        *)
THEOREM ImplementsTheChannel ==
  ASSUME ArrivesWhole
  PROVE  Spec => ImplementsChannel
<1>1. Init => C!Init
  BY DEF Init, C!Init, Closed
<1>2. IInv /\ [Next]_vars => [C!Next]_(C!vars)
  BY StepRefines
<1>3. QED
  BY <1>1, <1>2, Inductive, PTL DEF Spec, ImplementsChannel, C!Spec
=============================================================================
