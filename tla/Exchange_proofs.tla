---------------------------- MODULE Exchange_proofs ----------------------------
(***************************************************************************)
(* Module Exchange: what the reading end reads is what the writing end     *)
(* wrote, for all fields and all messages made of them.                    *)
(***************************************************************************)
EXTENDS Exchange, Connection_proofs, Messages_proofs

(* bytes are those of the fields s, one behind the other; at[i] is where   *)
(* the i-th ends.                                                          *)
Places(bytes, s, at) ==
  /\ at[0] = 0
  /\ at[Len(s)] = Len(bytes)
  /\ \A i \in 1 .. Len(s) :
       /\ at[i] = at[i - 1] + Len(Wire(s[i]))
       /\ \A x \in 1 .. Len(Wire(s[i])) : bytes[at[i - 1] + x] = Wire(s[i])[x]

(* Callers append a stream only behind all fields.                         *)
Composed(bytes, s) ==
  /\ \A i \in 1 .. Len(s) - 1 : s[i].kind # "stream"
  /\ \E at \in [0 .. Len(s) -> 0 .. Len(bytes)] : Places(bytes, s, at)

(* What message.c takes for granted: a field holds what its type can hold, *)
(* and what is composed of fields may be sent.                             *)
FieldsFit ==
  /\ LongOctets \in 1 .. 4
  /\ \A f \in Field : Fits(f)
  /\ \A s \in Seq(Field), bytes \in Seq(Byte) :
       s # <<>> /\ Len(s) <= MaxFields /\ Composed(bytes, s) => bytes \in Message

(* The message that is composed consists of the fields written, and of     *)
(* what goes into it only a stream leaves position away from the end.      *)
OutgoingComposed ==
  /\ fields \in Seq(Field) /\ Len(fields) <= MaxFields
  /\ IsMessage(outgoing) /\ Composed(outgoing.stream, fields)
  /\ fields # <<>> /\ fields[Len(fields)].kind = "stream" => outgoing.position = 0

(* So does every message that was sent.                                    *)
SentComposed ==
  /\ letters \in Seq(Seq(Field)) /\ Len(letters) = Len(sent)
  /\ \A i \in 1 .. Len(sent) : Composed(sent[i], letters[i])

(* The fields read are the first ones of the message received last, and    *)
(* position is where the next one begins.                                  *)
ReadInOrder ==
  received # <<>> =>
    /\ IsMessage(incoming) /\ incoming.stream = sent[Len(received)]
    /\ read \in Seq({Sendable(f) : f \in Field}) /\ Len(read) <= Len(Letter)
    /\ \A i \in 1 .. Len(read) : read[i] = Sendable(Letter[i])
    /\ \E at \in [0 .. Len(Letter) -> 0 .. Len(incoming.stream)] :
         Places(incoming.stream, Letter, at) /\ incoming.position = at[Len(read)]

ExchangeInv ==
  /\ IInv
  /\ OutgoingComposed
  /\ SentComposed
  /\ ReadInOrder

-----------------------------------------------------------------------------
(* The operators the module is built from *)

LEMMA NothingComposed == Composed(<<>>, <<>>)
<1> DEFINE at == [i \in 0 .. 0 |-> 0]
<1>1. Len(<<>>) = 0 /\ at \in [0 .. 0 -> 0 .. 0] /\ at[0] = 0
  OBVIOUS
<1>2. Places(<<>>, <<>>, at)
  BY <1>1 DEF Places
<1>3. QED
  BY <1>1, <1>2 DEF Composed

(* A field behind the others.                                              *)
LEMMA ComposedAppend ==
  ASSUME FieldsFit, NEW s \in Seq(Field), NEW bytes \in Seq(Byte), Composed(bytes, s),
         \A i \in 1 .. Len(s) : s[i].kind # "stream", NEW f \in Field
  PROVE  Composed(bytes \o Wire(f), Append(s, f))
<1> DEFINE n == Len(s)
           w == Wire(f)
           longer == bytes \o w
           t == Append(s, f)
<1>1. n \in Nat /\ w \in Seq(Byte) /\ Len(w) \in Nat /\ Len(bytes) \in Nat
  BY WireTyped DEF FieldsFit
<1>2. /\ longer \in Seq(Byte) /\ Len(longer) = Len(bytes) + Len(w)
      /\ \A x \in 1 .. Len(bytes) : longer[x] = bytes[x]
      /\ \A x \in 1 .. Len(w) : longer[Len(bytes) + x] = w[x]
  BY <1>1
<1>3. /\ t \in Seq(Field) /\ Len(t) = n + 1 /\ t[n + 1] = f
      /\ \A i \in 1 .. n : t[i] = s[i]
  BY AppendProperties
<1>4. PICK at \in [0 .. n -> 0 .. Len(bytes)] : Places(bytes, s, at)
  BY DEF Composed
<1> DEFINE at2 == [i \in 0 .. n + 1 |-> IF i <= n THEN at[i] ELSE Len(longer)]
<1> HIDE DEF w, longer, t
<1>5. at2 \in [0 .. n + 1 -> 0 .. Len(longer)]
  BY <1>1, <1>2
<1>6. at2[n + 1] = Len(longer) /\ \A i \in 0 .. n : at2[i] = at[i]
  BY <1>1
<1>7. at2[0] = 0
  BY <1>1, <1>4, <1>6 DEF Places
<1> HIDE DEF at2
<1>8. ASSUME NEW i \in 1 .. n + 1
      PROVE  /\ at2[i] = at2[i - 1] + Len(Wire(t[i]))
             /\ \A x \in 1 .. Len(Wire(t[i])) : longer[at2[i - 1] + x] = Wire(t[i])[x]
  <2>1. CASE i = n + 1
    <3>1. at2[i - 1] = Len(bytes) /\ Wire(t[i]) = w
      BY <1>1, <1>3, <1>4, <1>6, <2>1 DEF Places, w
    <3>2. QED
      BY <1>2, <1>6, <2>1, <3>1
  <2>2. CASE i \in 1 .. n
    <3> DEFINE u == Wire(s[i])
    <3>1. i - 1 \in 0 .. n /\ i \in 0 .. n
      BY <1>1, <2>2
    <3>2. at2[i] = at[i] /\ at2[i - 1] = at[i - 1] /\ Wire(t[i]) = u
      BY <1>3, <1>6, <2>2, <3>1
    <3>3. at[i] = at[i - 1] + Len(u) /\ \A x \in 1 .. Len(u) : bytes[at[i - 1] + x] = u[x]
      BY <1>4, <2>2 DEF Places
    <3>4. at[i] \in 0 .. Len(bytes) /\ at[i - 1] \in 0 .. Len(bytes)
      BY <3>1
    <3>5. u \in Seq(Byte) /\ Len(u) \in Nat
      <4>1. s[i] \in Field
        BY <2>2, ElementOfSeq
      <4>2. QED
        BY <4>1, WireTyped DEF FieldsFit
    <3> HIDE DEF u
    <3>6. \A x \in 1 .. Len(u) : at[i - 1] + x \in 1 .. Len(bytes)
      BY <1>1, <3>3, <3>4, <3>5
    <3>7. QED
      BY <1>2, <3>2, <3>3, <3>6
  <2>3. QED
    BY <1>1, <2>1, <2>2
<1>9. Places(longer, t, at2)
  BY <1>3, <1>6, <1>7, <1>8 DEF Places
<1>10. \A i \in 1 .. Len(t) - 1 : t[i].kind # "stream"
  <2> SUFFICES ASSUME NEW i \in 1 .. n PROVE t[i].kind # "stream"
    BY <1>1, <1>3
  <2>1. t[i] = s[i]
    BY <1>3
  <2>2. QED
    BY <2>1
<1>11. QED
  BY <1>3, <1>5, <1>9, <1>10 DEF Composed, longer, t, w

(* The bytes behind the p-th, which are w.                                 *)
LEMMA RestIs ==
  ASSUME NEW bytes \in Seq(Byte), NEW p \in Nat, NEW w \in Seq(Byte), p + Len(w) = Len(bytes),
         \A x \in 1 .. Len(w) : bytes[p + x] = w[x]
  PROVE  SubSeq(bytes, p + 1, Len(bytes)) = w
<1> DEFINE n == Len(bytes)
           r == SubSeq(bytes, p + 1, n)
<1>1. n \in Nat /\ Len(w) \in Nat
  OBVIOUS
<1>2. \A i \in p + 1 .. n : bytes[i] \in Byte
  BY <1>1, ElementOfSeq
<1>3. Len(r) = IF p + 1 <= n THEN n - (p + 1) + 1 ELSE 0
  BY <1>1, <1>2, SubSeqProperties
<1>4. r \in Seq(Byte) /\ \A i \in 1 .. n - (p + 1) + 1 : r[i] = bytes[(p + 1) + i - 1]
  BY <1>1, <1>2, SubSeqProperties
<1> HIDE DEF r
<1>5. Len(r) = Len(w)
  BY <1>1, <1>3
<1>6. ASSUME NEW x \in 1 .. Len(w)
      PROVE  r[x] = w[x]
  <2>1. r[x] = bytes[(p + 1) + x - 1] /\ (p + 1) + x - 1 = p + x
    BY <1>1, <1>4
  <2>2. QED
    BY <2>1
<1>7. QED
  BY <1>4, <1>5, <1>6, SeqEqual DEF r

(* What arrives of a field, as a record.                                   *)
LEMMA SendableIs ==
  ASSUME NEW f, Fits(f)
  PROVE  Sendable(f) = [kind |-> f.kind, value |-> Received(f)]
<1> DEFINE left == f.value % 256^LongOctets
<1>1. f = [kind |-> f.kind, value |-> f.value]
  BY DEF Fits
<1> HIDE DEF left
<1>2. [f EXCEPT !.value = left] = [kind |-> f.kind, value |-> left]
  BY <1>1
<1> USE DEF left
<1>3. CASE LongIsWide /\ f.kind \in {"slong", "ulong"}
  BY <1>2, <1>3 DEF Sendable, Received, Span
<1>4. CASE ~(LongIsWide /\ f.kind \in {"slong", "ulong"})
  BY <1>1, <1>4 DEF Sendable, Received
<1>5. QED
  BY <1>3, <1>4

(* What is composed of fields may be sent, and is not empty.               *)
LEMMA ComposedMessage ==
  ASSUME MessagesFit, FieldsFit, OutgoingComposed, fields # <<>>
  PROVE  outgoing.stream \in Message /\ Len(outgoing.stream) > 0
<1>1. outgoing.stream \in Seq(Byte)
  BY DEF OutgoingComposed, IsMessage
<1>2. outgoing.stream \in Message
  BY <1>1 DEF OutgoingComposed, FieldsFit
<1>3. QED
  BY <1>2, MessageTyped

-----------------------------------------------------------------------------
(* The invariant *)

LEMMA ExchangeBegins ==
  ASSUME ExchangeInit
  PROVE  ExchangeInv
<1>1. IInv
  BY InitIInv DEF ExchangeInit
<1>2. outgoing = message_create /\ fields = <<>> /\ letters = <<>> /\ sent = <<>> /\ received = <<>>
  BY DEF ExchangeInit, Init
<1>3. OutgoingComposed
  <2>1. IsMessage(outgoing) /\ outgoing.stream = <<>>
    BY <1>2 DEF message_create, IsMessage
  <2>2. QED
    BY <1>2, <2>1, NothingComposed, FieldsAssumption DEF OutgoingComposed
<1>4. SentComposed /\ ReadInOrder
  BY <1>2 DEF SentComposed, ReadInOrder
<1>5. QED
  BY <1>1, <1>3, <1>4 DEF ExchangeInv

(* Every step is one of the connection, or none of its variables.          *)
LEMMA ConnectionSteps ==
  ASSUME ArrivesWhole, FieldsFit, ExchangeInv, [ExchangeNext]_allVars
  PROVE  [Next]_vars
<1>1. CASE send
  <2>1. outgoing.stream \in Message
    BY <1>1, ComposedMessage DEF send, ExchangeInv, ArrivesWhole
  <2>2. send_size(outgoing.stream)
    BY <1>1 DEF send, message_get_stream
  <2>3. connection_send
    BY <2>1, <2>2 DEF connection_send
  <2>4. QED
    BY <2>3 DEF Next
<1>2. CASE fail /\ out = "idle" /\ fields # <<>>
  <2>1. outgoing.stream \in Message
    BY <1>2, ComposedMessage DEF ExchangeInv, ArrivesWhole
  <2>2. send_fails(outgoing.stream)
    BY <1>2 DEF fail, message_get_stream
  <2>3. connection_send
    BY <2>1, <2>2 DEF connection_send
  <2>4. QED
    BY <2>3 DEF Next
<1>3. CASE fail /\ out = "data"
  <2>1. message \in Message
    <3>1. sent # <<>> /\ message = sent[Len(sent)] /\ sent \in Seq(Message)
      BY <1>3 DEF ExchangeInv, IInv, TypeOK, EndsKnow
    <3>2. QED
      BY <3>1
  <2>2. send_fails(message)
    BY <1>3 DEF fail, send_fails
  <2>3. connection_send
    BY <2>1, <2>2 DEF connection_send
  <2>4. QED
    BY <2>3 DEF Next
<1>4. CASE resume
  BY <1>4 DEF resume, connection_send, Next
<1>5. CASE receive
  BY <1>5 DEF receive, connection_recv, Next
<1>6. CASE others
  BY <1>6 DEF others, connection_recv, Next
<1>7. CASE (\E f \in Field : write(f)) \/ message_clear_stream \/ read_next \/ UNCHANGED allVars
  BY <1>7 DEF write, message_clear_stream, read_next, allVars
<1>8. fail => (out = "idle" /\ fields # <<>>) \/ out = "data"
  BY DEF fail
<1>9. QED
  BY <1>1, <1>2, <1>3, <1>4, <1>5, <1>6, <1>7, <1>8 DEF ExchangeNext

(* A field is written: behind the others, or it is a stream.               *)
LEMMA WriteKeeps ==
  ASSUME ArrivesWhole, FieldsFit, ExchangeInv, NEW f \in Field, write(f)
  PROVE  OutgoingComposed'
<1> DEFINE n == Len(fields)
           longer == outgoing.stream \o Wire(f)
<1>1. /\ fields \in Seq(Field) /\ n \in Nat /\ n < MaxFields
      /\ IsMessage(outgoing) /\ outgoing.stream \in Seq(Byte)
      /\ Composed(outgoing.stream, fields)
      /\ outgoing.position = Len(outgoing.stream)
  BY DEF write, ExchangeInv, OutgoingComposed, IsMessage, message_get_size
<1>2. Fits(f) /\ Wire(f) \in Seq(Byte)
  BY WireTyped DEF FieldsFit
<1>3. \A i \in 1 .. n : fields[i].kind # "stream"
  <2>1. \A i \in 1 .. n - 1 : fields[i].kind # "stream"
    BY <1>1 DEF Composed
  <2>2. n > 0 => fields[n].kind # "stream"
    <3>1. n > 0 => fields # <<>>
      BY <1>1
    <3>2. fields # <<>> => Len(outgoing.stream) > 0
      BY ComposedMessage DEF ExchangeInv, ArrivesWhole
    <3>3. fields # <<>> /\ fields[n].kind = "stream" => outgoing.position = 0
      BY DEF ExchangeInv, OutgoingComposed
    <3>4. QED
      BY <1>1, <3>1, <3>2, <3>3
  <2>3. \A i \in 1 .. n : i = n \/ i \in 1 .. n - 1
    BY <1>1
  <2>4. QED
    BY <1>1, <2>1, <2>2, <2>3
<1>4. Composed(longer, Append(fields, f))
  BY <1>1, <1>3, ComposedAppend
<1>5. outgoing' = [stream |-> longer, position |-> IF f.kind = "stream" THEN 0 ELSE Len(longer)]
  <2>1. CASE f.kind = "stream"
    <3>1. Wire(f) = f.value
      BY <2>1 DEF Wire, Numbers
    <3>2. outgoing' = message_append_stream(outgoing, f.value)
      BY <2>1 DEF write
    <3>3. QED
      BY <2>1, <3>1, <3>2 DEF message_append_stream
  <2>2. CASE f.kind # "stream"
    <3>1. outgoing' = message_write(outgoing, f)
      BY <2>2 DEF write
    <3>2. LongOctets \in 1 .. 4
      BY DEF FieldsFit
    <3>3. QED
      BY <1>1, <1>2, <2>2, <3>1, <3>2, WriteAppends
  <2>3. QED
    BY <2>1, <2>2
<1>6. longer \in Seq(Byte) /\ Len(longer) \in Nat
  BY <1>1, <1>2
<1>7. fields' = Append(fields, f)
  BY DEF write
<1>8. fields' \in Seq(Field) /\ Len(fields') = n + 1 /\ fields'[n + 1] = f
  BY <1>1, <1>7, AppendProperties
<1> HIDE DEF longer
<1>9. IsMessage(outgoing') /\ outgoing'.stream = longer
      /\ (f.kind = "stream" => outgoing'.position = 0)
  BY <1>5, <1>6 DEF IsMessage
<1>10. QED
  <2>1. Len(fields') <= MaxFields
    BY <1>1, <1>8, FieldsAssumption
  <2>2. fields'[Len(fields')].kind = "stream" => outgoing'.position = 0
    BY <1>8, <1>9
  <2>3. Composed(outgoing'.stream, fields')
    BY <1>4, <1>7, <1>9
  <2>4. QED
    BY <1>8, <1>9, <2>1, <2>2, <2>3 DEF OutgoingComposed, IsMessage

LEMMA ClearKeeps ==
  ASSUME message_clear_stream
  PROVE  OutgoingComposed'
<1>1. outgoing' = message_create /\ fields' = <<>>
  BY DEF message_clear_stream
<1>2. IsMessage(outgoing') /\ outgoing'.stream = <<>>
  BY <1>1 DEF message_create, IsMessage
<1>3. QED
  BY <1>1, <1>2, NothingComposed, FieldsAssumption DEF OutgoingComposed, IsMessage

(* The message is sent: the fields written become those of a letter.       *)
LEMMA SendKeeps ==
  ASSUME ExchangeInv, sent' = Append(sent, outgoing.stream), letters' = Append(letters, fields),
         outgoing.stream \in Message, UNCHANGED <<received, reader>>
  PROVE  SentComposed' /\ ReadInOrder'
<1> DEFINE n == Len(sent)
<1>1. /\ sent \in Seq(Message) /\ n \in Nat
      /\ letters \in Seq(Seq(Field)) /\ Len(letters) = n /\ fields \in Seq(Field)
  BY DEF ExchangeInv, IInv, TypeOK, SentComposed, OutgoingComposed
<1>2. /\ sent' \in Seq(Message) /\ Len(sent') = n + 1 /\ sent'[n + 1] = outgoing.stream
      /\ \A i \in 1 .. n : sent'[i] = sent[i]
  BY <1>1, AppendProperties
<1>3. /\ letters' \in Seq(Seq(Field)) /\ Len(letters') = n + 1 /\ letters'[n + 1] = fields
      /\ \A i \in 1 .. n : letters'[i] = letters[i]
  BY <1>1, AppendProperties
<1>4. ASSUME NEW i \in 1 .. n + 1
      PROVE  Composed(sent'[i], letters'[i])
  <2>1. CASE i = n + 1
    BY <1>2, <1>3, <2>1 DEF ExchangeInv, OutgoingComposed
  <2>2. CASE i \in 1 .. n
    BY <1>2, <1>3, <2>2 DEF ExchangeInv, SentComposed
  <2>3. i = n + 1 \/ i \in 1 .. n
    BY <1>1
  <2>4. QED
    BY <2>1, <2>2, <2>3
<1>5. SentComposed'
  BY <1>2, <1>3, <1>4 DEF SentComposed
<1>6. CASE received = <<>>
  BY <1>5, <1>6 DEF ReadInOrder
<1>7. CASE received # <<>>
  <2>1. Len(received) \in 1 .. n
    <3>1. received \in Seq([size : Nat, data : Message]) /\ Len(received) <= n
      BY DEF ExchangeInv, IInv, TypeOK, NeverAhead
    <3>2. QED
      BY <1>1, <1>7, <3>1
  <2>2. Letter' = Letter /\ sent'[Len(received')] = sent[Len(received)]
    BY <1>2, <1>3, <2>1 DEF Letter
  <2>3. incoming' = incoming /\ read' = read /\ received' = received
    BY DEF reader
  <2>4. QED
    BY <1>5, <2>2, <2>3 DEF ExchangeInv, ReadInOrder
<1>8. QED
  BY <1>6, <1>7

(* The next message is received: none of its fields has been read.         *)
LEMMA ReceiveKeeps ==
  ASSUME ArrivesWhole, ExchangeInv, receive
  PROVE  ReadInOrder'
<1> DEFINE k == Len(received) + 1
           m == sent[k]
           entry == [size |-> Len(m), data |-> m]
<1>1. received' = Append(received, entry) /\ IInv' /\ k - 1 < Len(sent)
  BY RecvDataKeeps DEF receive, ExchangeInv
<1>2. /\ received \in Seq([size : Nat, data : Message]) /\ k \in Nat
      /\ sent \in Seq(Message) /\ Len(sent) \in Nat
      /\ UNCHANGED <<sent, letters>>
  BY DEF receive, recv_data, sender, writer, ExchangeInv, IInv, TypeOK
<1>3. k \in 1 .. Len(sent)
  BY <1>1, <1>2
<1>4. m \in Message /\ m \in Seq(Byte) /\ Len(m) \in Nat
  BY <1>2, <1>3, MessageTyped DEF ArrivesWhole, Byte
<1>5. entry \in [size : Nat, data : Message] /\ entry.data = m
  BY <1>4
<1> HIDE DEF entry
<1>6. Len(received') = k /\ received'[k] = entry
  BY <1>1, <1>2, <1>5, AppendProperties
<1>7. incoming' = [stream |-> m, position |-> 0] /\ read' = <<>>
  BY <1>5, <1>6 DEF receive, Last, message_set_stream
<1>8. Composed(m, letters[k])
  BY <1>3 DEF ExchangeInv, SentComposed
<1>9. letters[k] \in Seq(Field) /\ Letter' = letters[k]
  BY <1>2, <1>3, <1>6 DEF Letter, ExchangeInv, SentComposed
<1>10. IsMessage(incoming') /\ incoming'.stream = m /\ incoming'.position = 0
  BY <1>4, <1>7 DEF IsMessage
<1>11. PICK at \in [0 .. Len(letters[k]) -> 0 .. Len(m)] : Places(m, letters[k], at)
  BY <1>8 DEF Composed
<1>12. /\ incoming'.stream = sent'[Len(received')]
       /\ at \in [0 .. Len(Letter') -> 0 .. Len(incoming'.stream)]
       /\ Places(incoming'.stream, Letter', at)
       /\ incoming'.position = at[Len(read')]
  BY <1>2, <1>6, <1>7, <1>9, <1>10, <1>11 DEF Places
<1>13. /\ read' \in Seq({Sendable(f) : f \in Field}) /\ Len(read') <= Len(Letter')
       /\ \A i \in 1 .. Len(read') : read'[i] = Sendable(Letter'[i])
  BY <1>7, <1>9
<1>14. QED
  BY <1>10, <1>12, <1>13 DEF ReadInOrder, IsMessage

(* The reading end takes a field: the bytes it reads are all there, and    *)
(* are those that were written for it.                                     *)
LEMMA ReadKeeps ==
  ASSUME ArrivesWhole, FieldsFit, ExchangeInv, read_next
  PROVE  ReadInOrder'
<1> DEFINE k == Len(received)
           n == Len(read)
           s == Letter
           f == s[n + 1]
           bytes == incoming.stream
           w == Wire(f)
<1>1. /\ received # <<>> /\ n < Len(s)
      /\ UNCHANGED <<received, sent, letters>>
  BY DEF read_next, vars, sender, receiver, writer
<1>2. /\ IsMessage(incoming) /\ bytes = sent[k]
      /\ read \in Seq({Sendable(g) : g \in Field})
      /\ \A i \in 1 .. n : read[i] = Sendable(s[i])
      /\ \E at \in [0 .. Len(s) -> 0 .. Len(bytes)] : Places(bytes, s, at) /\ incoming.position = at[n]
  BY <1>1 DEF ExchangeInv, ReadInOrder
<1>3. PICK at \in [0 .. Len(s) -> 0 .. Len(bytes)] : Places(bytes, s, at) /\ incoming.position = at[n]
  BY <1>2
<1>4. k \in 1 .. Len(sent)
  <2>1. received \in Seq([size : Nat, data : Message]) /\ sent \in Seq(Message) /\ k <= Len(sent)
    BY DEF ExchangeInv, IInv, TypeOK, NeverAhead
  <2>2. QED
    BY <1>1, <2>1
<1>5. s \in Seq(Field) /\ Composed(sent[k], s)
  BY <1>4 DEF Letter, ExchangeInv, SentComposed
<1>6. /\ n \in Nat /\ Len(s) \in Nat /\ n + 1 \in 1 .. Len(s)
      /\ bytes \in Seq(Byte) /\ Len(bytes) \in Nat
  BY <1>1, <1>2, <1>5 DEF IsMessage
<1>7. f \in Field /\ Fits(f) /\ w \in Seq(Byte) /\ Len(w) \in Nat
  BY <1>5, <1>6, WireTyped DEF FieldsFit
<1>8. /\ at[n + 1] = at[n] + Len(w) /\ at[n] \in Nat /\ at[n + 1] <= Len(bytes)
      /\ \A x \in 1 .. Len(w) : bytes[at[n] + x] = w[x]
  <2>1. n \in 0 .. Len(s) /\ n + 1 \in 0 .. Len(s) /\ (n + 1) - 1 = n
    BY <1>6
  <2>2. at[n] \in 0 .. Len(bytes) /\ at[n + 1] \in 0 .. Len(bytes)
    BY <2>1
  <2>3. /\ at[n + 1] = at[(n + 1) - 1] + Len(w)
        /\ \A x \in 1 .. Len(w) : bytes[at[(n + 1) - 1] + x] = w[x]
    BY <1>3, <1>6 DEF Places
  <2>4. QED
    BY <1>6, <2>1, <2>2, <2>3
<1> HIDE DEF w, f, s, bytes, n, k
<1>9. /\ incoming' = [stream |-> bytes, position |-> at[n + 1]]
      /\ read' = Append(read, Sendable(f))
  <2>1. CASE f.kind = "stream"
    <3>1. n + 1 = Len(s)
      <4>1. \A i \in 1 .. Len(s) - 1 : s[i].kind # "stream"
        BY <1>5 DEF Composed
      <4>2. n + 1 \notin 1 .. Len(s) - 1
        BY <2>1, <4>1 DEF f
      <4>3. QED
        BY <1>6, <4>2
    <3>2. at[n + 1] = Len(bytes) /\ at[n] + Len(w) = Len(bytes)
      BY <1>3, <1>8, <3>1 DEF Places
    <3>3. SubSeq(bytes, at[n] + 1, Len(bytes)) = w
      BY <1>6, <1>7, <1>8, <3>2, RestIs
    <3>4. w = f.value
      BY <2>1 DEF w, Wire, Numbers
    <3>5. read' = Append(read, [kind |-> f.kind, value |-> SubSeq(bytes, at[n] + 1, Len(bytes))])
      BY <1>3, <2>1 DEF read_next, f, s, n, bytes, message_get_size
    <3>6. Sendable(f) = [kind |-> f.kind, value |-> f.value]
      BY <1>7, <2>1, SendableIs DEF Received
    <3>7. incoming' = [incoming EXCEPT !.position = Len(bytes)]
      BY <2>1 DEF read_next, f, s, n, bytes, message_get_size
    <3>8. incoming' = [stream |-> bytes, position |-> Len(bytes)]
      BY <1>2, <3>7 DEF IsMessage, bytes
    <3>9. QED
      BY <3>2, <3>3, <3>4, <3>5, <3>6, <3>8
  <2>2. CASE f.kind # "stream"
    <3>1. message_read(incoming, f.kind) =
            [value |-> Received(f), m |-> [incoming EXCEPT !.position = @ + Len(w)]]
      <4>1. LongOctets \in 1 .. 4
        BY DEF FieldsFit
      <4>2. /\ incoming.position + Len(Wire(f)) <= Len(incoming.stream)
            /\ \A x \in 1 .. Len(Wire(f)) : incoming.stream[incoming.position + x] = Wire(f)[x]
        BY <1>3, <1>8 DEF w, bytes
      <4>3. QED
        BY <1>2, <1>7, <2>2, <4>1, <4>2, ReadUndoesWrite DEF w
    <3>2. /\ read' = Append(read, [kind |-> f.kind, value |-> message_read(incoming, f.kind).value])
          /\ incoming' = message_read(incoming, f.kind).m
      BY <2>2 DEF read_next, f, s, n
    <3>3. /\ read' = Append(read, [kind |-> f.kind, value |-> Received(f)])
          /\ incoming' = [incoming EXCEPT !.position = @ + Len(w)]
      BY <3>1, <3>2
    <3>4. incoming' = [stream |-> bytes, position |-> at[n] + Len(w)]
      BY <1>2, <1>3, <3>3 DEF IsMessage, bytes
    <3>5. QED
      BY <1>7, <1>8, <3>3, <3>4, SendableIs
  <2>3. QED
    BY <2>1, <2>2
<1>10. Letter' = s
  BY <1>1 DEF Letter, s
<1>11. Sendable(f) \in {Sendable(g) : g \in Field}
  BY <1>7
<1>12. /\ read' \in Seq({Sendable(g) : g \in Field})
       /\ Len(read') = n + 1 /\ read'[n + 1] = Sendable(f)
       /\ \A i \in 1 .. n : read'[i] = read[i]
  BY <1>2, <1>9, <1>11, AppendProperties DEF n
<1>13. ASSUME NEW i \in 1 .. n + 1
       PROVE  read'[i] = Sendable(s[i])
  <2>1. CASE i = n + 1
    BY <1>12, <2>1 DEF f
  <2>2. CASE i \in 1 .. n
    BY <1>2, <1>12, <2>2
  <2>3. i = n + 1 \/ i \in 1 .. n
    BY <1>6
  <2>4. QED
    BY <2>1, <2>2, <2>3
<1>14. IsMessage(incoming') /\ incoming'.stream = bytes /\ incoming'.position = at[n + 1]
  <2>1. at[n + 1] \in Nat
    BY <1>7, <1>8
  <2>2. QED
    BY <1>6, <1>9, <2>1 DEF IsMessage
<1>15. bytes = sent'[Len(received')]
  BY <1>1, <1>2 DEF k
<1>16. Len(read') <= Len(Letter')
  BY <1>6, <1>10, <1>12
<1>17. QED
  BY <1>3, <1>10, <1>12, <1>13, <1>14, <1>15, <1>16 DEF ReadInOrder, IsMessage

LEMMA ExchangeKeeps ==
  ASSUME ArrivesWhole, FieldsFit, ExchangeInv, [ExchangeNext]_allVars
  PROVE  ExchangeInv'
<1>1. IInv'
  BY ConnectionSteps, NextKeeps DEF ExchangeInv
<1>2. UNCHANGED writer => OutgoingComposed'
  BY DEF writer, ExchangeInv, OutgoingComposed
<1>3. UNCHANGED <<sent, letters>> => SentComposed'
  BY DEF ExchangeInv, SentComposed
<1>4. UNCHANGED <<sent, letters, received, reader>> => ReadInOrder'
  BY DEF reader, ExchangeInv, ReadInOrder, Letter
<1>5. CASE \E f \in Field : write(f)
  <2>1. UNCHANGED <<sent, letters, received, reader>>
    BY <1>5 DEF write, vars, sender, receiver
  <2>2. OutgoingComposed'
    BY <1>5, WriteKeeps
  <2>3. QED
    BY <1>1, <1>3, <1>4, <2>1, <2>2 DEF ExchangeInv
<1>6. CASE message_clear_stream
  <2>1. UNCHANGED <<sent, letters, received, reader>>
    BY <1>6 DEF message_clear_stream, vars, sender, receiver
  <2>2. OutgoingComposed'
    BY <1>6, ClearKeeps
  <2>3. QED
    BY <1>1, <1>3, <1>4, <2>1, <2>2 DEF ExchangeInv
<1>7. CASE send \/ (fail /\ out = "idle" /\ fields # <<>>)
  <2>1. /\ sent' = Append(sent, outgoing.stream) /\ letters' = Append(letters, fields)
        /\ UNCHANGED <<outgoing, fields, received, reader>> /\ fields # <<>>
    BY <1>7 DEF send, send_size, fail, send_fails, message_get_stream, receiver
  <2>2. outgoing.stream \in Message
    BY <2>1, ComposedMessage DEF ExchangeInv, ArrivesWhole
  <2>3. SentComposed' /\ ReadInOrder'
    BY <2>1, <2>2, SendKeeps
  <2>4. OutgoingComposed'
    BY <2>1 DEF ExchangeInv, OutgoingComposed
  <2>5. QED
    BY <1>1, <2>3, <2>4 DEF ExchangeInv
<1>8. CASE fail /\ out = "data"
  <2>1. UNCHANGED <<outgoing, fields, sent, letters, received, reader>>
    BY <1>8 DEF fail, send_fails, receiver
  <2>2. QED
    BY <1>1, <1>2, <1>3, <1>4, <2>1 DEF ExchangeInv, writer
<1>9. CASE resume
  <2>1. UNCHANGED <<writer, sent, letters, received, reader>>
    BY <1>9 DEF resume, send_data, receiver, writer
  <2>2. QED
    BY <1>1, <1>2, <1>3, <1>4, <2>1 DEF ExchangeInv
<1>10. CASE receive
  <2>1. UNCHANGED <<writer, sent, letters>>
    BY <1>10 DEF receive, recv_data, sender, writer
  <2>2. ReadInOrder'
    BY <1>10, ReceiveKeeps
  <2>3. QED
    BY <1>1, <1>2, <1>3, <2>1, <2>2 DEF ExchangeInv
<1>11. CASE read_next
  <2>1. UNCHANGED <<writer, sent, letters>>
    BY <1>11 DEF read_next, vars, sender, writer
  <2>2. ReadInOrder'
    BY <1>11, ReadKeeps
  <2>3. QED
    BY <1>1, <1>2, <1>3, <2>1, <2>2 DEF ExchangeInv
<1>12. CASE others
  <2>1. UNCHANGED <<sent, received>>
    BY <1>12
    DEF others, arrive, recv_size, recv_nothing, sender_leaves, sender_crashes, receiver_ends,
        sender, receiver
  <2>2. UNCHANGED <<writer, letters, reader>>
    BY <1>12 DEF others, writer
  <2>3. QED
    BY <1>1, <1>2, <1>3, <1>4, <2>1, <2>2 DEF ExchangeInv
<1>13. CASE UNCHANGED allVars
  <2>1. UNCHANGED <<writer, sent, letters, received, reader>>
    BY <1>13 DEF allVars, vars, sender, receiver, writer
  <2>2. QED
    BY <1>1, <1>2, <1>3, <1>4, <2>1 DEF ExchangeInv
<1>14. fail => (out = "idle" /\ fields # <<>>) \/ out = "data"
  BY DEF fail
<1>15. QED
  BY <1>5, <1>6, <1>7, <1>8, <1>9, <1>10, <1>11, <1>12, <1>13, <1>14 DEF ExchangeNext

LEMMA ExchangeInductive ==
  ASSUME ArrivesWhole, FieldsFit
  PROVE  ExchangeSpec => []ExchangeInv
<1>1. ExchangeInv /\ [ExchangeNext]_allVars => ExchangeInv'
  BY ExchangeKeeps
<1>2. QED
  BY <1>1, ExchangeBegins, PTL DEF ExchangeSpec

-----------------------------------------------------------------------------
(* Whatever fields are written into messages, and however far writing,     *)
(* sending, arriving and reading have come: every field read has the value *)
(* that was written, none is read from behind the end of its message, and  *)
(* nothing is left of a message whose fields have all been read.           *)
THEOREM FieldsAlwaysArrive ==
  ASSUME ArrivesWhole, FieldsFit
  PROVE  ExchangeSpec => []FieldsArrive
<1>1. ASSUME ExchangeInv PROVE FieldsArrive
  <2> SUFFICES ASSUME received # <<>>
               PROVE  /\ \A i \in DOMAIN read : read[i] = Sendable(Letter[i])
                      /\ incoming.position <= message_get_size(incoming)
                      /\ Len(read) = Len(Letter) => incoming.position = message_get_size(incoming)
    BY DEF FieldsArrive
  <2>1. /\ IsMessage(incoming)
        /\ read \in Seq({Sendable(f) : f \in Field}) /\ Len(read) <= Len(Letter)
        /\ \A i \in 1 .. Len(read) : read[i] = Sendable(Letter[i])
    BY <1>1 DEF ExchangeInv, ReadInOrder
  <2>2. PICK at \in [0 .. Len(Letter) -> 0 .. Len(incoming.stream)] :
          Places(incoming.stream, Letter, at) /\ incoming.position = at[Len(read)]
    BY <1>1 DEF ExchangeInv, ReadInOrder
  <2>3. DOMAIN read = 1 .. Len(read) /\ Len(read) \in Nat
    BY <2>1
  <2>4. Letter \in Seq(Field)
    <3>1. received \in Seq([size : Nat, data : Message]) /\ Len(received) <= Len(sent)
      BY <1>1 DEF ExchangeInv, IInv, TypeOK, NeverAhead
    <3>2. letters \in Seq(Seq(Field)) /\ Len(letters) = Len(sent)
      BY <1>1 DEF ExchangeInv, SentComposed
    <3>3. Len(received) \in 1 .. Len(letters)
      BY <3>1, <3>2
    <3>4. QED
      BY <3>2, <3>3 DEF Letter
  <2>5. at[Len(read)] \in 0 .. Len(incoming.stream)
    BY <2>1, <2>3, <2>4
  <2>6. Len(incoming.stream) \in Nat
    BY <2>1 DEF IsMessage
  <2>7. QED
    BY <2>1, <2>2, <2>3, <2>5, <2>6 DEF Places, message_get_size
<1>2. QED
  BY <1>1, ExchangeInductive, PTL

(* Applications that compose messages and read them use the connection as  *)
(* module Connection has it, so that what holds of it holds here.          *)
THEOREM UsesTheConnection ==
  ASSUME ArrivesWhole, FieldsFit
  PROVE  ExchangeSpec => Spec
<1>1. ExchangeInit => Init
  BY DEF ExchangeInit
<1>2. ExchangeInv /\ [ExchangeNext]_allVars => [Next]_vars
  BY ConnectionSteps
<1>3. QED
  BY <1>1, <1>2, ExchangeInductive, PTL DEF ExchangeSpec, Spec

(* Over a connection that is used this way, too, the messages are received *)
(* whole, in order and once.                                               *)
THEOREM ExchangeIsAChannel ==
  ASSUME ArrivesWhole, FieldsFit
  PROVE  ExchangeSpec => ImplementsChannel
  BY UsesTheConnection, ImplementsTheChannel, PTL
=============================================================================
