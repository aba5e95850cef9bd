------------------------------ MODULE Messages ------------------------------
(***************************************************************************)
(* networking/message.c: a buffer with a position, into which fields are   *)
(* written and from which they are read.  A message is its bytes (size is  *)
(* how many there are) and its position; a field is a kind, namely the C   *)
(* type or "string", and a value: a number, or bytes where the code copies *)
(* bytes as they are.                                                      *)
(***************************************************************************)
EXTENDS Integers, Sequences, SequencesExt

CONSTANTS
  LongOctets,  (* octets of a uint32_t, which a long is sent as            *)
  LongIsWide,  (* whether a long has more bits than that                   *)
  Garbage      (* what a byte holds that nobody wrote                      *)

ASSUME LongAssumption == LongOctets \in Nat \ {0} /\ LongIsWide \in BOOLEAN

message_create == [stream |-> <<>>, position |-> 0]
message_get_size(m) == Len(m.stream)
message_get_stream(m) == m.stream
message_set_stream(m, data) == [stream |-> data, position |-> 0]
message_append_stream(m, data) == [stream |-> m.stream \o data, position |-> 0]

(* realloc() makes room at the end; memcpy() goes to position, which is    *)
(* the end only afterwards.                                                *)
Overwritten(m, bytes) ==
  LET grown == m.stream \o [i \in DOMAIN bytes |-> Garbage]
  IN SubSeq(grown, 1, m.position) \o bytes
       \o SubSeq(grown, m.position + Len(bytes) + 1, Len(grown))
Written_unmoved(m, bytes) == [m EXCEPT !.stream = Overwritten(m, bytes)]
Written(m, bytes) ==
  [stream |-> Overwritten(m, bytes), position |-> message_get_size(m) + Len(bytes)]

(* htons() and htonl() keep as many octets of a number as the field has;   *)
(* ntohs() and ntohl() give one without a sign.                            *)
NetworkOrder(n, octets) == [i \in 1..octets |-> (n \div 256^(octets - i)) % 256]
Unsigned(bytes) ==
  LET upTo[i \in 0..Len(bytes)] == IF i = 0 THEN 0 ELSE 256 * upTo[i - 1] + bytes[i]
  IN upTo[Len(bytes)]
Signed(bytes) ==
  LET n == Unsigned(bytes)
      all == 256^Len(bytes)
  IN IF 2 * n < all THEN n ELSE n - all

Octets(kind) ==      \* sizeof, of what is sent
  CASE kind \in {"uchar", "schar"} -> 1
    [] kind \in {"ushort", "sshort"} -> 2
    [] kind \in {"ulong", "slong"} -> LongOctets
    [] kind = "float" -> 4
    [] kind = "double" -> 8
IsCopied(kind) == kind \in {"float", "double"}

message_write_string(m, data) ==
  Written(Written(m, NetworkOrder(Len(data), LongOctets)), data)
message_write(m, f) ==
  IF f.kind = "string" THEN message_write_string(m, f.value)
  ELSE Written(m, IF IsCopied(f.kind) THEN f.value ELSE NetworkOrder(f.value, Octets(f.kind)))

(* A read takes its bytes wherever they are, in the buffer or behind it,   *)
(* and gives the value and the message with its position moved on.         *)
BytesAt(m, n) ==
  [i \in 1..n |-> IF m.position + i <= message_get_size(m) THEN m.stream[m.position + i] ELSE Garbage]
Advanced(m, n) == [m EXCEPT !.position = @ + n]

message_read_string(m) ==
  LET size == Unsigned(BytesAt(m, LongOctets))
      behind == Advanced(m, LongOctets)
  IN [value |-> BytesAt(behind, size), m |-> Advanced(behind, size)]

(* A signed long is read into an unsigned number of the octets sent, which *)
(* keeps its sign only where a long has no more bits than that.            *)
IsSigned(kind) == kind \in {"schar", "sshort"} \/ (kind = "slong" /\ ~LongIsWide)
message_read(m, kind) ==
  IF kind = "string" THEN message_read_string(m)
  ELSE LET bytes == BytesAt(m, Octets(kind))
       IN [value |-> IF IsCopied(kind) THEN bytes
                     ELSE IF IsSigned(kind) THEN Signed(bytes) ELSE Unsigned(bytes),
           m |-> Advanced(m, Len(bytes))]
=============================================================================
