-------------------------------- MODULE Tlv --------------------------------
(* Tags and lengths of BER: ber_tlv_tag.c, ber_tlv_length.c and the TL      *)
(* writer of der_encoder.c.  Octets are the numbers 0..255, a buffer with   *)
(* its size is a sequence of octets.  A tag is <<class, value>>, which the  *)
(* code packs into one word.  A fetched item is [n, ...]: n octets were     *)
(* taken, 0 asks for more, -1 refuses.                                      *)
EXTENDS Shifts, SequencesExt, FiniteSetsExt

CONSTANTS
  TagBits,    \* 8 * sizeof(ber_tlv_tag_t)
  LenOctets   \* sizeof(ber_tlv_len_t), a signed number

ASSUME WidthsAssumption == TagBits \in Nat /\ TagBits > 9 /\ LenOctets \in 2..126

DropFirst(b, n) == SubSeq(b, n + 1, Len(b))
Constructed(octet) == (octet \div 32) % 2 = 1

(* The least number of digits, at most all the word has, that hold v: the   *)
(* loops that compute required_size.                                        *)
Digits(v, bits, width) ==
  Min({k \in 1..width : k * bits >= width \/ ShiftRight(v, bits * k) = 0})

TagSize(tag) == IF tag[2] <= 30 THEN 1 ELSE 1 + Digits(tag[2], 7, TagBits)

TagOctets(tag) ==
  LET k == TagSize(tag) - 1
      group(i) == ShiftRight(tag[2], 7 * (k - i)) % 128
  IN IF tag[2] <= 30 THEN <<64 * tag[1] + tag[2]>>
     ELSE <<64 * tag[1] + 31>>
            \o [i \in 1..k |-> group(i) + IF i < k THEN 128 ELSE 0]

(* A tag of more than one octet: t are the octets after the first.          *)
LongTag(class, t) ==
  LET ends == {i \in 1..Len(t) : t[i] < 128}
      last == IF ends = {} THEN Len(t) + 1 ELSE Min(ends)
      val == Accumulated(128, 0, [i \in 1..Len(t) |-> t[i] % 128])
  IN IF \E i \in 1..(last - 1) : ShiftRight(val[i], TagBits - 9) # 0 THEN [n |-> -1]
     ELSE IF last > Len(t) THEN [n |-> 0]
     ELSE [n |-> last + 1, tag |-> <<class, val[last]>>]

FetchTag(b) ==
  IF b = <<>> THEN [n |-> 0]
  ELSE IF b[1] % 32 # 31 THEN [n |-> 1, tag |-> <<b[1] \div 64, b[1] % 32>>]
  ELSE LongTag(b[1] \div 64, Tail(b))

LengthSize(len) == IF len <= 127 THEN 1 ELSE 1 + Digits(len, 8, 8 * LenOctets)

LengthOctets(len) ==
  LET k == LengthSize(len) - 1
  IN IF len <= 127 THEN <<len>>
     ELSE <<128 + k>> \o [i \in 1..k |-> ShiftRight(len, 8 * (k - i)) % 256]

(* A length of k octets, of which t are there, and what follows.  A length  *)
(* within 1024 of the largest number is refused, so that the decoders can   *)
(* add to it.                                                               *)
LongLength(k, t) ==
  LET here == IF k <= Len(t) THEN k ELSE Len(t)
      val == Accumulated(256, 0, t)
      negative(v) == ShiftRight(v, 8 * LenOctets - 1) # 0
  IN IF \E i \in 1..here : \/ negative(val[i])
                           \/ i < k /\ ShiftRight(val[i], 8 * LenOctets - 8) # 0
     THEN [n |-> -1]
     ELSE IF here < k THEN [n |-> 0]
     ELSE IF negative(val[k] + 1024) THEN [n |-> -1]
     ELSE [n |-> k + 1, len |-> val[k]]

FetchLength(constructed, b) ==
  IF b = <<>> THEN [n |-> 0]
  ELSE IF b[1] < 128 THEN [n |-> 1, len |-> b[1]]
  ELSE IF b[1] = 128 /\ constructed THEN [n |-> 1, len |-> -1]     \* indefinite
  ELSE IF b[1] = 255 THEN [n |-> -1]
  ELSE LongLength(b[1] - 128, Tail(b))

(* der_write_TL estimates with no callback and writes with one; the two     *)
(* ways must agree or every length around is wrong.                         *)
TLSize_short(tag, len) == TagSize(tag) + IF len <= 128 THEN 1 ELSE LengthSize(len)
TLSize(tag, len) == TagSize(tag) + LengthSize(len)

TLOctets(tag, len, constructed) ==
  LET t == TagOctets(tag)
  IN [t EXCEPT ![1] = @ + IF constructed THEN 32 ELSE 0] \o LengthOctets(len)
=============================================================================
