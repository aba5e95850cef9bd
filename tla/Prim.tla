-------------------------------- MODULE Prim --------------------------------
(* What applications do with the contents of the primitive types: the       *)
(* conversions of INTEGER.c, OBJECT_IDENTIFIER.c and RELATIVE-OID.c.        *)
EXTENDS Shifts, SequencesExt, FiniteSetsExt

CONSTANTS
  LongOctets,  \* sizeof(long)
  ArcOctets,   \* the size of the arcs an application passes
  Failed       \* what an operation that fails returns

ASSUME PrimAssumption ==
  LongOctets \in Nat \ {0} /\ ArcOctets \in {1, 2, 4, 8, 16} /\ Failed \notin Nat

(* -- INTEGER: two's complement, the most significant octet first --------- *)
Superfluous(b) ==     \* leading octets that only repeat the sign
  Max({k \in 0..(Len(b) - 1) :
         \A i \in 1..k : \/ b[i] = 0 /\ b[i + 1] < 128
                         \/ b[i] = 255 /\ b[i + 1] >= 128} \cup {0})
Canonical(b) == SubSeq(b, Superfluous(b) + 1, Len(b))
Signed(b) ==
  IF b = <<>> THEN 0 ELSE Accumulated(256, IF b[1] >= 128 THEN -1 ELSE 0, b)[Len(b)]
Octets(v, n) == [i \in 1..n |-> ShiftRight(v, 8 * (n - i)) % 256]

asn_INTEGER2long(b) ==
  LET s == IF Len(b) > LongOctets THEN Canonical(b) ELSE b
  IN IF Len(s) > LongOctets THEN Failed ELSE Signed(s)
asn_long2INTEGER(v) == Canonical(Octets(v, LongOctets))

(* -- OBJECT IDENTIFIER: arcs in groups of seven bits, the first two as one *)
(*    number, which may take one octet more. set_single_arc leaves out the  *)
(*    leading octets that are zero, and of the m octets that remain the     *)
(*    bits that are no full group, when they are all zero. --------------- *)
Significant(v) == Min({k \in 1..(ArcOctets + 1) : ShiftRight(v, 8 * k) = 0})
set_single_arc(v) ==
  LET m == Significant(v)
      bits == (8 * m) % 7
      first == IF bits # 0 /\ ShiftRight(v, 8 * m - bits) # 0 THEN 1 ELSE 0
      n == first + ((8 * m) \div 7)
  IN [i \in 1..n |-> (ShiftRight(v, 7 * (n - i)) % 128) + IF i < n THEN 128 ELSE 0]

get_single_arc(b, add) ==
  LET bits == 8 * ArcOctets
      extra == 7 * Len(b) - bits
      v == Number(128, [i \in DOMAIN b |-> b[i] % 128]) + add
  IN IF extra > 8 \/ (extra > 0 /\ ShiftRight(b[1] % 128, 7 - extra) # 0) \/ v < 0
     THEN Failed ELSE v

(* An arc wider than int is compared by its low octet only.                 *)
OBJECT_IDENTIFIER_set_arcs(arcs) ==
  LET seen(a) == IF ArcOctets \in {1, 2, 4} THEN a ELSE a % 256
      arc0 == seen(arcs[1])
      arc1 == seen(arcs[2])
      rest == [i \in 1..(Len(arcs) - 2) |-> set_single_arc(arcs[i + 2])]
  IN IF Len(arcs) < 2 THEN Failed
     ELSE IF arc0 > 2 \/ (arc0 <= 1 /\ arc1 >= 39) THEN Failed
     ELSE set_single_arc(40 * arc0 + arcs[2]) \o FlattenSeq(rest)

(* The octets of each arc, in order, and where the next one starts; what is *)
(* left unfinished is dropped.                                              *)
ArcLoop(b) ==
  LET loop[i \in 0..Len(b)] ==
        IF i = 0 THEN [startn |-> 1, arcs |-> <<>>]
        ELSE LET at == loop[i - 1]
             IN IF b[i] >= 128 THEN at
                ELSE [startn |-> i + 1, arcs |-> Append(at.arcs, SubSeq(b, at.startn, i))]
  IN loop
ArcsIn(b) == ArcLoop(b)[Len(b)].arcs

OBJECT_IDENTIFIER_get_arcs(b) ==
  LET arcs == ArcsIn(b)
      first == Head(arcs)
      root == IF Len(first) > 1 \/ first[1] >= 79 THEN 2 ELSE IF first[1] <= 39 THEN 0 ELSE 1
      got == <<root, get_single_arc(first, -40 * root)>>
               \o [k \in 1..(Len(arcs) - 1) |-> get_single_arc(arcs[k + 1], 0)]
  IN IF ArcOctets = 1 THEN Failed
     ELSE IF arcs = <<>> THEN <<>>
     ELSE IF \E k \in 2..Len(got) : got[k] = Failed THEN Failed ELSE got

RELATIVE_OID_set_arcs(arcs) ==
  FlattenSeq([i \in DOMAIN arcs |-> set_single_arc(arcs[i])])
RELATIVE_OID_get_arcs(b) ==
  LET arcs == ArcsIn(b)
      got == [k \in DOMAIN arcs |-> get_single_arc(arcs[k], 0)]
  IN IF \E k \in DOMAIN got : got[k] = Failed THEN Failed ELSE got
=============================================================================
