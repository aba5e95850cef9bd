-------------------------------- MODULE Uper --------------------------------
(* The UNALIGNED PER codec: per_support.c, per_encoder.c, per_decoder.c and  *)
(* the *_uper functions of the types.  A stream is a sequence of bits.  A    *)
(* decoder takes a type, the constraints of the member it decodes (Nil: the  *)
(* type's own) and a position at; it returns [code, at, st] and cannot be    *)
(* called again for more.  An encoder takes the stream written so far.       *)
EXTENDS Tlv, Types, Prim

CONSTANT TmpSpace    \* sizeof(po->tmpspace): bits gathered before a flush

RECURSIVE UperDecode(_, _, _, _), UperEncode(_, _, _, _)

(* -- reading bits -------------------------------------------------------- *)
per_get_few_bits(b, at, n) ==        \* -1 if they are not there
  IF n \notin 0..31 \/ at + n > Len(b) THEN -1 ELSE Number(2, SubSeq(b, at + 1, at + n))

(* Whole octets from the left; the last is filled up with zeros.             *)
per_get_many_bits(b, at, n) ==
  LET bit(i) == IF i <= n THEN b[at + i] ELSE 0
  IN [k \in 1..((n + 7) \div 8) |-> Number(2, [j \in 1..8 |-> bit(8 * (k - 1) + j)])]

(* A length, and whether another length follows the units it announces.      *)
uper_get_length(b, at, ebits) ==
  LET first == per_get_few_bits(b, at, 8)
      second == per_get_few_bits(b, at + 8, 8)
      m == first % 64
      once(len, used) == [len |-> len, at |-> at + used, repeat |-> FALSE]
  IN CASE ebits >= 0 -> once(per_get_few_bits(b, at, ebits), ebits)
       [] ebits < 0 /\ first < 128 -> once(first, 8)
       [] ebits < 0 /\ first \in 128..191 ->
            once(IF second < 0 THEN -1 ELSE m * 256 + second, 16)
       [] OTHER -> IF m \in 1..4 THEN [len |-> 16384 * m, at |-> at + 8, repeat |-> TRUE]
                   ELSE once(-1, 8)

(* A normally small number: six bits, or an octet count and its octets.      *)
uper_get_nsnnwn(b, at) ==
  LET small == per_get_few_bits(b, at, 7)
      more == per_get_few_bits(b, at + 7, 2)
      count == (small - 64) * 4 + more
  IN CASE small < 64 -> [v |-> small, at |-> at + 7]
       [] small >= 64 /\ (more < 0 \/ count >= 3) -> [v |-> -1, at |-> at + 7]
       [] OTHER -> [v |-> per_get_few_bits(b, at + 9, 8 * count), at |-> at + 9 + 8 * count]

(* -- writing bits: [bits, code, unset].  unset tells that an encoder        *)
(*    returned without setting er.encoded, which its caller compares with -1.*)
(*    A field that does not fit in four octets, or in tmpspace, is not       *)
(*    written as it was meant: "BROKEN". ----------------------------------- *)
NoBits == [bits |-> <<>>, code |-> "OK", unset |-> FALSE]
Failing(po) == [po EXCEPT !.code = IF @ = "OK" THEN "FAIL" ELSE @]
Unset(po) == [po EXCEPT !.unset = TRUE]

per_put_few_bits(po, v, n) ==
  LET off == Len(po.bits)
      bit(i) == (v \div 2^(n - i)) % 2
  IN IF po.code # "OK" THEN po
     ELSE IF n \notin 0..31 THEN Failing(po)
     ELSE IF (off % 8) + n > 31 \/ off + n > TmpSpace THEN [po EXCEPT !.code = "BROKEN"]
     ELSE [po EXCEPT !.bits = @ \o [i \in 1..n |-> bit(i)]]

per_put_many_bits(po, octets, n) ==  \* octet by octet, the last from its left
  LET put(p, k) ==
        LET left == Min({8, n - 8 * (k - 1)})
        IN per_put_few_bits(p, octets[k] \div 2^(8 - left), left)
  IN FoldLeft(put, po, [k \in 1..((n + 7) \div 8) |-> k])

uper_put_nsnnwn(po, n) ==
  LET octets == Min({k \in 1..3 : n < 256^k \/ k = 3})
  IN IF n < 0 THEN Failing(po)
     ELSE IF n <= 63 THEN per_put_few_bits(po, n, 7)
     ELSE per_put_few_bits(per_put_few_bits(po, octets, 8), n, 8 * octets)

(* How many units may follow, and the length written for them.               *)
MayPut(length) == IF length < 16384 THEN length ELSE 16384 * Min({4, length \div 16384})
uper_put_length(po, length) ==
  IF length <= 127 THEN per_put_few_bits(po, length, 8)
  ELSE IF length < 16384 THEN per_put_few_bits(po, 32768 + length, 16)
  ELSE per_put_few_bits(po, 192 + MayPut(length) \div 16384, 8)

(* -- decoders ------------------------------------------------------------ *)
Got(st, at) == [code |-> "OK", at |-> at, st |-> st]
Starved(st) == [code |-> "WMORE", at |-> 0, st |-> st]
Refused(st) == [code |-> "FAIL", at |-> 0, st |-> st]
(* The extension bit of a constraint: past it, and the constraint left.      *)
Extended(ct, b, at) ==
  LET bit == per_get_few_bits(b, at, 1)
  IN IF ct = Nil \/ ~ct.ext THEN [starved |-> FALSE, ct |-> ct, at |-> at]
     ELSE [starved |-> bit < 0, ct |-> IF bit = 1 THEN Nil ELSE ct, at |-> at + 1]
Constraint(t, per, part) ==      \* part is "value" or "size"
  IF per # Nil THEN per[part] ELSE IF t.per # Nil THEN t.per[part] ELSE Nil

BOOLEAN_decode_uper(t, b, at) ==
  LET bit == per_get_few_bits(b, at, 1)
  IN IF bit < 0 THEN Refused(Calloc(t)) ELSE Got([value |-> bit], at + 1)
NULL_decode_uper(t, at) == Got(Calloc(t), at)

(* The octets of a number, in fragments.                                     *)
RECURSIVE Fragments(_, _, _)
Fragments(b, at, buf) ==
  LET l == uper_get_length(b, at, -1)
      all == buf \o per_get_many_bits(b, l.at, 8 * l.len)
  IN IF l.len < 0 \/ l.at + 8 * l.len > Len(b) THEN [code |-> "WMORE"]
     ELSE IF l.repeat THEN Fragments(b, l.at + 8 * l.len, all)
     ELSE [code |-> "OK", at |-> l.at + 8 * l.len, buf |-> all]

INTEGER_decode_uper(t, per, b, at) ==
  LET x == Extended(Constraint(t, per, "value"), b, at)
      bounded == x.ct # Nil /\ x.ct.kind # "NONE" /\ x.ct.range >= 0
      v == per_get_few_bits(b, x.at, x.ct.range)
      f == Fragments(b, x.at, IF x.ct # Nil /\ x.ct.kind = "SEMI" THEN <<0>> ELSE <<>>)
      above == asn_INTEGER2long(f.buf)
      st == Calloc(t)
  IN IF x.starved \/ (bounded /\ v < 0) THEN Starved(st)
     ELSE IF bounded THEN Got([buf |-> asn_long2INTEGER(v + x.ct.lb)], x.at + x.ct.range)
     ELSE IF f.code # "OK" THEN Starved(st)
     ELSE IF x.ct = Nil \/ x.ct.lb = 0 THEN Got([buf |-> f.buf], f.at)
     ELSE IF above = Failed THEN Refused(st)
     ELSE Got([buf |-> asn_long2INTEGER(above + x.ct.lb)], f.at)

NativeInteger_decode_uper(t, per, b, at) ==
  LET r == INTEGER_decode_uper(t, per, b, at)
  IN IF r.code # "OK" THEN [r EXCEPT !.st = Calloc(t)]
     ELSE IF asn_INTEGER2long(r.st.buf) = Failed THEN Refused(Calloc(t))
     ELSE [r EXCEPT !.st = [value |-> asn_INTEGER2long(r.st.buf)]]

(* enums: the values in order; extension: 1 + the index of the first added.  *)
Roots(t) == IF t.extension > 0 THEN t.extension - 1 ELSE Len(t.enums)
NativeEnumerated_decode_uper(t, per, b, at) ==
  LET ct == Constraint(t, per, "value")
      x == Extended(ct, b, at)
      root == x.ct # Nil /\ x.ct.range >= 0
      r == IF root THEN [v |-> per_get_few_bits(b, x.at, x.ct.range), at |-> x.at + x.ct.range]
           ELSE uper_get_nsnnwn(b, x.at)
      index == IF root THEN r.v ELSE r.v + t.extension - 1
  IN IF ct = Nil \/ (~root /\ t.extension = 0) THEN Refused(Calloc(t))
     ELSE IF x.starved \/ r.v < 0 THEN Starved(Calloc(t))
     ELSE IF index >= (IF root THEN Roots(t) ELSE Len(t.enums)) THEN Refused(Calloc(t))
     ELSE Got([buf |-> asn_long2INTEGER(t.enums[index + 1])], r.at)

Unsized == [kind |-> "SEMI", ext |-> FALSE, range |-> -1, eff |-> -1, lb |-> 0, ub |-> 0]
UnitBits(t) == IF t.variant = "BIT STRING" THEN 1 ELSE 8
Sized(ct) == IF ct = Nil THEN Unsized ELSE ct

RECURSIVE StringParts(_, _, _, _, _)
StringParts(t, ct, b, at, st) ==
  LET l == uper_get_length(b, at, ct.eff)
      units == l.len + ct.lb
      n == units * UnitBits(t)
      more == [st EXCEPT !.buf = @ \o per_get_many_bits(b, l.at, n),
                         !.unused = IF n % 8 # 0 THEN 8 - (n % 8) ELSE @]
  IN IF l.len < 0 \/ l.at + n > Len(b) THEN Starved(st)
     ELSE IF l.repeat THEN StringParts(t, ct, b, l.at + n, more)
     ELSE Got(more, l.at + n)

OCTET_STRING_decode_uper(t, per, b, at) ==
  LET x == Extended(Sized(Constraint(t, per, "size")), b, at)
      ct == Sized(x.ct)
      n == UnitBits(t) * ct.ub
      whole == [Calloc(t) EXCEPT !.buf = per_get_many_bits(b, x.at, n),
                                 !.unused = (8 - (n % 8)) % 8]
  IN IF x.starved \/ (ct.eff = 0 /\ x.at + n > Len(b)) THEN Starved(Calloc(t))
     ELSE IF ct.eff = 0 THEN Got(whole, x.at + n)
     ELSE StringParts(t, ct, b, x.at, Calloc(t))

(* The alternatives go by their canonical order, if the type has a table.    *)
Reordered(t, index) == IF t.canonical = Nil THEN index ELSE t.canonical[index + 1]

CHOICE_decode_uper(t, per, b, at) ==
  LET x == Extended(Constraint(t, per, "value"), b, at)
      v == per_get_few_bits(b, x.at, x.ct.range)
      index == Reordered(t, v)
      r == UperDecode(El(t, index).type, El(t, index).per, b, x.at + x.ct.range)
  IN IF x.starved THEN Starved(Calloc(t))
     ELSE IF x.ct = Nil \/ x.ct.range < 0        \* an extension
     THEN IF t.extStart = -1 \/ uper_get_nsnnwn(b, x.at).v >= 0 THEN Refused(Calloc(t))
          ELSE Starved(Calloc(t))
     ELSE IF v < 0 THEN Starved(Calloc(t))
     ELSE IF v > x.ct.ub THEN Refused(Calloc(t))
     ELSE [r EXCEPT !.st = [Calloc(t) EXCEPT !.present = index + 1, !.m = r.st]]

(* A SEQUENCE: extension bit, presence bits of the optional root members,    *)
(* members.  The end of the root is taken to be where extensions stop.       *)
Optionals(t, additions) ==
  SelectSeq([i \in 1..Len(t.els) |-> i - 1],
            LAMBDA e : El(t, e).optional > 0 /\ InExtensions(t, e) = additions)
Roms(t) == Optionals(t, FALSE)
RootEnd(t) == IF t.extBefore < 0 THEN Len(t.els) ELSE t.extBefore + 1

SEQUENCE_decode_uper(t, b, at) ==
  LET ext == IF t.extBefore >= 0 THEN per_get_few_bits(b, at, 1) ELSE 0
      map == at + IF t.extBefore >= 0 THEN 1 ELSE 0
      rank(edx) == Cardinality({i \in DOMAIN Roms(t) : Roms(t)[i] < edx})
      absent(edx) == edx \in ToSet(Roms(t)) /\ b[map + rank(edx) + 1] = 0
      member(acc, edx) ==
        LET el == El(t, edx)
            r == UperDecode(el.type, el.per, b, acc.at)
        IN IF acc.code # "OK" THEN acc
           ELSE IF edx >= Len(t.els) THEN [acc EXCEPT !.code = "UNDEFINED"]
           ELSE IF absent(edx) THEN [acc EXCEPT !.st.m[edx + 1] = el.default]
           ELSE [r EXCEPT !.st = [acc.st EXCEPT !.m[edx + 1] = r.st]]
      all == FoldLeft(member, Got(Calloc(t), map + Len(Roms(t))),
                      [i \in 1..RootEnd(t) |-> i - 1])
      additions == Len(Roms(t)) .. (Len(Roms(t)) + Len(Optionals(t, TRUE)) - 1)
      filled == [i \in 1..Len(t.els) |->
                   IF (i - 1) \in additions /\ t.els[i].default # Nil
                   THEN t.els[i].default ELSE all.st.m[i]]
  IN IF ext < 0 \/ map + Len(Roms(t)) > Len(b) THEN Starved(Calloc(t))
     ELSE IF all.code # "OK" THEN all
     ELSE IF ext = 1 THEN Refused(all.st)
     ELSE [all EXCEPT !.st.m = filled]

(* A list: a count of a bounded width, or fragments with their lengths.      *)
RECURSIVE ListParts(_, _, _, _)
ListParts(t, b, at, st) ==
  LET l == uper_get_length(b, at, -1)
      item(acc, i) ==
        LET r == UperDecode(El(t, 0).type, El(t, 0).per, b, acc.at)
        IN IF acc.code # "OK" THEN acc
           ELSE [r EXCEPT !.st = IF r.code = "OK" THEN Append(acc.st, r.st) ELSE acc.st]
      items == FoldLeft(item, Got(st.list, l.at), [i \in 1..l.len |-> i])
      now == [items EXCEPT !.st = [st EXCEPT !.list = items.st]]
  IN IF l.len < 0 THEN Starved(st)
     ELSE IF now.code = "OK" /\ l.repeat THEN ListParts(t, b, now.at, now.st) ELSE now

SET_OF_decode_uper(t, per, b, at) ==
  LET x == Extended(Constraint(t, per, "size"), b, at)
      n == per_get_few_bits(b, x.at, x.ct.eff)
      item(acc, i) ==
        LET r == UperDecode(El(t, 0).type, El(t, 0).per, b, acc.at)
        IN IF acc.code # "OK" THEN acc
           ELSE [r EXCEPT !.st = IF r.code = "OK" THEN Append(acc.st, r.st) ELSE acc.st]
      items == FoldLeft(item, Got(<<>>, x.at + x.ct.eff), [i \in 1..(n + x.ct.lb) |-> i])
  IN IF x.starved THEN Starved(Calloc(t))
     ELSE IF x.ct = Nil \/ x.ct.eff < 0 THEN ListParts(t, b, x.at, Calloc(t))
     ELSE IF n < 0 THEN Starved(Calloc(t))
     ELSE [items EXCEPT !.st = [Calloc(t) EXCEPT !.list = items.st]]

UperDecode(t, per, b, at) ==
  CASE t.kind = "SEQUENCE" -> SEQUENCE_decode_uper(t, b, at)
    [] t.kind = "CHOICE" -> CHOICE_decode_uper(t, per, b, at)
    [] t.kind \in {"SET OF", "SEQUENCE OF"} -> SET_OF_decode_uper(t, per, b, at)
    [] t.kind = "STRING" -> OCTET_STRING_decode_uper(t, per, b, at)
    [] t.kind = "BOOLEAN" -> BOOLEAN_decode_uper(t, b, at)
    [] t.kind = "NULL" -> NULL_decode_uper(t, at)
    [] t.kind = "NativeInteger" -> NativeInteger_decode_uper(t, per, b, at)
    [] t.kind = "INTEGER" -> INTEGER_decode_uper(t, per, b, at)
    [] t.kind = "ENUMERATED" -> NativeEnumerated_decode_uper(t, per, b, at)

(* Octets at hand to bits and back; a decoder that is not done took nothing. *)
Bits(octets) ==
  [i \in 1..(8 * Len(octets)) |-> (octets[(i + 7) \div 8] \div 2^((8 - (i % 8)) % 8)) % 2]
uper_decode(t, octets) ==
  LET r == UperDecode(t, Nil, Bits(octets), 0)
  IN [code |-> r.code, st |-> r.st,
      consumed |-> IF r.code = "OK" THEN r.at ELSE 0]     \* bits

(* -- encoders ------------------------------------------------------------ *)
Within(ct, v) == ct.lb <= v /\ (ct.kind = "SEMI" \/ v <= ct.ub)

(* Octets in fragments, each with its length.                                *)
RECURSIVE PutParts(_, _, _)
PutParts(po, octets, n) ==           \* n octets
  LET k == MayPut(n)
      now == per_put_many_bits(uper_put_length(po, n), octets, 8 * k)
  IN IF n = 0 \/ po.code # "OK" THEN po ELSE PutParts(now, DropFirst(octets, k), n - k)

INTEGER_encode_uper(t, per, buf, po) ==
  LET ct0 == Constraint(t, per, "value")
      v == asn_INTEGER2long(buf)
      checked == ct0 # Nil /\ (ct0.kind = "SEMI" \/ ct0.range >= 0)
      outside == checked /\ ~Within(ct0, v)
      po1 == IF ct0 # Nil /\ ct0.ext
             THEN per_put_few_bits(po, IF outside THEN 1 ELSE 0, 1) ELSE po
      ct == IF outside THEN Nil ELSE ct0
  IN IF buf = <<>> \/ (ct0 # Nil /\ (v = Failed \/ (outside /\ ~ct0.ext))) THEN Failing(po)
     ELSE IF ct # Nil /\ ct.range >= 0 THEN per_put_few_bits(po1, v - ct.lb, ct.range)
     ELSE IF ct # Nil /\ ct.lb # 0 THEN Failing(po)
     ELSE PutParts(po1, buf, Len(buf))

(* The extension bit is put with a width of 0 bits, that is, not at all.     *)
NativeEnumerated_encode_uper(t, per, v, po) ==
  LET ct == Constraint(t, per, "value")
      at == {i \in DOMAIN t.enums : t.enums[i] = v}
      index == Min(at) - 1
      added == ct.range >= 0 /\ index >= Roots(t)
  IN IF ct = Nil \/ v < 0 \/ at = {} \/ (added /\ ~ct.ext) THEN Failing(po)
     ELSE IF ~ct.ext /\ ct.range >= 0 THEN per_put_few_bits(po, index, ct.range)
     ELSE IF t.extension = 0 THEN Failing(po)
     ELSE uper_put_nsnnwn(po, index - (t.extension - 1))

OCTET_STRING_encode_uper(t, per, st, po) ==
  LET ct0 == Sized(Constraint(t, per, "size"))
      unit == UnitBits(t)
      units == IF unit = 1 THEN 8 * Len(st.buf) - st.unused ELSE Len(st.buf)
      outside == ct0.eff >= 0 /\ units \notin ct0.lb..ct0.ub
      ct == IF outside THEN Unsized ELSE ct0
      po1 == IF ct0.ext THEN per_put_few_bits(po, IF outside THEN 1 ELSE 0, 1) ELSE po
      sized == per_put_few_bits(po1, units - ct.lb, ct.eff)
  IN IF outside /\ ~ct0.ext THEN Failing(po)
     ELSE IF ct.eff >= 0 THEN Unset(per_put_many_bits(sized, st.buf, units * unit))
     ELSE IF units = 0 THEN Unset(uper_put_length(po1, 0))
     ELSE IF unit = 8 THEN Unset(PutParts(po1, st.buf, units))
     ELSE Unset(per_put_many_bits(uper_put_length(po1, units), st.buf, units))

(* The table is also used to pick the member, so that where it changes the   *)
(* order the union is read as another of its alternatives: "UNDEFINED".      *)
CHOICE_encode_uper(t, per, st, po) ==
  LET ct == Constraint(t, per, "value")
      index == Reordered(t, st.present - 1)
      root == ct # Nil /\ ct.range >= 0 /\ Within(ct, index)
      po1 == IF ct.ext THEN per_put_few_bits(po, 0, 1) ELSE po
  IN IF st.present \notin 1..Len(t.els) \/ ~root THEN Failing(po)
     ELSE IF index # st.present - 1 THEN [po EXCEPT !.code = "UNDEFINED"]
     ELSE UperEncode(El(t, index).type, El(t, index).per, st.m,
                     per_put_few_bits(po1, index, ct.range))

SEQUENCE_encode_uper(t, st, po) ==
  LET written(edx) == st.m[edx + 1] \notin {Nil, El(t, edx).default}
      put(p, edx) == per_put_few_bits(p, IF written(edx) THEN 1 ELSE 0, 1)
      member(p, edx) ==
        IF written(edx) THEN UperEncode(El(t, edx).type, El(t, edx).per, st.m[edx + 1], p)
        ELSE IF El(t, edx).optional > 0 THEN p ELSE Failing(p)
  IN IF t.extBefore >= 0 THEN Failing(po)
     ELSE FoldLeft(member, FoldLeft(put, po, Roms(t)), [i \in 1..Len(t.els) |-> i - 1])

(* Not written in fragments here: lists are shorter than 16384.              *)
SEQUENCE_OF_encode_uper(t, per, st, po) ==
  LET ct0 == Constraint(t, per, "size")
      n == Len(st.list)
      outside == ct0 # Nil /\ n \notin ct0.lb..ct0.ub
      po1 == IF ct0 # Nil /\ ct0.ext
             THEN per_put_few_bits(po, IF outside THEN 1 ELSE 0, 1) ELSE po
      bounded == ct0 # Nil /\ ~(outside /\ ct0.ext) /\ ct0.eff >= 0
      po2 == IF bounded THEN per_put_few_bits(po1, n - ct0.lb, ct0.eff)
             ELSE uper_put_length(po1, n)
  IN IF bounded /\ outside THEN Failing(po)
     ELSE FoldLeft(LAMBDA p, item : UperEncode(El(t, 0).type, El(t, 0).per, item, p),
                   po2, st.list)

UperEncode(t, per, st, po) ==
  CASE po.code # "OK" -> po
    [] t.kind = "SEQUENCE" -> SEQUENCE_encode_uper(t, st, po)
    [] t.kind = "CHOICE" -> CHOICE_encode_uper(t, per, st, po)
    [] t.kind = "SEQUENCE OF" -> SEQUENCE_OF_encode_uper(t, per, st, po)
    [] t.kind = "STRING" -> OCTET_STRING_encode_uper(t, per, st, po)
    [] t.kind = "BOOLEAN" -> Unset(per_put_few_bits(po, IF st.value # 0 THEN 1 ELSE 0, 1))
    [] t.kind = "NULL" -> po
    [] t.kind = "NativeInteger" ->
         INTEGER_encode_uper(t, per, asn_long2INTEGER(st.value), po)
    [] t.kind = "INTEGER" -> INTEGER_encode_uper(t, per, st.buf, po)
    [] t.kind = "ENUMERATED" ->
         NativeEnumerated_encode_uper(t, per, asn_INTEGER2long(st.buf), po)

(* uper_encode, with the octets it writes: the last is filled up with zeros. *)
uper_encode(t, st) ==
  LET po == UperEncode(t, Nil, st, NoBits)
  IN [code |-> po.code, unset |-> po.unset, bits |-> Len(po.bits),
      out |-> per_get_many_bits(po.bits, 0, Len(po.bits))]
=============================================================================
