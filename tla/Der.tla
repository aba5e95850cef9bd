-------------------------------- MODULE Der --------------------------------
(* The DER encoders: der_encoder.c and the *_encode_der functions.  The     *)
(* code runs an encoder twice, without a callback to learn the size and     *)
(* with one to write; here a run returns both, [size, out].  size is what   *)
(* the estimates add up to, out the octets that are really written.         *)
EXTENDS Tlv, Types, Prim, Times

RECURSIVE DerEncode(_, _, _, _), WriteTags(_, _, _)

(* The tags of the type, with the one given: in front of them if EXPLICIT,  *)
(* instead of the first if IMPLICIT.                                        *)
TagsOf(t, mode, tag) ==
  IF mode = 0 THEN t.tags
  ELSE <<tag>> \o (IF mode = -1 /\ t.tags # <<>> THEN Tail(t.tags) ELSE t.tags)

(* From right to left: each length counts the tags and lengths inside.      *)
WriteTags(tags, length, lastForm) ==
  LET n == Len(tags)
      inner == WriteTags(Tail(tags), length, lastForm)
      around == inner.size + length
  IN IF n = 0 THEN [size |-> 0, out |-> <<>>]
     ELSE [size |-> inner.size + TLSize(tags[1], around),
           out |-> TLOctets(tags[1], around, lastForm \/ n > 1) \o inner.out]

der_write_tags(t, length, mode, lastForm, tag) ==
  WriteTags(TagsOf(t, mode, tag), length, lastForm)

(* Tags around contents that are already encoded.                           *)
Wrap(t, contents, mode, form, tag) ==
  LET tl == der_write_tags(t, contents.size, mode, form, tag)
  IN [size |-> tl.size + contents.size, out |-> tl.out \o contents.out]

der_encode_primitive(t, st, mode, tag) == Wrap(t, Flat(st.buf), mode, FALSE, tag)
INTEGER_encode_der(t, st, mode, tag) ==
  Wrap(t, Flat(Canonical(st.buf)), mode, FALSE, tag)
NativeInteger_encode_der(t, st, mode, tag) ==
  INTEGER_encode_der(t, [buf |-> Octets(st.value, LongOctets)], mode, tag)
BOOLEAN_encode_der(t, st, mode, tag) ==
  Wrap(t, Flat(<<IF st.value # 0 THEN 255 ELSE 0>>), mode, FALSE, tag)
NULL_encode_der(t, mode, tag) == Wrap(t, Flat(<<>>), mode, FALSE, tag)

(* ANY writes its contents as they are, within an EXPLICIT tag if it has    *)
(* one; BIT STRING writes an octet in front and clears the unused bits.     *)
OCTET_STRING_encode_der(t, st, mode, tag) ==
  LET n == Len(st.buf)
      unit == 2^st.unused
      stripped == IF n > 0 THEN [st.buf EXCEPT ![n] = (@ \div unit) * unit] ELSE <<>>
  IN CASE t.variant = "ANY" /\ mode # 1 -> Flat(st.buf)
       [] t.variant = "ANY" /\ mode = 1 -> Wrap(t, Flat(st.buf), mode, TRUE, tag)
       [] t.variant = "BIT STRING" ->
            Wrap(t, Flat(<<st.unused % 8>> \o stripped), mode, FALSE, tag)
       [] OTHER -> Wrap(t, Flat(st.buf), mode, FALSE, tag)

(* A GeneralizedTime is written in its canonical form.                      *)
GeneralizedTime_encode_der(t, st, mode, tag) ==
  LET moment == asn_GT2time_frac(st.buf)
  IN IF moment = Failed THEN NoEncoding
     ELSE OCTET_STRING_encode_der(t, [st EXCEPT !.buf = asn_time2GT_frac(moment)], mode, tag)

(* A member that is not there is passed over if optional, fatal otherwise.  *)
Member(t, st, edx) ==
  LET el == El(t, edx)
  IN IF st.m[edx + 1] # Nil THEN DerEncode(el.type, st.m[edx + 1], el.mode, el.tag)
     ELSE IF el.optional > 0 THEN Flat(<<>>) ELSE NoEncoding
WrapMembers(t, parts, mode, tag) ==
  IF IsFailed(Join(parts)) THEN NoEncoding ELSE Wrap(t, Join(parts), mode, TRUE, tag)

SEQUENCE_encode_der(t, st, mode, tag) ==
  WrapMembers(t, [i \in 1..Len(t.els) |-> Member(t, st, i - 1)], mode, tag)

RECURSIVE OutmostTag(_, _, _, _)
OutmostTag(t, st, mode, tag) ==      \* asn_TYPE_outmost_tag, CHOICE_outmost_tag
  LET el == El(t, st.present - 1)
  IN IF mode # 0 THEN tag
     ELSE IF t.kind = "CHOICE" /\ t.tags = <<>> THEN OutmostTag(el.type, st.m, el.mode, el.tag)
     ELSE t.tags[1]
TagBefore(a, b) == a[1] < b[1] \/ (a[1] = b[1] /\ a[2] < b[2])     \* _t2e_cmp

(* Members in the order of their outmost tags; an absent one counts as 0.   *)
SET_encode_der(t, st, mode, tag) ==
  LET present == {edx \in 0..(Len(t.els) - 1) : st.m[edx + 1] # Nil}
      missing == (0..(Len(t.els) - 1)) \ present
      key(edx) == OutmostTag(El(t, edx).type, st.m[edx + 1], El(t, edx).mode, El(t, edx).tag)
      order == SetToSortSeq(present, LAMBDA x, y : TagBefore(key(x), key(y)))
  IN IF \E edx \in missing : El(t, edx).optional = 0 THEN NoEncoding
     ELSE WrapMembers(t, [i \in DOMAIN order |-> Member(t, st, order[i])], mode, tag)

CHOICE_encode_der(t, st, mode, tag) ==
  LET el == El(t, st.present - 1)
      value == DerEncode(el.type, st.m, el.mode, el.tag)
  IN IF st.present \notin 1..Len(t.els) THEN NoEncoding
     ELSE IF st.m = Nil THEN IF el.optional > 0 THEN Flat(<<>>) ELSE NoEncoding
     ELSE IF IsFailed(value) THEN NoEncoding
     ELSE IF mode = 1 \/ t.tags # <<>> THEN Wrap(t, value, mode, TRUE, tag)
     ELSE value

Items(t, st) ==
  [i \in DOMAIN st.list |-> DerEncode(El(t, 0).type, st.list[i], 0, El(t, 0).tag)]
SEQUENCE_OF_encode_der(t, st, mode, tag) == WrapMembers(t, Items(t, st), mode, tag)
SET_OF_encode_der(t, st, mode, tag) ==
  WrapMembers(t, SortSeq(Items(t, st), LAMBDA x, y : OctetsBefore(x.out, y.out)), mode, tag)

DerEncode(t, st, mode, tag) ==
  CASE t.kind = "SEQUENCE" -> SEQUENCE_encode_der(t, st, mode, tag)
    [] t.kind = "SET" -> SET_encode_der(t, st, mode, tag)
    [] t.kind = "CHOICE" -> CHOICE_encode_der(t, st, mode, tag)
    [] t.kind = "SET OF" -> SET_OF_encode_der(t, st, mode, tag)
    [] t.kind = "SEQUENCE OF" -> SEQUENCE_OF_encode_der(t, st, mode, tag)
    [] t.kind = "STRING" /\ t.charset = "GeneralizedTime" ->
         GeneralizedTime_encode_der(t, st, mode, tag)
    [] t.kind = "STRING" /\ t.charset # "GeneralizedTime" ->
         OCTET_STRING_encode_der(t, st, mode, tag)
    [] t.kind = "BOOLEAN" -> BOOLEAN_encode_der(t, st, mode, tag)
    [] t.kind = "NULL" -> NULL_encode_der(t, mode, tag)
    [] t.kind \in {"INTEGER", "ENUMERATED"} -> INTEGER_encode_der(t, st, mode, tag)
    [] t.kind = "NativeInteger" -> NativeInteger_encode_der(t, st, mode, tag)
    [] OTHER -> der_encode_primitive(t, st, mode, tag)

der_encode(t, st) == DerEncode(t, st, 0, Nil)
=============================================================================
