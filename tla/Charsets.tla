------------------------------ MODULE Charsets ------------------------------
(* The characters of the restricted strings, and the constraint checks      *)
(* asn_check_constraints of all types: whether a structure, however it came *)
(* to be, holds a value of its type.                                        *)
EXTENDS Types, Times

(* -- UTF8String__process: the numbers of the characters, or Failed -------- *)
UTF8String_ht(c) ==       \* how long the sequence is that begins with c
  CASE c < 128 -> 1
    [] c \in 192..223 -> 2
    [] c \in 224..239 -> 3
    [] c \in 240..247 -> 4
    [] c \in 248..251 -> 5
    [] c \in 252..253 -> 6
    [] OTHER -> 0
UTF8String_mv == <<0, 128, 2048, 65536, 2097152, 67108864>>
IsTruncated_late(buf, want) == want >= Len(buf)
IsTruncated(buf, want) == want > Len(buf)

RECURSIVE UTF8String__process(_)
UTF8String__process(buf) ==
  LET want == UTF8String_ht(buf[1])
      value == FoldLeft(LAMBDA v, c : 64 * v + (c % 64), buf[1] % 2^(8 - want), SubSeq(buf, 2, want))
      others == UTF8String__process(SubSeq(buf, want + 1, Len(buf)))
  IN IF buf = <<>> THEN <<>>
     ELSE IF \/ want = 0 \/ IsTruncated(buf, want)
             \/ \E i \in 2..want : buf[i] \notin 128..191
             \/ value < UTF8String_mv[want] \/ others = Failed
     THEN Failed ELSE <<value>> \o others

(* -- the strings of wide characters: BMPString.c, UniversalString.c ------- *)
WideUnits(buf, unit) ==     \* what is left over at the end is dropped
  [k \in 1..(Len(buf) \div unit) |->
     Number(256, SubSeq(buf, unit * (k - 1) + 1, unit * k))]
WideOctets(chars, unit) ==
  FlattenSeq([k \in DOMAIN chars |-> [i \in 1..unit |-> (chars[k] \div 256^(unit - i)) % 256]])

(* -- the alphabets of the others: VisibleString.c, IA5String.c, ... -------- *)
Alphabet(charset) ==
  CASE charset = "Visible" -> 32..126
    [] charset = "IA5" -> 0..127
    [] charset = "Numeric" -> {32} \cup (48..57)
    [] charset = "Printable" ->
         {32, 39, 40, 41, 61, 63} \cup (43..58) \cup (65..90) \cup (97..122)

(* -- the checks ----------------------------------------------------------- *)
RECURSIVE asn_check_constraints(_, _)

(* A member that is no pointer is there in any case, filled with zeroes.    *)
MemberHolds(el, st) ==
  IF st = Nil /\ el.pointer THEN el.optional > 0
  ELSE asn_check_constraints(el.type, Given(el.type, st))

StringHolds(t, st) ==
  CASE t.variant = "BIT STRING" -> ~(Len(st.buf) = 1 /\ st.unused > 0)
    [] t.charset \in {"Visible", "IA5", "Numeric", "Printable"} ->
         ToSet(st.buf) \subseteq Alphabet(t.charset)
    [] t.charset = "UTF-8" -> UTF8String__process(st.buf) # Failed
    [] t.charset = "GeneralizedTime" -> asn_GT2time_frac(st.buf) # Failed
    [] t.charset = "UTCTime" -> asn_UT2time(st.buf) # Failed
    [] OTHER -> TRUE

asn_check_constraints(t, st) ==
  CASE t.kind \in {"SEQUENCE", "SET"} ->
         \A i \in DOMAIN t.els : MemberHolds(t.els[i], st.m[i])
    [] t.kind = "CHOICE" -> st.present > 0 /\ MemberHolds(t.els[st.present], st.m)
    [] t.kind \in {"SET OF", "SEQUENCE OF"} ->
         \A i \in DOMAIN st.list : asn_check_constraints(t.els[1].type, st.list[i])
    [] t.kind = "OBJECT IDENTIFIER" -> st.buf \notin {Nil, <<>>}
    [] t.kind = "STRING" -> StringHolds(t, st)
    [] OTHER -> TRUE
=============================================================================
