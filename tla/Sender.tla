------------------------------- MODULE Sender -------------------------------
(* The other end of a transfer: any sender that obeys X.690.  Legal gives   *)
(* the encodings it may choose from for a value; it is written from the     *)
(* rules of BER, not from this library, and is what the decoders and the    *)
(* DER encoder are compared with.                                           *)
EXTENDS Tlv, Values

CONSTANTS
  Unknown      \* the TLVs a newer version of a type may send as extensions

RECURSIVE Legal(_, _, _, _, _, _), Rows(_)

(* An arc in the fewest groups of seven bits.                               *)
Groups[v \in Nat] == IF v < 128 THEN <<v>> ELSE Groups[v \div 128] \o <<v % 128>>
Arc(v) == LET g == Groups[v] IN [i \in DOMAIN g |-> g[i] + IF i < Len(g) THEN 128 ELSE 0]

Cat(S, T) == {a \o b : a \in S, b \in T}
Rows(sets) ==      \* one member of each set, in this order, put together
  IF sets = <<>> THEN {<<>>} ELSE Cat(Head(sets), Rows(Tail(sets)))

TLV(tag, constructed, contents) == TLOctets(tag, Len(contents), constructed) \o contents
Indefinite(tag, contents) ==
  LET t == TagOctets(tag)
  IN [t EXCEPT ![1] = @ + 32] \o <<128>> \o contents \o <<0, 0>>

(* How a sender frames what is inside: style.open says at which depths      *)
(* (even, odd) it uses the indefinite length, style.cut how it cuts strings.*)
Styles == [open : [{0, 1} -> BOOLEAN], cut : {"whole", "cut", "nested", "open"}]
DerStyle == [open |-> [d \in {0, 1} |-> FALSE], cut |-> "whole"]
Framed(style, depth, tag, contents) ==
  IF style.open[depth % 2] THEN Indefinite(tag, contents) ELSE TLV(tag, TRUE, contents)

(* The tags in front of a value.  A chain of several tags is all definite   *)
(* here: a chain of indefinite lengths is left out (see the README).        *)
ChainOf(t, mode, tag) ==
  IF mode = 0 THEN t.tags
  ELSE IF mode = 1 THEN <<tag>> \o t.tags ELSE <<tag>> \o Tail(t.tags)
Chain(style, depth, tags, constructed, contents) ==
  LET inner == TLV(Last(tags), constructed, contents)
  IN IF Len(tags) > 1 THEN TLV(tags[1], TRUE, inner)
     ELSE IF constructed THEN Framed(style, depth, tags[1], contents) ELSE inner

(* A string may be cut in two; the two segments may be nested again.  The   *)
(* restricted strings, of which the library refuses the segments, are whole. *)
LegalString(t, v, mode, tag, style, depth) ==
  LET seg == Last(t.allTags)
      tags == ChainOf(t, mode, tag)
      k == Len(v.buf) \div 2
      lead(unused) == IF t.variant = "BIT STRING" THEN <<unused>> ELSE <<>>
      left == TLV(seg, FALSE, lead(0) \o SubSeq(v.buf, 1, k))
      right == TLV(seg, FALSE, lead(v.unused) \o SubSeq(v.buf, k + 1, Len(v.buf)))
  IN CASE t.variant = "ANY" -> IF mode = 0 THEN v.buf ELSE Framed(style, depth, tag, v.buf)
       [] t.variant # "ANY" /\ (style.cut = "whole" \/ t.variant = "UTF8") ->
            Chain(style, depth, tags, FALSE, lead(v.unused) \o v.buf)
       [] style.cut = "cut" -> Chain(style, depth, tags, TRUE, left \o right)
       [] style.cut = "nested" ->
            Chain(style, depth, tags, TRUE, TLV(seg, TRUE, left) \o right)
       [] style.cut = "open" ->
            Chain(style, depth, tags, TRUE, Indefinite(seg, left \o right))

(* A time may be written in any of its forms, canonically in one.           *)
TimesOf(v, canonical) ==
  IF v.buf \notin DOMAIN Spellings THEN {v}
  ELSE {[v EXCEPT !.buf = b] : b \in {v.buf} \cup (IF canonical THEN {} ELSE ToSet(Spellings[v.buf]))}

Orders(sets) ==
  {[i \in DOMAIN sets |-> sets[p[i]]] :
     p \in {q \in [DOMAIN sets -> DOMAIN sets] :
              \A i, j \in DOMAIN sets : i # j => q[i] # q[j]}}

(* Members in order, or in any for a SET.  Unknown TLVs stand where the     *)
(* extensions of a SEQUENCE begin and anywhere in an extensible SET.        *)
MemberRows(t, v, style, depth) ==
  LET el(i) == t.els[i]
      sets == [i \in 1..Len(t.els) |->
                 IF v[i] = Nil THEN {<<>>}
                 ELSE Legal(el(i).type, v[i], el(i).mode, el(i).tag, style, depth + 1)]
      newer == IF style = DerStyle THEN {<<>>} ELSE {<<>>} \cup Unknown
  IN IF t.kind = "SET"
     THEN UNION {Rows(o) : o \in Orders(IF t.extensible THEN Append(sets, newer) ELSE sets)}
     ELSE IF t.extBefore > t.extAfter + 1 THEN Rows(Append(sets, newer))
     ELSE Rows(sets)

Contents(t, v, style) ==
  CASE t.kind = "BOOLEAN" -> IF v THEN IF style = DerStyle THEN <<255>> ELSE <<1>> ELSE <<0>>
    [] t.kind = "NULL" -> <<>>
    [] t.kind \in {"INTEGER", "NativeInteger", "ENUMERATED"} ->
         Octets(v, Min({n \in 1..3 : -(2^(8 * n - 1)) <= v /\ v < 2^(8 * n - 1)}))
    [] t.kind = "RELATIVE-OID" -> FlattenSeq([i \in DOMAIN v |-> Arc(v[i])])
    [] t.kind = "OBJECT IDENTIFIER" ->
         Arc(40 * v[1] + v[2]) \o FlattenSeq([i \in 1..(Len(v) - 2) |-> Arc(v[i + 2])])

Legal(t, v, mode, tag, style, depth) ==
  LET tags == ChainOf(t, mode, tag)
      el == t.els[v.present]
      items == [i \in DOMAIN v |-> Legal(t.els[1].type, v[i], 0, Nil, style, depth + 1)]
  IN CASE t.kind \in {"SEQUENCE", "SET"} ->
            {Chain(style, depth, tags, TRUE, c) : c \in MemberRows(t, v, style, depth)}
       [] t.kind = "SEQUENCE OF" -> {Chain(style, depth, tags, TRUE, c) : c \in Rows(items)}
       [] t.kind = "SET OF" ->
            {Chain(style, depth, tags, TRUE, c) : c \in UNION {Rows(o) : o \in Orders(items)}}
       [] t.kind = "CHOICE" ->
            LET inside == Legal(el.type, v.v, el.mode, el.tag, style, depth + 1)
            IN IF mode = 1 THEN {Framed(style, depth, tag, c) : c \in inside} ELSE inside
       [] t.kind = "STRING" ->
            {LegalString(t, x, mode, tag, style, depth) :
               x \in IF IsTime(t) THEN TimesOf(v, style = DerStyle) ELSE {v}}
       [] OTHER -> {Chain(style, depth, tags, FALSE, Contents(t, v, style))}

(* -- the same for UNALIGNED PER, from X.691: one encoding for a value ------ *)
RECURSIVE PerBits(_, _, _)
Digit(v, n) == [i \in 1..n |-> (v \div 2^(n - i)) % 2]
OctetBits(b) ==
  [i \in 1..(8 * Len(b)) |-> (b[(i + 7) \div 8] \div 2^((8 - (i % 8)) % 8)) % 2]
PerLength(n) == IF n < 128 THEN Digit(n, 8) ELSE <<1, 0>> \o Digit(n, 14)
Fewest(v) == Min({n \in 1..3 : -(2^(8 * n - 1)) <= v /\ v < 2^(8 * n - 1)})
FewestUnsigned(v) == Min({n \in 1..3 : v < 2^(8 * n)})
Counted(b) == PerLength(Len(b)) \o OctetBits(b)

PerSeen(t, per, part) ==
  IF per # Nil THEN per[part] ELSE IF t.per # Nil THEN t.per[part] ELSE Nil

PerWhole(ct, v) ==
  LET free == Counted(Octets(v, Fewest(v)))
  IN IF ct = Nil THEN free
     ELSE IF ct.kind = "SEMI" THEN Counted(Octets(v - ct.lb, FewestUnsigned(v - ct.lb)))
     ELSE IF v \in ct.lb..ct.ub
     THEN (IF ct.ext THEN <<0>> ELSE <<>>) \o Digit(v - ct.lb, ct.range)
     ELSE <<1>> \o free

(* n units with their count in front, unless the size is fixed.              *)
PerUnits(ct, n, bits) ==
  IF ct = Nil \/ ct.kind = "SEMI" THEN PerLength(n) \o bits
  ELSE IF n \in ct.lb..ct.ub
  THEN (IF ct.ext THEN <<0>> ELSE <<>>) \o Digit(n - ct.lb, ct.eff) \o bits
  ELSE <<1>> \o PerLength(n) \o bits

PerMembers(t, v) ==
  LET here(i) == v[i] # Nil /\ Fill(t.els[i].type, v[i]) # t.els[i].default
      bit(i) == IF t.els[i].optional = 0 THEN <<>> ELSE IF here(i) THEN <<1>> ELSE <<0>>
      bits(i) == IF here(i) THEN PerBits(t.els[i].type, t.els[i].per, v[i]) ELSE <<>>
  IN FlattenSeq([i \in DOMAIN v |-> bit(i)]) \o FlattenSeq([i \in DOMAIN v |-> bits(i)])

PerBits(t, per, v) ==
  LET ct == PerSeen(t, per, "value")
      size == PerSeen(t, per, "size")
      index == Cardinality({i \in DOMAIN t.enums : t.enums[i] < v})
      low(i) == Min({256 * x[1] + x[2] : x \in OutmostTags(t.els[i])})
      rank == Cardinality({i \in DOMAIN t.els : low(i) < low(v.present)})
  IN CASE t.kind = "BOOLEAN" -> <<IF v THEN 1 ELSE 0>>
       [] t.kind = "NULL" -> <<>>
       [] t.kind \in {"INTEGER", "NativeInteger"} -> PerWhole(ct, v)
       [] t.kind = "ENUMERATED" /\ t.extension = 0 -> Digit(index, ct.range)
       [] t.kind = "ENUMERATED" /\ t.extension > 0 ->
            IF index < t.extension - 1 THEN <<0>> \o Digit(index, ct.range)
            ELSE <<1>> \o Digit(index - (t.extension - 1), 7)
       [] t.kind = "STRING" ->
            LET n == 8 * Len(v.buf) - v.unused
            IN PerUnits(size, IF t.variant = "BIT STRING" THEN n ELSE Len(v.buf),
                        SubSeq(OctetBits(v.buf), 1, n))
       [] t.kind = "CHOICE" ->
            (IF ct.ext THEN <<0>> ELSE <<>>) \o Digit(rank, ct.range)
              \o PerBits(t.els[v.present].type, t.els[v.present].per, v.v)
       [] t.kind = "SEQUENCE" -> PerMembers(t, v)
       [] t.kind = "SEQUENCE OF" ->
            PerUnits(size, Len(v), FlattenSeq(
              [i \in DOMAIN v |-> PerBits(t.els[1].type, t.els[1].per, v[i])]))

(* In whole octets.                                                          *)
PerLegal(t, v) ==
  LET b == PerBits(t, Nil, v)
      bit(i) == IF i <= Len(b) THEN b[i] ELSE 0
  IN [k \in 1..((Len(b) + 7) \div 8) |-> Number(2, [j \in 1..8 |-> bit(8 * (k - 1) + j)])]
=============================================================================
