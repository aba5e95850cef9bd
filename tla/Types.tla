------------------------------- MODULE Types -------------------------------
(* What the codecs know of a type: the descriptors of constr_TYPE.h and the *)
(* specifics of the constructed types, as the ASN.1 compiler generates them *)
(* (those of fws and the sample are in module Envelope), and the structures *)
(* the decoders fill.                                                       *)
EXTENDS Integers, Sequences, FiniteSets, FiniteSetsExt, SequencesExt

CONSTANTS
  Nil,      \* the null pointer
  NoTag     \* (ber_tlv_tag_t)-1, the outmost tag of an untagged CHOICE

(* An element: flags (pointer, open), the number of optional members from   *)
(* this one on, its outmost tag and tag mode (-1 IMPLICIT, 1 EXPLICIT), its *)
(* DEFAULT and its constraints for PER, Nil if it has none.                 *)
Element(name, tag, mode, type) ==
  [name |-> name, tag |-> tag, mode |-> mode, type |-> type, optional |-> 0,
   pointer |-> FALSE, open |-> FALSE, mandatory |-> TRUE, default |-> Nil, per |-> Nil]
Optional(el, following) ==
  [el EXCEPT !.optional = following, !.pointer = TRUE, !.mandatory = FALSE]

(* A type.  tags are what is written in front of a value, allTags what a    *)
(* constructed string may nest; extAfter and extBefore delimit the          *)
(* extensions of a SEQUENCE by element numbers, counted from 0.             *)
Primitive(kind, tag) ==
  [kind |-> kind, tags |-> <<tag>>, allTags |-> <<tag>>, els |-> <<>>, per |-> Nil]
String(variant, tag) ==  \* a UTF8 variant is an IMPLICIT OCTET STRING
  [kind |-> "STRING", variant |-> variant, charset |-> "any", unit |-> 1, els |-> <<>>, per |-> Nil,
   tags |-> IF variant = "ANY" THEN <<>> ELSE <<tag>>,
   allTags |-> CASE variant = "ANY" -> <<>>
                 [] variant = "UTF8" -> <<tag, <<0, 4>>>>
                 [] OTHER -> <<tag>>]
Restricted(charset, tag) == [String("UTF8", tag) EXCEPT !.charset = charset]
Wide(unit, tag) == [String("UTF8", tag) EXCEPT !.unit = unit]   \* octets of a character
Time(charset, tag) == [Restricted(charset, tag) EXCEPT !.allTags = <<tag, <<0, 26>>, <<0, 4>>>>]
Sequence(tags, els, extAfter, extBefore) ==
  [kind |-> "SEQUENCE", tags |-> tags, allTags |-> tags, els |-> els,
   extAfter |-> extAfter, extBefore |-> extBefore]
Set(els, extensible) ==
  [kind |-> "SET", tags |-> <<<<0, 17>>>>, allTags |-> <<<<0, 17>>>>, els |-> els,
   extensible |-> extensible]
Choice(els, extStart) ==
  [kind |-> "CHOICE", tags |-> <<>>, allTags |-> <<>>, els |-> els,
   extStart |-> extStart, per |-> Nil, canonical |-> Nil]
ListOf(kind, el) ==     \* kind is "SET OF" or "SEQUENCE OF"
  LET tag == <<0, IF kind = "SET OF" THEN 17 ELSE 16>>
  IN [kind |-> kind, tags |-> <<tag>>, allTags |-> <<tag>>, els |-> <<el>>, per |-> Nil]

Enumerated(enums, extension) ==  \* extension: 1 + the index of the first addition, or 0
  [kind |-> "ENUMERATED", tags |-> <<<<0, 10>>>>, allTags |-> <<<<0, 10>>>>, els |-> <<>>,
   per |-> Nil, enums |-> enums, extension |-> extension]

(* What PER sees of a constraint: kind NONE, SEMI or FULL, the bits of its   *)
(* range (-1 for none) and, of a size, those of its length.                  *)
BitsFor(n) == Min({k \in 0..24 : n < 2^k})
Between(lb, ub, ext) ==
  [kind |-> "FULL", ext |-> ext, range |-> BitsFor(ub - lb), eff |-> BitsFor(ub - lb),
   lb |-> lb, ub |-> ub]
From(lb) == [kind |-> "SEMI", ext |-> FALSE, range |-> -1, eff |-> -1, lb |-> lb, ub |-> 0]
Values(ct) == [value |-> ct, size |-> From(0)]
Sizes(ct) == [value |-> Nil, size |-> ct]

El(t, edx) == t.els[edx + 1]
InExtensions(t, edx) == edx > t.extAfter /\ edx < t.extBefore
ExtensibleEnd(t) ==
  IF t.kind = "SET" THEN t.extensible ELSE InExtensions(t, Len(t.els))

(* tag2el: from an outmost tag to the elements that may start with it.  An  *)
(* untagged CHOICE lists the tags of its alternatives.                      *)
RECURSIVE OutmostTags(_)
OutmostTags(el) ==
  IF el.tag # NoTag THEN {el.tag}
  ELSE UNION {OutmostTags(el.type.els[i]) : i \in 1..Len(el.type.els)}
Tag2El(t, tag) == {edx \in 0..(Len(t.els) - 1) : tag \in OutmostTags(El(t, edx))}

(* The elements of a SET that must be there came.                           *)
_SET_is_populated(t, st) ==
  \A e \in 1..Len(t.els) : El(t, e - 1).mandatory => (e - 1) \in st.present

(* A structure just allocated: every decoder allocates what it finds null.  *)
NoContext == [phase |-> 0, step |-> 0, context |-> 0, left |-> 0, ptr |-> Nil]
Calloc(t) ==
  CASE t.kind = "SEQUENCE" -> [ctx |-> NoContext, m |-> [i \in 1..Len(t.els) |-> Nil]]
    [] t.kind = "SET" ->
         [ctx |-> NoContext, m |-> [i \in 1..Len(t.els) |-> Nil], present |-> {}]
    [] t.kind = "CHOICE" -> [ctx |-> NoContext, m |-> Nil, present |-> 0]
    [] t.kind \in {"SET OF", "SEQUENCE OF"} -> [ctx |-> NoContext, list |-> <<>>]
    [] t.kind = "STRING" -> [ctx |-> NoContext, buf |-> <<>>, unused |-> 0]
    [] t.kind \in {"BOOLEAN", "NULL", "NativeInteger"} -> [value |-> 0]
    [] OTHER -> [buf |-> Nil]      \* INTEGER, OBJECT IDENTIFIER, ...
Given(t, st) == IF st = Nil THEN Calloc(t) ELSE st

(* What an encoder returns: size, the number of octets it reports (-1 if it *)
(* fails), and out, the octets it hands to the callback.                    *)
NoEncoding == [size |-> -1, out |-> <<>>]
IsFailed(r) == r.size = -1
Flat(octets) == [size |-> Len(octets), out |-> octets]
Join(parts) ==
  IF \E i \in DOMAIN parts : IsFailed(parts[i]) THEN NoEncoding
  ELSE [size |-> FoldLeft(LAMBDA acc, r : acc + r.size, 0, parts),
        out |-> FlattenSeq([i \in DOMAIN parts |-> parts[i].out])]

(* _el_buf_cmp: octet by octet, a prefix first.                             *)
OctetsBefore_signed(a, b) ==
  LET n == Min({Len(a), Len(b)})
      differ == {i \in 1..n : a[i] # b[i]}
  IN IF differ = {} THEN Len(a) < Len(b)
     ELSE (a[Min(differ)] + 128) % 256 < (b[Min(differ)] + 128) % 256
OctetsBefore(a, b) ==
  LET n == Min({Len(a), Len(b)})
      differ == {i \in 1..n : a[i] # b[i]}
  IN IF differ = {} THEN Len(a) < Len(b) ELSE a[Min(differ)] < b[Min(differ)]
=============================================================================
