----------------------------- MODULE XmlSender -----------------------------
(* The other end of a transfer in XER: any sender that obeys X.693.  Text   *)
(* gives what it may write for a value, from the rules of XER and of XML.   *)
EXTENDS Xml, Sender

RECURSIVE Text(_, _, _)

(* How it writes: what it puts where blanks may be, and its tags.  A comment *)
(* may hold what looks like a tag, an attribute what looks like the end of   *)
(* one.                                                                      *)
XmlStyles ==
  {[gap |-> x[1], tags |-> x[2]] : x \in {<<"none", "plain">>, <<"none", "spaced">>,
                                          <<"blank", "spaced">>, <<"comment", "attribute">>}}
CxerStyle == [gap |-> "none", tags |-> "canonical"]
Comment == <<LANGLE, EXCLAM, CDASH, CDASH, LANGLE, CSLASH, RANGLE, CDASH, SPACE, CDASH, CDASH, RANGLE>>
Gap(style) ==
  CASE style.gap = "none" -> <<>>
    [] style.gap = "blank" -> <<NEWLINE, SPACE>>
    [] style.gap = "comment" -> Comment
Attribute == <<SPACE, 97, CEQUAL, CQUOTE, RANGLE, CQUOTE>>
InTag(style) ==
  CASE style.tags = "spaced" -> <<SPACE>>
    [] style.tags = "attribute" -> Attribute
    [] OTHER -> <<>>
OpeningTag(style, name) == <<LANGLE, name>> \o InTag(style) \o <<RANGLE>>
EmptyTag(style, name) == <<LANGLE, name>> \o InTag(style) \o <<CSLASH, RANGLE>>
ClosingTag(style, name) ==
  <<LANGLE, CSLASH, name>> \o (IF style.tags = "spaced" THEN <<SPACE>> ELSE <<>>) \o <<RANGLE>>
Elements(style, name, bodies) ==
  {IF b = <<>> /\ style.tags \in {"spaced", "attribute"} THEN EmptyTag(style, name)
   ELSE OpeningTag(style, name) \o b \o ClosingTag(style, name) : b \in bodies}

(* The characters of a text in UTF-8 and their numbers.                      *)
Characters(buf) ==
  FoldLeft(LAMBDA cs, o : IF o \div 64 # 2 THEN Append(cs, <<o>>)
                          ELSE IF cs = <<>> THEN <<>>
                          ELSE [cs EXCEPT ![Len(cs)] = Append(@, o)], <<>>, buf)
CodePoint(c) ==
  IF Len(c) = 1 THEN c[1]
  ELSE Number(64, <<c[1] % 2^(7 - Len(c))>> \o [i \in 1..(Len(c) - 1) |-> c[i + 1] % 64])
InUtf8(v) ==
  LET n == IF v < 128 THEN 1 ELSE Min({6} \cup {k \in 2..5 : v < 2^(5 * k + 1)})
      more == [i \in 1..(n - 1) |-> 128 + ((v \div 64^(n - 1 - i)) % 64)]
  IN IF n = 1 THEN <<v>> ELSE <<256 - 2^(8 - n) + v \div 64^(n - 1)>> \o more
NumberText(radix, v) ==
  LET n == Min({k \in 1..6 : v < radix^k})
      digit(i) == (v \div radix^(n - i)) % radix
  IN [i \in 1..n |-> IF digit(i) < 10 THEN 48 + digit(i) ELSE 87 + digit(i)]
Reference(radix, v) ==
  <<38, 35>> \o (IF radix = 16 THEN <<120>> ELSE <<>>) \o NumberText(radix, v) \o <<59>>
Character(style, c) ==
  CASE c[1] < 32 /\ c[1] \notin {9, 10, 13} -> <<LANGLE, ControlName(c[1]), CSLASH, RANGLE>>
    [] c[1] >= 32 /\ style.gap = "blank" -> Reference(10, CodePoint(c))
    [] c[1] >= 32 /\ style.gap = "comment" -> Reference(16, CodePoint(c)) \o Comment
    [] c = <<38>> /\ style.gap = "none" -> <<38, 97, 109, 112, 59>>
    [] c = <<LANGLE>> /\ style.gap = "none" -> <<38, 108, 116, 59>>
    [] c = <<RANGLE>> /\ style.gap = "none" -> <<38, 103, 116, 59>>
    [] OTHER -> c

(* Octets and bits may stand apart; small and capital digits are the same.   *)
HexOf(style, o) ==
  LET digit(d) == IF d < 10 THEN 48 + d ELSE IF style.gap = "blank" THEN 87 + d ELSE 55 + d
  IN <<digit(o \div 16), digit(o % 16)>> \o Gap(style)
StringText(t, v, style) ==
  LET bits == SubSeq(OctetBits(v.buf), 1, 8 * Len(v.buf) - v.unused)
      chars == IF t.unit = 1 THEN Characters(v.buf)
               ELSE [k \in 1..(Len(v.buf) \div t.unit) |->
                       InUtf8(Number(256, SubSeq(v.buf, t.unit * (k - 1) + 1, t.unit * k)))]
  IN FlattenSeq(
       CASE t.variant = "UTF8" -> [k \in DOMAIN chars |-> Character(style, chars[k])]
         [] t.variant = "BIT STRING" -> [i \in DOMAIN bits |-> <<48 + bits[i]>> \o Gap(style)]
         [] OTHER -> [i \in DOMAIN v.buf |-> HexOf(style, v.buf[i])])

Signed10(v) == IF v < 0 THEN <<CDASH>> \o NumberText(10, -v) ELSE NumberText(10, v)
Arcs10(arcs) ==
  FlattenSeq([k \in DOMAIN arcs |-> (IF k = 1 THEN <<>> ELSE <<46>>) \o NumberText(10, arcs[k])])
PlainText(t, v, style) ==
  LET tag == IF t.kind = "ENUMERATED" THEN EnumName(v) ELSE Name(IF v = TRUE THEN "true" ELSE "false")
  IN CASE t.kind \in {"BOOLEAN", "ENUMERATED"} -> Gap(style) \o EmptyTag(style, tag) \o Gap(style)
       [] t.kind \in {"INTEGER", "NativeInteger"} -> Gap(style) \o Signed10(v) \o Gap(style)
       [] t.kind \in {"OBJECT IDENTIFIER", "RELATIVE-OID"} -> Gap(style) \o Arcs10(v) \o Gap(style)
       [] t.kind = "NULL" -> Gap(style)

(* Elements a newer version of a type may send as extensions.                *)
NewElements ==
  LET ext == Name("ext")
      inner == EmptyTag(CxerStyle, ext) \o <<116>>
  IN {EmptyTag(CxerStyle, ext)} \cup Elements(CxerStyle, ext, {inner})

(* Members in the order of the type, those of a SET in any; the canonical    *)
(* order is that of their tags.                                              *)
MemberTexts(t, v, style) ==
  LET sets == [i \in DOMAIN v |->
                 IF v[i] = Nil THEN {<<>>}
                 ELSE {Gap(style) \o e : e \in
                         Elements(style, Name(t.els[i].name), Text(t.els[i].type, v[i], style))}]
      newer == IF style = CxerStyle THEN {<<>>} ELSE {<<>>} \cup NewElements
      low(i) == Min({1000 * x[1] + x[2] : x \in OutmostTags(t.els[i])})
      byTag == SetToSortSeq(DOMAIN v, LAMBDA i, j : low(i) < low(j))
      rows == CASE t.kind = "SET" /\ style = CxerStyle -> Rows([i \in DOMAIN v |-> sets[byTag[i]]])
                [] t.kind = "SET" /\ style # CxerStyle ->
                     UNION {Rows(o) : o \in
                              Orders(IF t.extensible THEN Append(sets, newer) ELSE sets)}
                [] OTHER -> Rows(IF ExtensibleEnd(t) THEN Append(sets, newer) ELSE sets)
  IN {r \o Gap(style) : r \in rows}

TypeName(t) == Name(IF t.kind = "STRING" THEN t.variant ELSE t.kind)

(* The members of a list have an element of their own unless they are one.   *)
ItemTexts(t, v, style) ==
  LET el == t.els[1]
      name == IF el.name # "" THEN Name(el.name) ELSE TypeName(el.type)
      bodies(x) == Text(el.type, x, style)
      texts(x) ==
        CASE el.type.kind = "NULL" -> {EmptyTag(style, Name("NULL"))}
          [] el.type.kind \in {"BOOLEAN", "ENUMERATED", "CHOICE"} -> bodies(x)
          [] OTHER -> Elements(style, name, bodies(x))
  IN [i \in DOMAIN v |-> {Gap(style) \o e : e \in texts(v[i])}]

Text(t, v, style) ==
  CASE t.kind \in {"SEQUENCE", "SET"} -> MemberTexts(t, v, style)
    [] t.kind = "CHOICE" /\ v.present = 0 -> {Gap(style) \o e \o Gap(style) : e \in NewElements}
    [] t.kind = "CHOICE" /\ v.present > 0 ->
         {Gap(style) \o e \o Gap(style) : e \in
            Elements(style, Name(t.els[v.present].name), Text(t.els[v.present].type, v.v, style))}
    [] t.kind = "SEQUENCE OF" -> {r \o Gap(style) : r \in Rows(ItemTexts(t, v, style))}
    [] t.kind = "SET OF" ->
         {r \o Gap(style) : r \in UNION {Rows(o) : o \in Orders(ItemTexts(t, v, style))}}
    [] t.kind = "STRING" ->
         {StringText(t, x, style) : x \in IF IsTime(t) THEN TimesOf(v, style = CxerStyle) ELSE {v}}
    [] OTHER -> {PlainText(t, v, style)}

(* A document may have a declaration, here without its attributes, in front. *)
Declaration == <<LANGLE, 63, 120, 109, 108, 63, RANGLE, NEWLINE>>
XmlLegal(t, v, style) ==
  LET prolog == IF style.gap = "blank" THEN Declaration ELSE <<>>
  IN {prolog \o e : e \in Elements(style, TypeName(t), Text(t, v, style))}

(* -- what belongs to a type, from X.680: of UTF-8, what comes out when its  *)
(*    characters are written again.  A value holds nothing that a receiver   *)
(*    does not know.                                                         *)
RECURSIVE IsValue(_, _)
IsCharset(charset, buf) ==
  LET in(S) == \A i \in DOMAIN buf : buf[i] \in S
      chars == Characters(buf)
  IN CASE charset = "Visible" -> in(32..126)
       [] charset = "IA5" -> in(0..127)
       [] charset = "Numeric" -> in({32} \cup (48..57))
       [] charset = "Printable" -> in((97..122) \cup (65..90) \cup (48..58) \cup {32, 61, 63} \cup
                                      {39, 40, 41, 43, 44, 45, 46, 47})
       [] charset = "UTF-8" -> buf = FlattenSeq([k \in DOMAIN chars |-> InUtf8(CodePoint(chars[k]))])
       [] charset \in {"UTCTime", "GeneralizedTime"} -> buf \in DOMAIN Spellings
       [] charset = "any" -> TRUE
IsValue(t, v) ==
  CASE v = Nil -> TRUE
    [] v # Nil /\ t.kind \in {"SEQUENCE", "SET"} -> \A i \in DOMAIN v : IsValue(t.els[i].type, v[i])
    [] t.kind = "CHOICE" -> v.present > 0 /\ IsValue(t.els[v.present].type, v.v)
    [] t.kind \in {"SEQUENCE OF", "SET OF"} -> \A i \in DOMAIN v : IsValue(t.els[1].type, v[i])
    [] t.kind = "STRING" -> IsCharset(t.charset, v.buf)
    [] OTHER -> TRUE
=============================================================================
