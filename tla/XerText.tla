------------------------------ MODULE XerText ------------------------------
(* XER of the types without members: xer_decode_general, what the strings   *)
(* and the primitive types make of the text between their tags, and the     *)
(* text they write.                                                         *)
EXTENDS Xml, Types, Prim, Charsets

LongMax == 2^(8 * LongOctets - 1) - 1
IsHex(c) == c \in (48..57) \cup (65..70) \cup (97..102)
IsDigit(c) == c \in 48..57
Hex(c) == IF c <= 57 THEN c - 48 ELSE IF c <= 70 THEN c - 55 ELSE c - 87
h2c(v) == IF v < 10 THEN 48 + v ELSE 55 + v
XER_ADVANCE(m, n) == [m EXCEPT !.at = @ + n]
Returned(m, code) == [code |-> code, consumed |-> m.at, st |-> m.st]
Rest(m) == SubSeq(m.b, m.at + 1, Len(m.b))
Chunk(m, n) == SubSeq(m.b, m.at + 1, m.at + n)

(* -- bodies of strings: [n, st], n symbols are converted, -1 refuses ------ *)
(* An octet that is only half there waits, unless no more text can come:    *)
(* then its other half is zero.                                             *)
OCTET_STRING__convert_hexadecimal(st, chunk, more) ==
  LET digits == SelectSeq(chunk, IsHex)
      n == Len(digits)
      octets == [i \in 1..(n \div 2) |-> 16 * Hex(digits[2 * i - 1]) + Hex(digits[2 * i])]
      half == IF n % 2 = 1 /\ more THEN <<16 * Hex(Last(digits))>> ELSE <<>>
      places == SetToSortSeq({i \in DOMAIN chunk : IsHex(chunk[i])}, <)
      stop == IF n % 2 = 0 \/ more THEN Len(chunk) ELSE IF n = 1 THEN 0 ELSE places[n - 1]
  IN IF \E i \in DOMAIN chunk : ~IsHex(chunk[i]) /\ ~WHITESPACE(chunk[i])
     THEN [n |-> -1, st |-> st]
     ELSE [n |-> stop, st |-> [st EXCEPT !.buf = @ \o octets \o half]]

BitsOf(buf, unused) ==
  [i \in 1..(8 * Len(buf) - unused) |-> (buf[(i + 7) \div 8] \div 2^((8 - (i % 8)) % 8)) % 2]
Packed(bits) ==
  LET bit(i) == IF i <= Len(bits) THEN bits[i] ELSE 0
  IN [k \in 1..((Len(bits) + 7) \div 8) |->
        Number(2, [j \in 1..8 |-> bit(8 * (k - 1) + j)])]

OCTET_STRING__convert_binary(st, chunk) ==
  LET digits == SelectSeq(chunk, LAMBDA c : c \in {48, 49})
      bits == BitsOf(st.buf, st.unused) \o [i \in DOMAIN digits |-> digits[i] - 48]
  IN IF \E i \in DOMAIN chunk : chunk[i] \notin {48, 49} /\ ~WHITESPACE(chunk[i])
     THEN [n |-> -1, st |-> st]
     ELSE [n |-> Len(chunk),
           st |-> [st EXCEPT !.buf = Packed(bits), !.unused = (8 - (Len(bits) % 8)) % 8]]

(* A number up to ";": [n, value], n = -1 if it is none.  Letters are taken *)
(* for digits in base 10, too.                                              *)
INT32_MAX == 2147483647
RECURSIVE OS__strtoent(_, _, _, _)
OS__strtoent(base, c, i, value) ==
  IF i > Len(c) THEN [n |-> i - 1, value |-> -1]
  ELSE IF value + 1 > INT32_MAX \div base THEN [n |-> -1, value |-> 0]
  ELSE IF c[i] = 59 THEN [n |-> i, value |-> value]
  ELSE IF IsHex(c[i]) THEN OS__strtoent(base, c, i + 1, value * base + Hex(c[i]))
  ELSE [n |-> -1, value |-> 0]

Utf8(v) ==
  LET tail(k) == [i \in 1..k |-> 128 + ((v \div 64^(k - i)) % 64)]
  IN CASE v < 128 -> <<v>>
       [] 128 <= v /\ v < 2048 -> <<192 + v \div 64>> \o tail(1)
       [] 2048 <= v /\ v < 65536 -> <<224 + v \div 4096>> \o tail(2)
       [] 65536 <= v /\ v < 2097152 -> <<240 + v \div 262144>> \o tail(3)
       [] 2097152 <= v /\ v < 67108864 -> <<248 + v \div 16777216>> \o tail(4)
       [] v >= 67108864 -> <<252 + v \div 1073741824>> \o tail(5)

(* An entity at the start of e: how many symbols it is and what it stands    *)
(* for.  n = 0: it may not be all there; n = -1: it is none, and the "&" is  *)
(* copied as it is.  Of the named ones only amp, lt and gt are known, and a  *)
(* name that does not end within five symbols counts as not all there.       *)
Entity(e) ==
  LET base == IF e[3] = 120 THEN 16 ELSE 10
      lead == IF base = 16 THEN 3 ELSE 2
      r == OS__strtoent(base, SubSeq(e, lead + 1, Len(e)), 1, 0)
      ends == {i \in 1..Min({5, Len(e)}) : e[i] = 59}
      name == SubSeq(e, 2, Min(ends) - 1)
      wait == [n |-> 0, out |-> <<>>]
      is(n, out) == [n |-> n, out |-> out]
  IN IF Len(e) = 1 THEN wait
     ELSE IF e[2] = 35
     THEN IF Len(e) = 2 THEN wait
          ELSE IF r.n = -1 THEN is(-1, <<>>)
          ELSE IF r.n = 0 \/ e[lead + r.n] # 59 THEN wait
          ELSE is(lead + r.n, Utf8(r.value))
     ELSE IF ends = {} THEN wait
     ELSE IF name = <<97, 109, 112>> THEN is(5, <<38>>)
     ELSE IF name = <<108, 116>> THEN is(4, <<60>>)
     ELSE IF name = <<103, 116>> THEN is(4, <<62>>)
     ELSE is(-1, <<>>)

RECURSIVE Expand(_, _, _, _)
Expand(chunk, more, p, out) ==
  LET e == Entity(SubSeq(chunk, p + 1, Len(chunk)))
      verbatim == Expand(chunk, more, p + 1, Append(out, chunk[p + 1]))
  IN IF p = Len(chunk) THEN [n |-> p, out |-> out]
     ELSE IF chunk[p + 1] # 38 \/ e.n = -1 \/ (e.n = 0 /\ more) THEN verbatim
     ELSE IF e.n = 0 THEN [n |-> p, out |-> out]
     ELSE Expand(chunk, more, p + e.n, out \o e.out)

OCTET_STRING__convert_entrefs(st, chunk, more) ==
  LET r == Expand(chunk, more, 0, <<>>)
  IN [n |-> r.n, st |-> [st EXCEPT !.buf = @ \o r.out]]

(* The characters written in another way: entities and, for the control      *)
(* characters that XML forbids, empty elements.                              *)
Escaped(c) ==
  CASE c < 32 /\ c \notin {9, 10, 13} -> <<LANGLE, ControlName(c), CSLASH, RANGLE>>
    [] c = 38 -> <<38, 97, 109, 112, 59>>
    [] c = 60 -> <<38, 108, 116, 59>>
    [] c = 62 -> <<38, 103, 116, 59>>
    [] OTHER -> <<c>>

OCTET_STRING__handle_control_chars(st, chunk) ==
  LET found == {c \in 0..31 : Escaped(c) = chunk}
  IN IF found = {} THEN [n |-> -1, st |-> st]
     ELSE [n |-> 0, st |-> [st EXCEPT !.buf = Append(@, Min(found))]]

(* -- bodies of the primitive types: what xer_pbd_rval tells, and the value - *)
Verdict(verdict, v) == [verdict |-> verdict, v |-> v]

BOOLEAN__xer_body_decode(v, chunk) ==
  IF chunk # <<>> /\ chunk[1] = LANGLE
  THEN CASE xer_check_tag(chunk, Name("false")) = "BOTH" -> Verdict("CONSUMED", [value |-> 0])
         [] xer_check_tag(chunk, Name("true")) = "BOTH" -> Verdict("CONSUMED", [value |-> 1])
         [] OTHER -> Verdict("BROKEN", v)
  ELSE Verdict(IF xer_is_whitespace(chunk) THEN "IGNORED" ELSE "BROKEN", v)

NULL__xer_body_decode(v, chunk) ==
  Verdict(IF xer_is_whitespace(chunk) THEN "CONSUMED" ELSE "BROKEN", v)

Enums(t) == IF t.kind = "ENUMERATED" THEN t.enums ELSE <<>>
INTEGER_map_enum2value(t, chunk) ==
  {v \in ToSet(Enums(t)) : /\ Len(chunk) > 2 /\ chunk[2] = EnumName(v)
                           /\ \/ WHITESPACE(chunk[3]) \/ chunk[3] = 11
                              \/ chunk[3] \in {CSLASH, RANGLE}}

(* s is the state of the scan, its value and sign and the octets of a number *)
(* in hexadecimal.  A number that turns out to be hexadecimal is read again. *)
(* One that begins with a letter is not prepared for: the octets go to a     *)
(* buffer that was never allocated.                                          *)
RECURSIVE ScanInteger(_, _, _, _)
ScanInteger(t, c, i, s) ==
  LET ch == c[i]
      to(state, value) == ScanInteger(t, c, i + 1, [s EXCEPT !.state = state, !.value = value])
      is(state) == s.state = state
      blank == xer_is_whitespace(SubSeq(c, i, Len(c)))
      number(v) == Verdict("CONSUMED", [buf |-> asn_long2INTEGER(v)])
      extra == IF blank THEN number(s.sign * s.value) ELSE Verdict("BROKEN", s.v)
      more == 10 * s.value + Hex(ch)
      least == s.sign = -1 /\ more = LongMax + 1
      octet == ScanInteger(t, c, i + 1,
                 [s EXCEPT !.state = "HEXCOLON", !.buf = Append(@, s.value + Hex(ch))])
      again == ScanInteger(t, c, 1, [s EXCEPT !.state = "SKIPSPHEX", !.value = 0, !.buf = <<>>])
      enum == INTEGER_map_enum2value(t, c)
  IN IF i > Len(c)
     THEN CASE s.state \in {"SKIPSPACE", "WAITDIGITS"} -> Verdict("IGNORED", s.v)
            [] is("DIGITS") -> number(s.sign * s.value)
            [] is("HEXCOLON") -> Verdict("CONSUMED", [buf |-> s.buf])
            [] OTHER -> Verdict("BROKEN", s.v)
     ELSE IF ch \in {9, 10, 13, 32}
     THEN IF s.state \in {"SKIPSPACE", "SKIPSPHEX"} \/ (is("HEXCOLON") /\ blank)
          THEN to(s.state, s.value) ELSE extra
     ELSE IF ch \in {43, 45} /\ is("SKIPSPACE")
     THEN ScanInteger(t, c, i + 1,
            [s EXCEPT !.state = "WAITDIGITS", !.sign = IF ch = CDASH THEN -1 ELSE 1])
     ELSE IF IsHex(ch) /\ is("HEXDIGIT2") THEN
          IF s.buf = Nil THEN Verdict("CRASH", s.v) ELSE octet
     ELSE IF IsHex(ch) /\ s.state \in {"SKIPSPHEX", "HEXDIGIT1"} THEN to("HEXDIGIT2", 16 * Hex(ch))
     ELSE IF IsDigit(ch) /\ is("HEXCOLON") THEN Verdict("BROKEN", s.v)
     ELSE IF IsDigit(ch)
     THEN IF s.value < 0 \/ (more > LongMax /\ ~least) THEN Verdict("BROKEN", s.v)
          ELSE IF least THEN ScanInteger(t, c, i + 1, [s EXCEPT !.state = "DIGITS",
                                                        !.value = -LongMax - 1, !.sign = 1])
          ELSE to("DIGITS", more)
     ELSE IF ch = LANGLE
     THEN IF is("SKIPSPACE") /\ enum # {} THEN number(Min(enum)) ELSE Verdict("BROKEN", s.v)
     ELSE IF ch = 58 /\ is("HEXCOLON") THEN to("HEXDIGIT1", s.value)
     ELSE IF (ch = 58 \/ IsHex(ch)) /\ is("DIGITS") THEN again
     ELSE IF IsHex(ch) /\ is("SKIPSPACE") THEN to("HEXDIGIT2", 16 * Hex(ch))
     ELSE extra

INTEGER__xer_body_decode(t, v, chunk) ==
  ScanInteger(t, chunk, 1, [state |-> "SKIPSPACE", value |-> 0, sign |-> 1, buf |-> v.buf, v |-> v])

(* Numbers between dots: the arcs, and what is left after a blank; Failed if *)
(* anything else is there.                                                   *)
PartsBetween(c, dots) ==
  [k \in 1..(Len(dots) + 1) |->
     SubSeq(c, IF k = 1 THEN 1 ELSE dots[k - 1] + 1,
               IF k > Len(dots) THEN Len(c) ELSE dots[k] - 1)]
OBJECT_IDENTIFIER_parse_arcs(chunk) ==
  LET blank(i) == chunk[i] \in {9, 10, 13, 32}
      starts == {i \in DOMAIN chunk : ~blank(i)}
      ends == {i \in DOMAIN chunk : blank(i) /\ i > Min(starts)}
      end == IF ends = {} THEN Len(chunk) ELSE Min(ends) - 1
      text == SubSeq(chunk, Min(starts), end)
      dots == SetToSortSeq({i \in DOMAIN text : text[i] = 46}, <)
      parts == PartsBetween(text, dots)
      value(k) == Number(10, [i \in DOMAIN parts[k] |-> parts[k][i] - 48])
  IN IF starts = {} THEN [arcs |-> <<>>, rest |-> <<>>]
     ELSE IF \E k \in DOMAIN parts : \/ parts[k] = <<>> \/ value(k) > LongMax
                                     \/ \E i \in DOMAIN parts[k] : ~IsDigit(parts[k][i])
     THEN Failed
     ELSE [arcs |-> [k \in DOMAIN parts |-> value(k)], rest |-> SubSeq(chunk, end + 1, Len(chunk))]

OBJECT_IDENTIFIER__xer_body_decode(v, chunk) ==
  LET r == OBJECT_IDENTIFIER_parse_arcs(chunk)
      buf == OBJECT_IDENTIFIER_set_arcs(r.arcs)
  IN IF r = Failed THEN Verdict("BROKEN", v)
     ELSE IF r.arcs = <<>> \/ ~xer_is_whitespace(r.rest) THEN Verdict("BROKEN", v)
     ELSE IF buf = Failed THEN Verdict("BROKEN", v) ELSE Verdict("CONSUMED", [buf |-> buf])

RELATIVE_OID__xer_body_decode(v, chunk) ==
  LET r == OBJECT_IDENTIFIER_parse_arcs(chunk)
  IN IF r = Failed THEN Verdict("BROKEN", v)
     ELSE IF ~xer_is_whitespace(r.rest) THEN Verdict("BROKEN", v)
     ELSE Verdict("CONSUMED", [buf |-> RELATIVE_OID_set_arcs(r.arcs)])

PrimBody(t, v, chunk) ==
  CASE t.kind = "BOOLEAN" -> BOOLEAN__xer_body_decode(v, chunk)
    [] t.kind = "NULL" -> NULL__xer_body_decode(v, chunk)
    [] t.kind \in {"INTEGER", "ENUMERATED", "NativeInteger"} ->
         INTEGER__xer_body_decode(t, v, chunk)
    [] t.kind = "OBJECT IDENTIFIER" -> OBJECT_IDENTIFIER__xer_body_decode(v, chunk)
    [] t.kind = "RELATIVE-OID" -> RELATIVE_OID__xer_body_decode(v, chunk)

(* -- what xer_decode_general hands over: text to the body receiver, tags it *)
(*    does not know to the other one, both if there is one.  a is the        *)
(*    argument of the primitive types: a number is only taken once something *)
(*    follows it, and once taken only blanks may follow.  An empty element   *)
(*    has no text at all, which a RELATIVE-OID does not take for none. ----- *)
Taken(t, a, chunk) ==
  LET r == PrimBody(t, a.v, chunk)
  IN IF a.decoded THEN [n |-> IF xer_is_whitespace(chunk) THEN Len(chunk) ELSE -1, st |-> a]
     ELSE IF \/ r.verdict \notin {"CONSUMED", "IGNORED"}
             \/ t.kind = "RELATIVE-OID" /\ chunk = <<>>
     THEN [n |-> -1, st |-> a]
     ELSE [n |-> Len(chunk),
           st |-> [a EXCEPT !.decoded = (r.verdict = "CONSUMED"), !.v = r.v]]
xer_decode__unexpected_tag(t, a, chunk) == Taken(t, a, chunk)
xer_decode__body(t, a, chunk, more) ==
  IF ~a.decoded /\ ~more THEN [n |-> -1, st |-> [a EXCEPT !.want = TRUE]] ELSE Taken(t, a, chunk)

BodyReceiver(t, st, chunk, more) ==
  CASE t.kind # "STRING" -> xer_decode__body(t, st, chunk, more)
    [] t.kind = "STRING" /\ t.variant = "BIT STRING" -> OCTET_STRING__convert_binary(st, chunk)
    [] t.kind = "STRING" /\ t.variant = "UTF8" -> OCTET_STRING__convert_entrefs(st, chunk, more)
    [] OTHER -> OCTET_STRING__convert_hexadecimal(st, chunk, more)

UnexpectedTag(t, st, chunk) ==
  CASE t.kind # "STRING" -> xer_decode__unexpected_tag(t, st, chunk)
    [] t.kind = "STRING" /\ t.variant = "UTF8" -> OCTET_STRING__handle_control_chars(st, chunk)
    [] OTHER -> [n |-> -1, st |-> st]

(* Phase 0: up to the opening tag; 1: the body; 2: done.                     *)
RECURSIVE xer_decode_general(_, _, _)
xer_decode_general(t, tag, m) ==
  LET tok == xer_next_token(m.st.ctx.context, Rest(m))
      chunk == Chunk(m, tok.n)
      whole == tok.n = Len(m.b) - m.at
      phase == m.st.ctx.phase
      with(st) == [m EXCEPT !.st = [st EXCEPT !.ctx.context = tok.context]]
      past == XER_ADVANCE(with(m.st), tok.n)
      into(x, to) == [x EXCEPT !.st.ctx.phase = to]
      got == BodyReceiver(t, m.st, chunk, ~whole)
      empty == BodyReceiver(t, m.st, <<>>, TRUE)
      odd == UnexpectedTag(t, m.st, chunk)
      tcv == xer_check_tag(chunk, tag)
  IN IF phase > 1 THEN Returned(m, "FAIL")
     ELSE IF tok.n = 0 THEN Returned(m, "WMORE")
     ELSE IF tok.kind = "COMMENT" \/ (tok.kind = "TEXT" /\ phase = 0)
     THEN xer_decode_general(t, tag, past)
     ELSE IF tok.kind = "TEXT"
     THEN IF got.n = -1 THEN Returned(with(got.st), "FAIL")
          ELSE IF got.n = 0 /\ whole THEN Returned(with(got.st), "WMORE")
          ELSE xer_decode_general(t, tag, XER_ADVANCE(with(got.st), got.n))
     ELSE IF tcv = "BOTH" /\ phase = 0
     THEN IF empty.n = -1 THEN Returned(with(empty.st), "FAIL")
          ELSE Returned(into(XER_ADVANCE(with(empty.st), tok.n), 2), "OK")
     ELSE IF tcv = "OPENING" /\ phase = 0 THEN xer_decode_general(t, tag, into(past, 1))
     ELSE IF tcv = "CLOSING" /\ phase = 1 THEN Returned(into(past, 2), "OK")
     ELSE IF tcv = "UNKNOWN_BO" /\ odd.n >= 0
     THEN IF phase = 0 THEN Returned(into(XER_ADVANCE(with(odd.st), tok.n), 2), "OK")
          ELSE xer_decode_general(t, tag, XER_ADVANCE(with(odd.st), tok.n))
     ELSE Returned(with(m.st), "FAIL")

(* The context of a primitive type does not outlive a call: all is consumed  *)
(* or nothing.                                                               *)
xer_decode_primitive(t, v, tag, b) ==
  LET arg == [ctx |-> NoContext, decoded |-> FALSE, want |-> FALSE, v |-> v]
      r == xer_decode_general(t, tag, [b |-> b, at |-> 0, st |-> arg])
      nothing == PrimBody(t, v, <<>>)
      answer(code, n, x) == [code |-> code, consumed |-> n, st |-> x]
  IN CASE r.code = "OK" /\ r.st.decoded -> answer("OK", r.consumed, r.st.v)
       [] r.code = "OK" /\ ~r.st.decoded ->
            IF nothing.verdict = "CONSUMED" THEN answer("OK", r.consumed, nothing.v)
            ELSE answer("FAIL", 0, v)
       [] r.code = "WMORE" \/ (r.code = "FAIL" /\ r.st.want) -> answer("WMORE", 0, v)
       [] OTHER -> answer("FAIL", 0, v)

(* The native type has no room for octets: a temporary INTEGER is read.      *)
NativeInteger_decode_xer(t, v, tag, b) ==
  LET r == xer_decode_primitive(t, [buf |-> Nil], tag, b)
      l == asn_INTEGER2long(r.st.buf)
  IN IF r.code # "OK" THEN [r EXCEPT !.st = v]
     ELSE IF l = Failed THEN [code |-> "FAIL", consumed |-> 0, st |-> v]
     ELSE [r EXCEPT !.st = [value |-> l]]

OCTET_STRING__decode_xer(t, st, tag, b) ==
  xer_decode_general(t, tag, [b |-> b, at |-> 0, st |-> st])

(* The text of a string of wide characters came in UTF-8; one that is no     *)
(* UTF-8 is taken for an empty one.                                          *)
BMPString_decode_xer(t, st, tag, b) ==
  LET r == OCTET_STRING__decode_xer(t, st, tag, b)
      chars == UTF8String__process(r.st.buf)
      known == IF chars = Failed THEN <<>> ELSE chars
  IN IF r.code # "OK" THEN r
     ELSE IF t.unit = 2 /\ \E k \in DOMAIN known : known[k] > 65535
     THEN [code |-> "FAIL", consumed |-> 0, st |-> r.st]
     ELSE [r EXCEPT !.st.buf = WideOctets(known, t.unit)]

(* -- what is written ------------------------------------------------------ *)
INDENT(can, level) == IF can THEN <<>> ELSE <<NEWLINE>> \o [i \in 1..level |-> SPACE]
Octet2(o) == <<h2c(o \div 16), h2c(o % 16)>>
Decimal[v \in Nat] == IF v < 10 THEN <<48 + v>> ELSE Append(Decimal[v \div 10], 48 + (v % 10))
Integer(v) == IF v < 0 THEN <<CDASH>> \o Decimal[-v] ELSE Decimal[v]

(* Sixteen octets on a line, if there are more than that.                    *)
OCTET_STRING_encode_xer(buf, level, can) ==
  LET n == Len(buf)
      line(i) == IF (i - 1) % 16 = 0 /\ n > 16 THEN INDENT(can, level) ELSE <<>>
      octet(i) == line(i) \o Octet2(buf[i]) \o IF can \/ i = n THEN <<>> ELSE <<SPACE>>
  IN Flat(FlattenSeq([i \in 1..n |-> octet(i)])
            \o IF n > 16 THEN INDENT(can, level - 1) ELSE <<>>)
ANY_encode_xer(buf, level, can) ==
  IF can THEN NoEncoding ELSE OCTET_STRING_encode_xer(buf, level, can)

BIT_STRING_encode_xer(st, level, can) ==
  LET n == Len(st.buf)
      bits(i) == BitsOf(<<st.buf[i]>>, IF i = n THEN st.unused ELSE 0)
      line(i) == IF (i - 1) % 8 = 0 THEN INDENT(can, level) ELSE <<>>
      text == FlattenSeq([i \in 1..n |-> line(i) \o [k \in DOMAIN bits(i) |-> 48 + bits(i)[k]]])
  IN Flat((IF n = 0 THEN INDENT(can, level) ELSE text) \o INDENT(can, level - 1))

OCTET_STRING_encode_xer_utf8(buf) ==
  Flat(FlattenSeq([i \in DOMAIN buf |-> Escaped(buf[i])]))
(* Wide characters are written as they are, without entities.                *)
BMPString__dump(buf, unit) ==
  LET chars == WideUnits(buf, unit)
  IN Flat(FlattenSeq([k \in DOMAIN chars |-> Utf8(chars[k])]))
(* A time in CANONICAL-XER must be one, but is written as it is; for UTCTime *)
(* asn_time2GT is called without a time, and fails.                          *)
Time_encode_xer(t, buf, can) ==
  IF can /\ (t.charset = "UTCTime" \/ asn_GT2time_frac(buf) = Failed) THEN NoEncoding
  ELSE OCTET_STRING_encode_xer_utf8(buf)
BOOLEAN_encode_xer(st) ==
  Flat(<<LANGLE, Name(IF st.value # 0 THEN "true" ELSE "false"), CSLASH, RANGLE>>)
NULL_encode_xer == Flat(<<>>)

(* An enumerator is written by its name, a number too wide for long in       *)
(* octets with colons.                                                       *)
INTEGER__dump(t, buf) ==
  LET b == Canonical(buf)
      short == Len(b) <= LongOctets
      octets == [i \in DOMAIN b |-> IF i = Len(b) THEN Octet2(b[i]) ELSE Append(Octet2(b[i]), 58)]
  IN IF short /\ Signed(b) \in ToSet(Enums(t))
     THEN Flat(<<LANGLE, EnumName(Signed(b)), CSLASH, RANGLE>>)
     ELSE IF t.kind = "ENUMERATED" THEN NoEncoding
     ELSE IF short THEN Flat(Integer(Signed(b)))
     ELSE Flat(FlattenSeq(octets))
NativeInteger_encode_xer(st) == Flat(Integer(st.value))

Dotted(arcs) ==
  IF Failed \in ToSet(arcs) THEN NoEncoding
  ELSE Flat(FlattenSeq([i \in DOMAIN arcs |->
         (IF i = 1 THEN <<>> ELSE <<46>>) \o Decimal[arcs[i]]]))
OBJECT_IDENTIFIER__dump_body(buf) ==
  LET arcs == OBJECT_IDENTIFIER_get_arcs(buf)
  IN IF arcs = Failed THEN NoEncoding ELSE Dotted(arcs)
RELATIVE_OID__dump_body(buf) ==
  LET arcs == RELATIVE_OID_get_arcs(buf)
  IN IF arcs = Failed THEN NoEncoding ELSE Dotted(arcs)

TextEncode(t, st, level, can) ==
  CASE t.kind = "STRING" /\ t.charset \in {"UTCTime", "GeneralizedTime"} ->
         Time_encode_xer(t, st.buf, can)
    [] t.kind = "STRING" /\ t.unit > 1 -> BMPString__dump(st.buf, t.unit)
    [] /\ t.kind = "STRING" /\ t.variant = "UTF8" /\ t.unit = 1
       /\ t.charset \notin {"UTCTime", "GeneralizedTime"} -> OCTET_STRING_encode_xer_utf8(st.buf)
    [] t.kind = "STRING" /\ t.variant = "BIT STRING" -> BIT_STRING_encode_xer(st, level, can)
    [] t.kind = "STRING" /\ t.variant = "ANY" -> ANY_encode_xer(st.buf, level, can)
    [] t.kind = "STRING" /\ t.variant = "GENERIC" -> OCTET_STRING_encode_xer(st.buf, level, can)
    [] t.kind = "BOOLEAN" -> BOOLEAN_encode_xer(st)
    [] t.kind = "NULL" -> NULL_encode_xer
    [] t.kind \in {"INTEGER", "ENUMERATED"} -> INTEGER__dump(t, st.buf)
    [] t.kind = "NativeInteger" -> NativeInteger_encode_xer(st)
    [] t.kind = "OBJECT IDENTIFIER" -> OBJECT_IDENTIFIER__dump_body(st.buf)
    [] t.kind = "RELATIVE-OID" -> RELATIVE_OID__dump_body(st.buf)
=============================================================================
