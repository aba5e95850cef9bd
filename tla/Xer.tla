-------------------------------- MODULE Xer --------------------------------
(* The XER codecs of the types with members: the *_decode_xer and           *)
(* *_encode_xer functions of constr_*.c, xer_decode and xer_encode.  A      *)
(* decoder takes a type, the structure it filled so far, the identifier of  *)
(* the element it is in and the text at hand; m = [b, at, st] as in Ber.    *)
EXTENDS XerText

RECURSIVE XerDecode(_, _, _, _), SEQUENCE_decode_xer(_, _, _), SequenceMember(_, _, _)
RECURSIVE SET_decode_xer(_, _, _), SetMember_(_, _, _), SequenceTag(_, _, _, _, _)
RECURSIVE CHOICE_decode_xer(_, _, _), ChoiceMember_(_, _, _), ChoiceTag_(_, _, _, _, _)
RECURSIVE SET_OF_decode_xer(_, _, _), SetOfMember(_, _, _), SetTag(_, _, _, _, _)
RECURSIVE XerEncode(_, _, _, _)

(* The identifier of a type itself.  as_XMLValueList: 1 if the members of a  *)
(* list of this type stand without an element of their own, 2 if they bring  *)
(* one, an alternative, with them.                                           *)
XmlTag(t) == Name(IF t.kind = "STRING" THEN t.variant ELSE t.kind)
as_XMLValueList(t) ==
  IF t.kind \in {"BOOLEAN", "NULL", "ENUMERATED"} THEN 1 ELSE IF t.kind = "CHOICE" THEN 2 ELSE 0
ItemTag(t) ==
  LET el == El(t, 0)
  IN IF as_XMLValueList(el.type) = 2 THEN NoName
     ELSE IF as_XMLValueList(el.type) = 1 \/ el.name = "" THEN XmlTag(el.type)
     ELSE Name(el.name)

Token(m) == xer_next_token(m.st.ctx.context, Rest(m))
InPhase(m, phase) == [m EXCEPT !.st.ctx.phase = phase]
WithoutBody(tcv) == tcv \in {"BOTH", "UNKNOWN_BO"}
PhaseOut(m, phase) == Returned(InPhase(m, phase), "FAIL")
(* The members that an opening or an empty tag names.                        *)
Named(t, chunk, scope) ==
  {n \in scope : xer_check_tag(chunk, Name(El(t, n).name)) \in {"OPENING", "BOTH"}}

(* -- SEQUENCE: phase 0 awaits its tag, 1 a member, 2 is inside of one, 3     *)
(*    passes over an unknown extension, 4 is the end. -----------------------*)
SEQUENCE_decode_xer(t, tag, m) ==
  LET tok == Token(m)
      seen == [m EXCEPT !.st.ctx.context = tok.context]
      past == XER_ADVANCE(seen, tok.n)
      phase == m.st.ctx.phase
      tcv == xer_check_tag(Chunk(m, tok.n), tag)
      skip == xer_skip_unknown(tcv, m.st.ctx.left)
      skipped(x, to) == InPhase([x EXCEPT !.st.ctx.left = skip.depth], to)
  IN IF phase = 4 THEN Returned(m, "FAIL")
     ELSE IF phase = 2 THEN SequenceMember(t, tag, m)
     ELSE IF tok.n = 0 THEN Returned(m, "WMORE")
     ELSE IF tok.kind # "TAG" THEN SEQUENCE_decode_xer(t, tag, past)
     ELSE IF phase # 3 THEN SequenceTag(t, tag, seen, tok.n, tcv)
     ELSE IF skip.verdict = -1 THEN PhaseOut(seen, 4)
     ELSE IF skip.verdict = 2 THEN SequenceTag(t, tag, skipped(seen, 1), tok.n, tcv)
     ELSE SEQUENCE_decode_xer(t, tag, skipped(past, IF skip.verdict = 1 THEN 1 ELSE 3))

SequenceMember(t, tag, m) ==                   \* phase 2
  LET edx == m.st.ctx.step
      r == XerDecode(El(t, edx).type, m.st.m[edx + 1], Name(El(t, edx).name), Rest(m))
      took == XER_ADVANCE([m EXCEPT !.st.m[edx + 1] = r.st], r.consumed)
  IN IF r.code # "OK" THEN Returned(took, r.code)
     ELSE SEQUENCE_decode_xer(t, tag, InPhase([took EXCEPT !.st.ctx.step = edx + 1], 1))

SequenceTag(t, tag, m, n, tcv) ==              \* a tag in phase 0 or 1
  LET edx == m.st.ctx.step
      count == Len(t.els)
      past == XER_ADVANCE(m, n)
      opening == m.st.ctx.phase = 0
      ends == IF opening THEN tcv = "BOTH" ELSE tcv = "CLOSING"
      complete == \/ edx >= count \/ edx + El(t, edx).optional = count
                  \/ InExtensions(t, edx) /\ t.extBefore > count
      optional == IF edx < count THEN El(t, edx).optional ELSE 0
      found == IF edx >= count THEN {}
               ELSE Named(t, Chunk(m, n), edx .. Min({edx + optional, count - 1}))
  IN IF ends THEN IF complete THEN Returned(InPhase(past, 4), "OK") ELSE PhaseOut(m, 0)
     ELSE IF opening THEN
          IF tcv = "OPENING" THEN SEQUENCE_decode_xer(t, tag, InPhase(past, 1)) ELSE PhaseOut(m, 4)
     ELSE IF tcv \in {"BROKEN", "UNKNOWN_CL"} THEN PhaseOut(m, 4)
     ELSE IF found # {}
     THEN SequenceMember(t, tag, InPhase([m EXCEPT !.st.ctx.step = Min(found)], 2))
     ELSE IF ~InExtensions(t, edx + optional) THEN PhaseOut(m, 4)
     ELSE IF WithoutBody(tcv) THEN SEQUENCE_decode_xer(t, tag, past)
     ELSE SEQUENCE_decode_xer(t, tag, InPhase([past EXCEPT !.st.ctx.left = 1], 3))

(* -- SET: the same phases, members in any order, each once --------------- *)
SET_decode_xer(t, tag, m) ==
  LET tok == Token(m)
      seen == [m EXCEPT !.st.ctx.context = tok.context]
      past == XER_ADVANCE(seen, tok.n)
      phase == m.st.ctx.phase
      tcv == xer_check_tag(Chunk(m, tok.n), tag)
      skip == xer_skip_unknown(tcv, m.st.ctx.left)
      skipped(x, to) == InPhase([x EXCEPT !.st.ctx.left = skip.depth], to)
  IN IF phase = 4 THEN Returned(m, "FAIL")
     ELSE IF phase = 2 THEN SetMember_(t, tag, m)
     ELSE IF tok.n = 0 THEN Returned(m, "WMORE")
     ELSE IF tok.kind # "TAG" THEN SET_decode_xer(t, tag, past)
     ELSE IF phase # 3 THEN SetTag(t, tag, seen, tok.n, tcv)
     ELSE IF skip.verdict = -1 THEN PhaseOut(seen, 4)
     ELSE IF skip.verdict = 2 THEN SetTag(t, tag, skipped(seen, 1), tok.n, tcv)
     ELSE SET_decode_xer(t, tag, skipped(past, IF skip.verdict = 1 THEN 1 ELSE 3))

SetMember_(t, tag, m) ==                       \* phase 2
  LET edx == m.st.ctx.step
      r == XerDecode(El(t, edx).type, m.st.m[edx + 1], Name(El(t, edx).name), Rest(m))
      took == XER_ADVANCE([m EXCEPT !.st.m[edx + 1] = r.st], r.consumed)
  IN IF edx \in m.st.present THEN Returned(m, "FAIL")
     ELSE IF r.code # "OK" THEN Returned(took, r.code)
     ELSE SET_decode_xer(t, tag, InPhase([took EXCEPT !.st.present = @ \cup {edx}], 1))

SetTag(t, tag, m, n, tcv) ==
  LET past == XER_ADVANCE(m, n)
      opening == m.st.ctx.phase = 0
      ends == IF opening THEN tcv = "BOTH" ELSE tcv = "CLOSING"
      found == Named(t, Chunk(m, n), 0..(Len(t.els) - 1))
  IN IF ends THEN IF _SET_is_populated(t, m.st) THEN Returned(InPhase(past, 4), "OK") ELSE PhaseOut(m, 0)
     ELSE IF opening THEN
          IF tcv = "OPENING" THEN SET_decode_xer(t, tag, InPhase(past, 1)) ELSE PhaseOut(m, 4)
     ELSE IF tcv \in {"BROKEN", "UNKNOWN_CL"} THEN PhaseOut(m, 4)
     ELSE IF found # {} THEN SetMember_(t, tag, InPhase([m EXCEPT !.st.ctx.step = Min(found)], 2))
     ELSE IF ~t.extensible THEN PhaseOut(m, 4)
     ELSE IF WithoutBody(tcv) THEN SET_decode_xer(t, tag, past)
     ELSE SET_decode_xer(t, tag, InPhase([past EXCEPT !.st.ctx.left = 1], 3))

(* -- CHOICE: phase 3 awaits the closing tag, 4 passes over an unknown        *)
(*    alternative, 5 is the end.  Without an identifier it has no element of  *)
(*    its own. --------------------------------------------------------------*)
CHOICE_decode_xer(t, tag, m) ==
  LET bare == tag = NoName
      tok == Token(m)
      seen == [m EXCEPT !.st.ctx.context = tok.context]
      past == XER_ADVANCE(seen, tok.n)
      phase == m.st.ctx.phase
      tcv == xer_check_tag(Chunk(m, tok.n), tag)
      skip == xer_skip_unknown(tcv, m.st.ctx.left)
      skipped(x, to) == InPhase([x EXCEPT !.st.ctx.left = skip.depth], to)
  IN IF bare /\ phase = 0 THEN CHOICE_decode_xer(t, tag, InPhase(m, 1))
     ELSE IF phase = 5 THEN Returned(m, "FAIL")
     ELSE IF phase = 2 THEN ChoiceMember_(t, tag, m)
     ELSE IF bare /\ phase = 3 THEN Returned(InPhase(m, 5), "OK")
     ELSE IF tok.n = 0 THEN Returned(m, "WMORE")
     ELSE IF tok.kind # "TAG" THEN CHOICE_decode_xer(t, tag, past)
     ELSE IF phase # 4 THEN ChoiceTag_(t, tag, seen, tok.n, tcv)
     ELSE IF skip.verdict = -1 THEN PhaseOut(seen, 5)
     ELSE IF skip.verdict = 2 THEN ChoiceTag_(t, tag, skipped(seen, 3), tok.n, tcv)
     ELSE CHOICE_decode_xer(t, tag, skipped(past, IF skip.verdict = 1 THEN 3 ELSE 4))

ChoiceMember_(t, tag, m) ==                    \* phase 2
  LET edx == m.st.ctx.step
      r == XerDecode(El(t, edx).type, m.st.m, Name(El(t, edx).name), Rest(m))
      took == XER_ADVANCE([m EXCEPT !.st.m = r.st], r.consumed)
  IN IF r.code # "OK" THEN Returned(took, r.code)
     ELSE CHOICE_decode_xer(t, tag, InPhase([took EXCEPT !.st.present = edx + 1], 3))

ChoiceTag_(t, tag, m, n, tcv) ==
  LET past == XER_ADVANCE(m, n)
      phase == m.st.ctx.phase
      found == Named(t, Chunk(m, n), 0..(Len(t.els) - 1))
  IN IF tcv = "CLOSING" /\ phase = 3 THEN Returned(InPhase(past, 5), "OK")
     ELSE IF tcv = "OPENING" /\ phase = 0 THEN CHOICE_decode_xer(t, tag, InPhase(past, 1))
     ELSE IF phase # 1 \/ tcv \notin {"OPENING", "UNKNOWN_OP", "UNKNOWN_BO"} THEN PhaseOut(m, 5)
     ELSE IF found # {}
     THEN ChoiceMember_(t, tag, InPhase([m EXCEPT !.st.ctx.step = Min(found)], 2))
     ELSE IF t.extStart = -1 THEN PhaseOut(m, 5)
     ELSE IF WithoutBody(tcv) THEN CHOICE_decode_xer(t, tag, InPhase(past, 3))
     ELSE CHOICE_decode_xer(t, tag, InPhase([past EXCEPT !.st.ctx.left = 1], 4))

(* -- SET OF and SEQUENCE OF: any tag but the closing one begins a member.   *)
SET_OF_decode_xer(t, tag, m) ==
  LET tok == Token(m)
      seen == [m EXCEPT !.st.ctx.context = tok.context]
      past == XER_ADVANCE(seen, tok.n)
      phase == m.st.ctx.phase
      tcv == xer_check_tag(Chunk(m, tok.n), tag)
  IN IF phase = 3 THEN Returned(m, "FAIL")
     ELSE IF phase = 2 THEN SetOfMember(t, tag, m)
     ELSE IF tok.n = 0 THEN Returned(m, "WMORE")
     ELSE IF tok.kind # "TAG" THEN SET_OF_decode_xer(t, tag, past)
     ELSE IF <<tcv, phase>> \in {<<"CLOSING", 1>>, <<"BOTH", 0>>}
     THEN Returned(InPhase(past, 3), "OK")
     ELSE IF tcv = "OPENING" /\ phase = 0 THEN SET_OF_decode_xer(t, tag, InPhase(past, 1))
     ELSE IF phase = 1 /\ tcv \notin {"BROKEN", "UNKNOWN_CL"}
     THEN SetOfMember(t, tag, InPhase(seen, 2))
     ELSE PhaseOut(seen, 3)

SetOfMember(t, tag, m) ==                      \* phase 2
  LET r == XerDecode(El(t, 0).type, m.st.ctx.ptr, ItemTag(t), Rest(m))
      past == XER_ADVANCE([m EXCEPT !.st.ctx.ptr = r.st], r.consumed)
      listed == [past EXCEPT !.st.list = Append(@, r.st), !.st.ctx.ptr = Nil]
  IN IF r.code = "OK" THEN SET_OF_decode_xer(t, tag, InPhase(listed, 1))
     ELSE Returned(past, r.code)

XerDecode(t, sptr, tag, b) ==
  LET st == Given(t, sptr)
      m == [b |-> b, at |-> 0, st |-> st]
  IN CASE t.kind = "SEQUENCE" -> SEQUENCE_decode_xer(t, tag, m)
       [] t.kind = "SET" -> SET_decode_xer(t, tag, m)
       [] t.kind = "CHOICE" -> CHOICE_decode_xer(t, tag, m)
       [] t.kind \in {"SET OF", "SEQUENCE OF"} -> SET_OF_decode_xer(t, tag, m)
       [] t.kind = "STRING" /\ t.unit > 1 -> BMPString_decode_xer(t, st, tag, b)
       [] t.kind = "STRING" /\ t.unit = 1 -> OCTET_STRING__decode_xer(t, st, tag, b)
       [] t.kind = "NativeInteger" -> NativeInteger_decode_xer(t, st, tag, b)
       [] OTHER -> xer_decode_primitive(t, st, tag, b)

xer_decode(t, sptr, b) == XerDecode(t, sptr, XmlTag(t), b)

(* -- the encoders: can tells CANONICAL-XER from BASIC-XER ----------------- *)
Opening(name) == Flat(<<LANGLE, name, RANGLE>>)
Closing(name) == Flat(<<LANGLE, CSLASH, name, RANGLE>>)
Element_(name, body) == Join(<<Opening(name), body, Closing(name)>>)
OnLine(can, level, part) == Join(<<Flat(INDENT(can, level)), part>>)
LastLine(can, level, parts) == Join(Append(parts, Flat(INDENT(can, level - 1))))

XerMember(t, st, edx, level, can) ==
  LET el == El(t, edx)
  IN IF st.m[edx + 1] # Nil
     THEN OnLine(can, level,
            Element_(Name(el.name), XerEncode(el.type, st.m[edx + 1], level + 1, can)))
     ELSE IF el.optional > 0 THEN Flat(<<>>) ELSE NoEncoding

SEQUENCE_encode_xer(t, st, level, can) ==
  LastLine(can, level, [i \in 1..Len(t.els) |-> XerMember(t, st, i - 1, level, can)])

(* In the order of the tags: the table tag2el_cxer.                          *)
SET_encode_xer(t, st, level, can) ==
  LET low(edx) == Min({1000 * tag[1] + tag[2] : tag \in OutmostTags(El(t, edx))})
      order == SetToSortSeq(0..(Len(t.els) - 1), LAMBDA x, y : low(x) < low(y))
  IN LastLine(can, level, [i \in DOMAIN order |-> XerMember(t, st, order[i], level, can)])

CHOICE_encode_xer(t, st, level, can) ==
  LET el == El(t, st.present - 1)
  IN IF st.present \notin 1..Len(t.els) \/ st.m = Nil THEN NoEncoding
     ELSE LastLine(can, level, <<OnLine(can, level,
            Element_(Name(el.name), XerEncode(el.type, st.m, level + 1, can)))>>)

(* A member whose text is empty, a NULL, is written as an empty element, of  *)
(* which the size is not counted.                                            *)
Item(t, item, level, can, indented) ==
  LET el == El(t, 0)
      inList == as_XMLValueList(el.type)
      r == XerEncode(el.type, item, level + 1, can)
      tag == <<LANGLE, XmlTag(el.type), CSLASH, RANGLE>>
      line == Flat(IF indented THEN INDENT(can, level + 1) ELSE <<>>)
      missed == [size |-> line.size, out |-> line.out \o tag]
  IN IF inList = 0 THEN OnLine(can, level, Element_(ItemTag(t), r))
     ELSE IF r.size = 0 THEN missed ELSE r

SEQUENCE_OF_encode_xer(t, st, level, can) ==
  LastLine(can, level, [i \in DOMAIN st.list |-> Item(t, st.list[i], level, can, TRUE)])

(* In CANONICAL-XER the members are put in order, SET_OF_xer_order, when all *)
(* are there; an assertion then compares their length with the size counted. *)
SET_OF_encode_xer(t, st, level, can) ==
  LET inList == as_XMLValueList(El(t, 0).type)
      deep == IF inList = 2 THEN level - 1 ELSE level
      line == IF inList = 1 THEN Flat(INDENT(can, level + 1)) ELSE Flat(<<>>)
      items == [i \in DOMAIN st.list |-> Join(<<line, Item(t, st.list[i], deep, can, FALSE)>>)]
      sorted == SortSeq(items, LAMBDA x, y : OctetsBefore(x.out, y.out))
      all == LastLine(can, level, IF can THEN sorted ELSE items)
  IN IF can /\ all.size # Len(all.out) THEN NoEncoding ELSE all

XerEncode(t, st, level, can) ==
  CASE t.kind = "SEQUENCE" -> SEQUENCE_encode_xer(t, st, level, can)
    [] t.kind = "SET" -> SET_encode_xer(t, st, level, can)
    [] t.kind = "CHOICE" -> CHOICE_encode_xer(t, st, level, can)
    [] t.kind = "SET OF" -> SET_OF_encode_xer(t, st, level, can)
    [] t.kind = "SEQUENCE OF" -> SEQUENCE_OF_encode_xer(t, st, level, can)
    [] OTHER -> TextEncode(t, st, level, can)

xer_encode(t, st, can) ==
  Join(<<Opening(XmlTag(t)), XerEncode(t, st, 1, can), Closing(XmlTag(t)),
         Flat(IF can THEN <<>> ELSE <<NEWLINE>>)>>)
=============================================================================
