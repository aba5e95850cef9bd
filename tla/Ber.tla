-------------------------------- MODULE Ber --------------------------------
(* The BER decoders: ber_decoder.c and the *_decode_ber functions of the    *)
(* constructed types, the strings and the primitive types.  A decoder takes *)
(* a type, the structure it filled so far (Nil at first), the octets at     *)
(* hand and the tag mode, and returns [code, consumed, st]; WMORE asks to   *)
(* be called again with the octets not consumed and more.                   *)
EXTENDS Tlv, Types, Prim

RECURSIVE BerDecode(_, _, _, _), TagLoop(_, _, _, _, _)
RECURSIVE SeqMembers(_, _, _), SeqMember(_, _, _), SeqEnd(_, _)
RECURSIVE ChoiceMember(_, _, _), ChoiceEnd(_, _, _), SetMember(_, _, _)
RECURSIVE SetMembers(_, _), SetOfItems(_, _), SetOfEnd(_)
RECURSIVE OsTags(_, _, _), OsContent(_, _, _), OsFinish(_, _)

(* What follows a tag, L and V, as a number of octets.  `SkipAll' passes    *)
(* over TLVs up to and including the two zero octets.                       *)
RECURSIVE SkipAll(_, _), SkipLength(_, _)
PastEnd_short(skip, n, l) == skip + n
PastEnd(skip, n, l) == skip + n + l         \* past the two zero octets
SkipAll(b, skip) ==
  LET rest == DropFirst(b, skip)
      t == FetchTag(rest)
      l == SkipLength(Constructed(rest[1]), DropFirst(rest, t.n))
  IN IF t.n <= 0 THEN t.n
     ELSE IF l <= 0 THEN l
     ELSE IF rest[1] = 0 /\ rest[2] = 0 THEN PastEnd(skip, t.n, l)
     ELSE SkipAll(b, skip + t.n + l)

SkipLength(constructed, b) ==
  LET l == FetchLength(constructed, b)
  IN IF l.n <= 0 THEN l.n
     ELSE IF l.len < 0 THEN SkipAll(b, l.n)
     ELSE IF l.n + l.len > Len(b) THEN 0 ELSE l.n + l.len

(* -- what every constructed decoder does: the macros LEFT, SIZE_VIOLATION, *)
(*    ADVANCE, NEXT_PHASE, PHASE_OUT and RETURN.  m = [b, at, st]: the      *)
(*    octets of this call, how many are consumed, the structure. ---------- *)
Size(m) == Len(m.b) - m.at
LEFT(m) == IF m.st.ctx.left >= 0 THEN Min({Size(m), m.st.ctx.left}) ELSE Size(m)
View(m) == SubSeq(m.b, m.at + 1, m.at + LEFT(m))
SIZE_VIOLATION_of_buffer(m) == m.st.ctx.left >= 0
SIZE_VIOLATION(m) == m.st.ctx.left >= 0 /\ m.st.ctx.left <= Size(m)
ADVANCE(m, n) ==
  [m EXCEPT !.at = @ + n, !.st.ctx.left = IF @ >= 0 THEN @ - n ELSE @]
ToPhase(m, phase) == [m EXCEPT !.st.ctx.phase = phase, !.st.ctx.step = 0]
PHASE_OUT(m) == [m EXCEPT !.st.ctx.phase = 10]
RETURN(m, code) == [code |-> code, consumed |-> m.at, st |-> m.st]
Halt(m, n) ==       \* a fetch returned n <= 0
  RETURN(m, IF n = 0 /\ ~SIZE_VIOLATION(m) THEN "WMORE" ELSE "FAIL")
AtZero(m) == m.st.ctx.left < 0 /\ View(m)[1] = 0     \* maybe the terminator
Skip(m, n) == SkipLength(Constructed(View(m)[1]), DropFirst(View(m), n))

(* -- ber_check_tags: the chain of tags in front of a value.  s holds the   *)
(*    locals; limit and eocs are not kept between two calls. -------------- *)
TagLoop(t, b, mode, form, s) ==
  LET rest == SubSeq(b, s.at + 1, s.end)
      tag == FetchTag(rest)
      constr == Constructed(rest[1])
      l == FetchLength(constr, DropFirst(rest, tag.n))
      n == tag.n + l.n
      last == s.tagno >= Len(t.tags) - 1
      passed == [s EXCEPT !.at = @ + n, !.tagno = @ + 1, !.step = @ + 1,
                          !.constr = constr, !.len = l.len]
      frame == s.at + n + l.len
  IN CASE s.tagno >= Len(t.tags) -> [s EXCEPT !.code = "OK"]
       [] s.tagno < Len(t.tags) /\ tag.n <= 0 ->
            [s EXCEPT !.code = IF tag.n = 0 THEN "WMORE" ELSE "FAIL"]
       [] OTHER ->
            IF \/ ~(mode # 0 /\ s.step = 0) /\ tag.tag # t.tags[s.tagno + 1]
               \/ ~last /\ ~constr
               \/ last /\ form # -1 /\ constr # (form = 1)
               \/ l.n < 0
            THEN [s EXCEPT !.code = "FAIL"]
            ELSE IF l.n = 0 THEN [s EXCEPT !.code = "WMORE"]
            ELSE IF l.len = -1 THEN
              IF s.limit # -1 THEN [s EXCEPT !.code = "FAIL"]
              ELSE TagLoop(t, b, mode, form, [passed EXCEPT !.eocs = @ + 1])
            ELSE IF s.eocs > 0 \/ s.limit \notin {-1, n + l.len}
            THEN [s EXCEPT !.code = "FAIL"]
            ELSE TagLoop(t, b, mode, form, [passed EXCEPT !.limit = l.len,
                                                          !.end = Min({@, frame})])

(* The untagged ANY (no tag is known in advance) takes one T and L as they  *)
(* come.  Without a context nothing is consumed unless all tags are there.  *)
ber_check_tags(t, step, kept, b, mode, form) ==
  LET tag == FetchTag(b)
      l == FetchLength(Constructed(b[1]), DropFirst(b, tag.n))
      start == [at |-> 0, end |-> Len(b), step |-> step, limit |-> -1, eocs |-> 0,
                tagno |-> step - IF mode = 1 THEN 1 ELSE 0,
                constr |-> TRUE, len |-> 0, code |-> "OK"]
      any == mode = 0 /\ start.tagno = Len(t.tags)
      r == IF ~any THEN TagLoop(t, b, mode, form, start)
           ELSE IF tag.n <= 0 THEN [start EXCEPT !.code = IF tag.n = 0 THEN "WMORE" ELSE "FAIL"]
           ELSE IF l.n <= 0 THEN [start EXCEPT !.code = IF l.n = 0 THEN "WMORE" ELSE "FAIL"]
           ELSE [start EXCEPT !.at = tag.n + l.n, !.len = l.len,
                              !.constr = Constructed(b[1])]
  IN [code |-> r.code, step |-> r.step, constr |-> r.constr,
      consumed |-> IF kept \/ r.code = "OK" THEN r.at ELSE 0,
      len |-> IF r.eocs > 0 THEN -r.eocs ELSE r.len]

(* Phase 0 of every constructed type.                                       *)
CheckTags(t, st, b, mode) == ber_check_tags(t, st.ctx.step, TRUE, b, mode, 1)
Entered(st, b, c) ==
  [b |-> b, at |-> c.consumed,
   st |-> [st EXCEPT !.ctx.left = c.len, !.ctx.phase = 1, !.ctx.step = 0]]
NotEntered(st, c) ==
  [code |-> c.code, consumed |-> c.consumed, st |-> [st EXCEPT !.ctx.step = c.step]]

(* -- SEQUENCE ------------------------------------------------------------ *)
(* The element with this tag among those that may come next, -1 if none:    *)
(* a linear search, then the table of tags for what it could not see.       *)
SeqFind(t, edx, tag) ==
  LET end == edx + El(t, edx).optional
      wide == end < Len(t.els) /\ end + 1 - edx > 8
      scope == edx .. (IF wide THEN edx + 7 ELSE Min({end, Len(t.els) - 1}))
      hits == {n \in scope : El(t, n).open \/ El(t, n).tag \in {tag, NoTag}}
      hit == El(t, Min(hits))
      listed == {n \in Tag2El(t, tag) : edx <= n /\ n <= end}
  IN IF hits # {} /\ (hit.open \/ hit.tag = tag) THEN Min(hits)
     ELSE IF (hits # {} \/ wide) /\ listed # {} THEN Max(listed)
     ELSE -1

SeqMembers(t, m, edx) ==                       \* phase 1, microphase 1
  LET n == Len(t.els)
      mayEnd == \/ edx + El(t, edx).optional = n
                \/ InExtensions(t, edx) /\ t.extBefore > n
      tag == FetchTag(View(m))
      found == SeqFind(t, edx, tag.tag)
      skip == Skip(m, tag.n)
  IN IF edx >= n THEN SeqEnd(t, [m EXCEPT !.st.ctx.phase = 3])
     ELSE IF m.st.ctx.step % 2 = 1 THEN SeqMember(t, m, edx)
     ELSE IF m.st.ctx.left = 0 /\ mayEnd THEN RETURN(PHASE_OUT(m), "OK")
     ELSE IF tag.n <= 0 THEN Halt(m, tag.n)
     ELSE IF AtZero(m) /\ LEFT(m) < 2 THEN Halt(m, 0)
     ELSE IF AtZero(m) /\ View(m)[2] = 0 /\ mayEnd
          THEN SeqEnd(t, [m EXCEPT !.st.ctx.phase = 3])
     ELSE IF found >= 0
          THEN SeqMember(t, [m EXCEPT !.st.ctx.step = 1 + 2 * found], found)
     ELSE IF ~InExtensions(t, edx) THEN RETURN(m, "FAIL")
     ELSE IF skip <= 0 THEN Halt(m, skip)
     ELSE SeqMembers(t, ADVANCE(m, tag.n + skip), edx)

SeqMember(t, m, edx) ==                        \* microphase 2
  LET r == BerDecode(El(t, edx).type, m.st.m[edx + 1], View(m), El(t, edx).mode)
      took == [m EXCEPT !.st.m[edx + 1] = r.st]
      past == ADVANCE(took, r.consumed)
  IN IF r.code = "OK"
     THEN SeqMembers(t, [past EXCEPT !.st.ctx.step = 2 * (edx + 1)], edx + 1)
     ELSE IF r.code = "WMORE" /\ ~SIZE_VIOLATION(m) THEN RETURN(past, "WMORE")
     ELSE RETURN(took, "FAIL")

(* A SET also checks, in phase 5, that what must be there came.             *)
SeqFinish(t, m) ==
  IF t.kind = "SEQUENCE" THEN RETURN(PHASE_OUT(m), "OK")
  ELSE IF _SET_is_populated(t, m.st) THEN RETURN(ToPhase(m, 6), "OK")
  ELSE RETURN([m EXCEPT !.st.ctx.phase = 5], "FAIL")

(* Phases 3 and 4, shared by SEQUENCE and SET: pass over unknown extensions *)
(* and as many terminators as the tags opened.                              *)
SeqEnd(t, m) ==
  LET tag == FetchTag(View(m))
      skip == Skip(m, tag.n)
      terminator == ADVANCE(m, 2)
  IN IF m.st.ctx.left = 0 THEN SeqFinish(t, m)
     ELSE IF tag.n <= 0 THEN Halt(m, tag.n)
     ELSE IF AtZero(m) /\ LEFT(m) < 2 THEN Halt(m, 0)
     ELSE IF AtZero(m) /\ View(m)[2] = 0
          THEN SeqEnd(t, [terminator EXCEPT !.st.ctx.left = @ + 1, !.st.ctx.phase = 4])
     ELSE IF ~ExtensibleEnd(t) \/ m.st.ctx.phase = 4 THEN RETURN(m, "FAIL")
     ELSE IF skip <= 0 THEN Halt(m, skip)
     ELSE SeqEnd(t, ADVANCE(m, tag.n + skip))

SEQUENCE_decode_ber(t, st, b, mode) ==
  LET c == CheckTags(t, st, b, mode)
      m == [b |-> b, at |-> 0, st |-> st]
  IN CASE st.ctx.phase = 0 /\ c.code # "OK" -> NotEntered(st, c)
       [] st.ctx.phase = 0 /\ c.code = "OK" -> SeqMembers(t, Entered(st, b, c), 0)
       [] st.ctx.phase = 1 -> SeqMembers(t, m, st.ctx.step \div 2)
       [] st.ctx.phase \in {3, 4} -> SeqEnd(t, m)
       [] st.ctx.phase = 10 -> RETURN(m, "OK")

(* -- CHOICE: step keeps the alternative, counted from 0; present counts     *)
(*    from 1.  An unknown alternative of an extensible type is skipped and   *)
(*    reported as decoded. -------------------------------------------------*)
ChoiceTag(t, m, mode) ==                       \* phase 1
  LET tag == FetchTag(View(m))
      skip == Skip(m, tag.n)
      listed == Tag2El(t, tag.tag)
  IN IF tag.n <= 0 THEN Halt(m, tag.n)
     ELSE IF listed # {}
          THEN ChoiceMember(t, [ToPhase(m, 2) EXCEPT !.st.ctx.step = Min(listed)], mode)
     ELSE IF t.extStart = -1 THEN RETURN(m, "FAIL")
     ELSE IF skip <= 0 THEN Halt(m, skip)
     ELSE RETURN(ADVANCE(m, tag.n + skip), "OK")

ChoiceMember(t, m, mode) ==                    \* phase 2
  LET edx == m.st.ctx.step
      r == BerDecode(El(t, edx).type, m.st.m, View(m), El(t, edx).mode)
      took == [m EXCEPT !.st.m = r.st, !.st.present = edx + 1]
      past == ADVANCE(took, r.consumed)
  IN IF r.code = "OK" THEN ChoiceEnd(t, ToPhase(past, 3), mode)
     ELSE IF r.code = "WMORE" /\ ~SIZE_VIOLATION(m) THEN RETURN(past, "WMORE")
     ELSE RETURN(took, "FAIL")

(* Phase 3.  A first octet of zero with a second that is not zero would spin *)
(* here; no encoding has one.                                                *)
ChoiceEnd(t, m, mode) ==
  LET tag == FetchTag(View(m))
      untagged == mode = 0 /\ t.tags = <<>>
      terminator == ADVANCE(m, 2)
  IN IF m.st.ctx.left > 0 THEN RETURN(m, "FAIL")
     ELSE IF m.st.ctx.left = 0 \/ (m.st.ctx.left = -1 /\ untagged)
          THEN RETURN(ToPhase(m, 4), "OK")
     ELSE IF tag.n <= 0 THEN Halt(m, tag.n)
     ELSE IF ~AtZero(m) THEN RETURN(m, "FAIL")
     ELSE IF LEFT(m) < 2 THEN Halt(m, 0)
     ELSE IF View(m)[2] = 0
          THEN ChoiceEnd(t, [terminator EXCEPT !.st.ctx.left = @ + 1], mode)
     ELSE RETURN(m, "LOOPS")

CHOICE_decode_ber(t, st, b, mode) ==
  LET c == ber_check_tags(t, st.ctx.step, TRUE, b, mode, -1)
      m == [b |-> b, at |-> 0, st |-> st]
      untagged == mode = 0 /\ t.tags = <<>>
      bare == [ToPhase(m, 1) EXCEPT !.st.ctx.left = -1]
  IN CASE st.ctx.phase = 0 /\ untagged -> ChoiceTag(t, bare, mode)
       [] st.ctx.phase = 0 /\ ~untagged ->
            IF c.code # "OK" THEN NotEntered(st, c)
            ELSE ChoiceTag(t, Entered(st, b, c), mode)
       [] st.ctx.phase = 1 -> ChoiceTag(t, m, mode)
       [] st.ctx.phase = 2 -> ChoiceMember(t, m, mode)
       [] st.ctx.phase = 3 -> ChoiceEnd(t, m, mode)
       [] st.ctx.phase = 4 -> RETURN(m, "OK")

(* -- SET: members in any order, each once -------------------------------- *)
SetMembers(t, m) ==                            \* phase 1, microphase 1
  LET tag == FetchTag(View(m))
      listed == Tag2El(t, tag.tag)
      skip == Skip(m, tag.n)
  IN IF m.st.ctx.step % 2 = 1 THEN SetMember(t, m, m.st.ctx.step \div 2)
     ELSE IF m.st.ctx.left = 0 THEN SeqEnd(t, [m EXCEPT !.st.ctx.phase = 3])
     ELSE IF tag.n <= 0 THEN Halt(m, tag.n)
     ELSE IF AtZero(m) /\ LEFT(m) < 2 THEN Halt(m, 0)
     ELSE IF AtZero(m) /\ View(m)[2] = 0 THEN SeqEnd(t, [m EXCEPT !.st.ctx.phase = 3])
     ELSE IF listed # {}
          THEN SetMember(t, [m EXCEPT !.st.ctx.step = 1 + 2 * Min(listed)], Min(listed))
     ELSE IF ~t.extensible THEN RETURN(m, "FAIL")
     ELSE IF skip <= 0 THEN Halt(m, skip)
     ELSE SetMembers(t, [ADVANCE(m, tag.n + skip) EXCEPT !.st.ctx.step = 0])

SetMember(t, m, edx) ==                        \* microphase 2
  LET r == BerDecode(El(t, edx).type, m.st.m[edx + 1], View(m), El(t, edx).mode)
      took == [m EXCEPT !.st.m[edx + 1] = r.st]
      past == ADVANCE(took, r.consumed)
  IN IF edx \in m.st.present THEN RETURN(m, "FAIL")
     ELSE IF r.code = "OK"
     THEN SetMembers(t, [past EXCEPT !.st.present = @ \cup {edx}, !.st.ctx.step = 0])
     ELSE IF r.code = "WMORE" /\ ~SIZE_VIOLATION(m) THEN RETURN(past, "WMORE")
     ELSE RETURN(took, "FAIL")

SET_decode_ber(t, st, b, mode) ==
  LET c == CheckTags(t, st, b, mode)
      m == [b |-> b, at |-> 0, st |-> st]
  IN CASE st.ctx.phase = 0 /\ c.code # "OK" -> NotEntered(st, c)
       [] st.ctx.phase = 0 /\ c.code = "OK" -> SetMembers(t, Entered(st, b, c))
       [] st.ctx.phase = 1 -> SetMembers(t, m)
       [] st.ctx.phase \in {3, 4} -> SeqEnd(t, m)
       [] st.ctx.phase = 5 -> SeqFinish(t, m)
       [] st.ctx.phase = 6 -> RETURN(m, "OK")

(* -- SET OF and SEQUENCE OF: ptr holds the member being read. The member's  *)
(*    own tag mode is not used. -------------------------------------------*)
SetOfItems(t, m) ==                            \* phase 1
  LET item == El(t, 0)
      tag == FetchTag(View(m))
      go == m.st.ctx.step % 2 = 1
      r == BerDecode(item.type, m.st.ctx.ptr, View(m), 0)
      confirmed == [m EXCEPT !.st.ctx.step = 1, !.st.ctx.ptr = r.st]
      listed == [ADVANCE(m, r.consumed) EXCEPT !.st.list = Append(@, r.st),
                                               !.st.ctx.ptr = Nil, !.st.ctx.step = 0]
  IN IF ~go /\ m.st.ctx.left = 0 THEN RETURN(PHASE_OUT(m), "OK")
     ELSE IF ~go /\ tag.n <= 0 THEN Halt(m, tag.n)
     ELSE IF ~go /\ AtZero(m) /\ LEFT(m) < 2 THEN Halt(m, 0)
     ELSE IF ~go /\ AtZero(m) /\ View(m)[2] = 0 THEN SetOfEnd(ToPhase(m, 2))
     ELSE IF ~go /\ item.tag \notin {NoTag, tag.tag} THEN RETURN(m, "FAIL")
     ELSE IF r.code = "OK" THEN SetOfItems(t, listed)
     ELSE IF r.code = "WMORE" /\ ~SIZE_VIOLATION(m)
          THEN RETURN(ADVANCE(confirmed, r.consumed), "WMORE")
     ELSE RETURN(confirmed, "FAIL")

SetOfEnd(m) ==                                 \* phase 2
  LET b == View(m)
      terminator == ADVANCE(m, 2)
  IN IF m.st.ctx.left >= 0 THEN RETURN(PHASE_OUT(m), "OK")
     ELSE IF Len(b) < 2
          THEN RETURN(m, IF Len(b) = 1 /\ b[1] # 0 THEN "FAIL" ELSE "WMORE")
     ELSE IF b[1] = 0 /\ b[2] = 0
          THEN SetOfEnd([terminator EXCEPT !.st.ctx.left = @ + 1])
     ELSE RETURN(m, "FAIL")

SET_OF_decode_ber(t, st, b, mode) ==
  LET c == CheckTags(t, st, b, mode)
      m == [b |-> b, at |-> 0, st |-> st]
  IN CASE st.ctx.phase = 0 /\ c.code # "OK" -> NotEntered(st, c)
       [] st.ctx.phase = 0 /\ c.code = "OK" -> SetOfItems(t, Entered(st, b, c))
       [] st.ctx.phase = 1 -> SetOfItems(t, m)
       [] st.ctx.phase = 2 -> SetOfEnd(m)
       [] st.ctx.phase = 10 -> RETURN(m, "OK")

(* -- OCTET STRING, BIT STRING and ANY: a constructed string is a tree of    *)
(*    segments, kept as a stack of what is expected; its depth minus one is  *)
(*    cont_level.  context is the room allocated for buf. -----------------*)
Step(m, n) == [m EXCEPT !.at = @ + n]
Room(ns, es) ==
  IF ns > es THEN ns ELSE Min({(IF ns = 0 THEN 16 ELSE ns) * 2^k : k \in 0..10} \ 0..es)
APPEND(m, octets) ==
  [m EXCEPT !.st.buf = @ \o octets,
            !.st.ctx.context = Room(@, Len(m.st.buf) + Len(octets))]
Chop(m, octets) ==    \* the first octet counts the unused bits
  APPEND([m EXCEPT !.st.unused = octets[1]], Tail(octets))
NewStackEl == [left |-> 0, got |-> 0, nulls |-> FALSE, chopped |-> FALSE]

(* A finished segment leaves the stack and is accounted to the one around.   *)
OsPop(stack) ==
  LET sel == Last(stack)
      rest == Front(stack)
      around(el) == [el EXCEPT !.got = @ + sel.got,
                               !.left = IF @ = -1 THEN -1 ELSE @ - sel.got]
  IN IF rest = <<>> THEN <<>> ELSE [rest EXCEPT ![Len(rest)] = around(@)]

OsTags(t, m, mode) ==                          \* phase 1
  LET stack == m.st.ctx.ptr
      depth == Len(stack)
      sel == stack[depth]
      rest == DropFirst(m.b, m.at)
      view == IF depth = 0 \/ sel.left = -1 THEN rest
              ELSE SubSeq(rest, 1, Min({sel.left, Len(rest)}))
      tag == FetchTag(view)
      l == FetchLength(Constructed(view[1]), DropFirst(view, tag.n))
      n == tag.n + l.n
      any == t.variant = "ANY"
      kept(x, level, octets) ==
        IF any /\ (mode # 1 \/ level > 0) THEN APPEND(x, octets) ELSE x
      expected == IF depth > 0 /\ ~any /\ t.allTags # <<>>
                  THEN t.allTags[Min({depth, Len(t.allTags)})] ELSE tag.tag
      bounded == depth > 0 /\ sel.left # -1
      new == [NewStackEl EXCEPT !.got = n, !.nulls = (l.len = -1),
               !.left = IF l.len = -1 /\ bounded THEN sel.left - n ELSE l.len]
      closed == [sel EXCEPT !.got = @ + 2, !.left = 0, !.nulls = FALSE]
      pushed == [Step(kept(m, depth, SubSeq(view, 1, n)), n)
                   EXCEPT !.st.ctx.ptr = Append(@, new)]
  IN IF depth > 0 /\ sel.left <= 0 /\ ~sel.nulls
     THEN IF depth = 1 THEN OsFinish(t, [m EXCEPT !.st.ctx.ptr = <<>>, !.st.ctx.phase = 4])
          ELSE IF stack[depth - 1].left # -1 /\ stack[depth - 1].left < sel.got
               THEN RETURN(m, "FAIL")
          ELSE OsTags(t, [m EXCEPT !.st.ctx.ptr = OsPop(@)], mode)
     ELSE IF tag.n < 0 \/ (tag.n > 0 /\ l.n < 0) THEN RETURN(m, "FAIL")
     ELSE IF tag.n = 0 \/ l.n = 0 THEN RETURN(m, "WMORE")
     ELSE IF depth > 0 /\ sel.nulls /\ view[1] = 0 /\ view[2] = 0
     THEN OsTags(t, [Step(kept(m, depth - 1, <<0, 0>>), 2)
                       EXCEPT !.st.ctx.ptr[depth] = closed], mode)
     ELSE IF tag.tag # expected \/ (bounded /\ sel.left < n + Max({l.len, 0}))
     THEN RETURN(m, "FAIL")
     ELSE IF Constructed(view[1]) THEN OsTags(t, pushed, mode)
     ELSE OsContent(t, [pushed EXCEPT !.st.ctx.phase = 2], mode)

OsContent(t, m, mode) ==                       \* phase 2
  LET sel == Last(m.st.ctx.ptr)
      depth == Len(m.st.ctx.ptr)
      len == Min({Size(m), sel.left})
      octets == SubSeq(m.b, m.at + 1, m.at + len)
      chop == t.variant = "BIT STRING" /\ ~sel.chopped
      took == [Step(IF chop THEN Chop(m, octets) ELSE APPEND(m, octets), len)
                 EXCEPT !.st.ctx.ptr[depth] = [sel EXCEPT !.left = @ - len, !.got = @ + len,
                                                          !.chopped = @ \/ chop]]
      read == IF len > 0 THEN took ELSE m
  IN IF sel.left > len THEN RETURN(read, "WMORE")
     ELSE OsTags(t, [read EXCEPT !.st.ctx.phase = 1], mode)

FirstPiece_of_call(m) == m.at > 0 \/ m.st.ctx.phase = 3
FirstPiece(m) == m.st.ctx.context = 0
OsPrimitive(t, m) ==                           \* phase 3
  LET left == m.st.ctx.left
      chop == t.variant = "BIT STRING" /\ FirstPiece(m)
      octets == SubSeq(m.b, m.at + 1, m.at + Min({Size(m), left}))
      took == Step(IF chop /\ octets # <<>> THEN Chop(m, octets) ELSE APPEND(m, octets),
                   Len(octets))
  IN IF Size(m) = 0 /\ left > 0 THEN RETURN(m, "WMORE")
     ELSE IF Size(m) < left
          THEN RETURN([took EXCEPT !.st.ctx.left = @ - Len(octets)], "WMORE")
     ELSE OsFinish(t, [took EXCEPT !.st.ctx.left = 0, !.st.ctx.phase = 4])

(* The unused bits at the end of a BIT STRING are made zero.                 *)
OsFinish(t, m) ==
  LET n == Len(m.st.buf)
      unit == 2^m.st.unused
  IN IF t.variant = "BIT STRING" /\ n > 0
     THEN RETURN([m EXCEPT !.st.buf[n] = (@ \div unit) * unit], "OK")
     ELSE RETURN(m, "OK")

OCTET_STRING_decode_ber(t, st, b, mode) ==
  LET c == ber_check_tags(t, st.ctx.step, TRUE, b, mode, -1)
      m == [b |-> b, at |-> 0, st |-> [st EXCEPT !.ctx.left = c.len, !.ctx.step = c.step]]
      again == [b |-> b, at |-> 0, st |-> st]
      opened == [m EXCEPT !.st.ctx.phase = 1, !.st.ctx.ptr = <<>>, !.st.ctx.context = 0]
      plain == [m EXCEPT !.st.ctx.phase = 3, !.st.ctx.context = 0]
      header == SubSeq(b, 1, c.consumed)
  IN CASE st.ctx.phase = 0 ->
            IF c.code # "OK" THEN NotEntered(st, c)
            ELSE IF c.constr THEN OsTags(t, opened, mode)
            ELSE OsPrimitive(t, Step(IF t.variant = "ANY" /\ mode # 1
                                     THEN APPEND(plain, header) ELSE plain, c.consumed))
       [] st.ctx.phase = 1 -> OsTags(t, again, mode)
       [] st.ctx.phase = 2 -> OsContent(t, again, mode)
       [] st.ctx.phase = 3 -> OsPrimitive(t, again)
       [] st.ctx.phase = 4 -> OsFinish(t, again)

(* -- the types without a context: nothing is consumed until all is there -- *)
DecodeContents(t, b, mode) ==
  LET c == ber_check_tags(t, 0, FALSE, b, mode, 0)
      end == c.consumed + c.len
  IN IF c.code # "OK" THEN [code |-> c.code, octets |-> <<>>, end |-> 0]
     ELSE IF end > Len(b) THEN [code |-> "WMORE", octets |-> <<>>, end |-> 0]
     ELSE [code |-> "OK", octets |-> SubSeq(b, c.consumed + 1, end), end |-> end]
Stored(t, r, value) ==
  IF r.code # "OK" THEN [code |-> r.code, consumed |-> 0, st |-> Calloc(t)]
  ELSE IF value = Failed THEN [code |-> "FAIL", consumed |-> 0, st |-> Calloc(t)]
  ELSE [code |-> "OK", consumed |-> r.end, st |-> value]

ber_decode_primitive(t, b, mode) ==
  LET r == DecodeContents(t, b, mode) IN Stored(t, r, [buf |-> r.octets])

(* Any octet that is not zero makes TRUE; NULL is read the same way.         *)
BOOLEAN_decode_ber(t, b, mode) ==
  LET r == DecodeContents(t, b, mode)
      truth == SelectSeq(r.octets, LAMBDA o : o # 0)
  IN Stored(t, r, [value |-> IF truth = <<>> THEN 0 ELSE Head(truth)])

NativeInteger_decode_ber(t, b, mode) ==
  LET r == DecodeContents(t, b, mode)
      v == asn_INTEGER2long(r.octets)
  IN Stored(t, r, IF v = Failed THEN Failed ELSE [value |-> v])

BerDecode(t, sptr, b, mode) ==
  LET st == Given(t, sptr)
  IN CASE t.kind = "SEQUENCE" -> SEQUENCE_decode_ber(t, st, b, mode)
       [] t.kind = "SET" -> SET_decode_ber(t, st, b, mode)
       [] t.kind = "CHOICE" -> CHOICE_decode_ber(t, st, b, mode)
       [] t.kind \in {"SET OF", "SEQUENCE OF"} -> SET_OF_decode_ber(t, st, b, mode)
       [] t.kind = "STRING" -> OCTET_STRING_decode_ber(t, st, b, mode)
       [] t.kind \in {"BOOLEAN", "NULL"} -> BOOLEAN_decode_ber(t, b, mode)
       [] t.kind = "NativeInteger" -> NativeInteger_decode_ber(t, b, mode)
       [] OTHER -> ber_decode_primitive(t, b, mode)

ber_decode(t, sptr, b) == BerDecode(t, sptr, b, 0)
=============================================================================
