------------------------------- MODULE Values -------------------------------
(* Values as an application sees them, and the structures the library keeps  *)
(* them in.  A value is a number, a truth value, arcs, [buf, unused] for a   *)
(* string, a tuple for SEQUENCE and SET (Nil for what is left out),          *)
(* [present, v] for CHOICE and a sequence for the lists.                     *)
EXTENDS Types, Prim, Times

CONSTANT
  Spellings   \* how a time may be written: from its canonical form to a
              \* sequence of others, the one the application uses first

IsTime(t) == t.kind = "STRING" /\ t.charset \in {"UTCTime", "GeneralizedTime"}

(* An application that receives a time asks for the moment.                  *)
TimeText(t, buf) ==
  LET moment == IF t.charset = "UTCTime" THEN asn_UT2time(buf) ELSE asn_GT2time_frac(buf)
  IN IF moment = Failed THEN buf
     ELSE IF t.charset = "UTCTime" THEN asn_time2UT(moment) ELSE asn_time2GT_frac(moment)

RECURSIVE Fill(_, _), Read(_, _)
Fill(t, v) ==      \* the structure an application sets up for v
  CASE v = Nil -> Nil
    [] v # Nil /\ t.kind \in {"SEQUENCE", "SET"} ->
         [Calloc(t) EXCEPT !.m = [i \in 1..Len(t.els) |-> Fill(t.els[i].type, v[i])]]
    [] t.kind = "CHOICE" ->
         [Calloc(t) EXCEPT !.present = v.present, !.m = Fill(t.els[v.present].type, v.v)]
    [] t.kind = "SEQUENCE OF" ->
         [Calloc(t) EXCEPT !.list = [i \in DOMAIN v |-> Fill(t.els[1].type, v[i])]]
    [] t.kind = "SET OF" ->      \* put in in any order: here in reverse
         [Calloc(t) EXCEPT !.list = [i \in DOMAIN v |-> Fill(t.els[1].type, v[Len(v) + 1 - i])]]
    [] IsTime(t) /\ v.buf \in DOMAIN Spellings -> [Calloc(t) EXCEPT !.buf = Spellings[v.buf][1]]
    [] t.kind = "STRING" /\ ~(IsTime(t) /\ v.buf \in DOMAIN Spellings) ->
         [Calloc(t) EXCEPT !.buf = v.buf, !.unused = v.unused]
    [] t.kind = "BOOLEAN" -> [value |-> IF v THEN 1 ELSE 0]
    [] t.kind = "NativeInteger" -> [value |-> v]
    [] t.kind = "NULL" -> [value |-> 0]
    [] t.kind \in {"INTEGER", "ENUMERATED"} -> [buf |-> asn_long2INTEGER(v)]
    [] t.kind = "OBJECT IDENTIFIER" -> [buf |-> OBJECT_IDENTIFIER_set_arcs(v)]
    [] t.kind = "RELATIVE-OID" -> [buf |-> RELATIVE_OID_set_arcs(v)]

Read(t, s) ==      \* the value it finds in a structure
  CASE s = Nil -> Nil
    [] s # Nil /\ t.kind \in {"SEQUENCE", "SET"} ->
         [i \in 1..Len(t.els) |-> Read(t.els[i].type, s.m[i])]
    [] t.kind = "CHOICE" ->
         [present |-> s.present,
          v |-> IF s.present = 0 THEN Nil ELSE Read(t.els[s.present].type, s.m)]
    [] t.kind = "SEQUENCE OF" -> [i \in DOMAIN s.list |-> Read(t.els[1].type, s.list[i])]
    [] t.kind = "SET OF" ->      \* the order says nothing
         LET strings == t.els[1].type.kind = "STRING"
         IN SortSeq([i \in DOMAIN s.list |-> Read(t.els[1].type, s.list[i])],
              LAMBDA x, y : IF strings THEN OctetsBefore(x.buf, y.buf) ELSE x < y)
    [] IsTime(t) -> [buf |-> TimeText(t, s.buf), unused |-> 0]
    [] t.kind = "STRING" /\ ~IsTime(t) -> [buf |-> s.buf, unused |-> s.unused]
    [] t.kind = "BOOLEAN" -> s.value # 0
    [] t.kind \in {"NativeInteger", "NULL"} -> s.value
    [] t.kind \in {"INTEGER", "ENUMERATED"} -> asn_INTEGER2long(s.buf)
    [] t.kind = "OBJECT IDENTIFIER" -> OBJECT_IDENTIFIER_get_arcs(s.buf)
    [] t.kind = "RELATIVE-OID" -> RELATIVE_OID_get_arcs(s.buf)
=============================================================================
