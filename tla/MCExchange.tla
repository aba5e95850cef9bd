----------------------------- MODULE MCExchange -----------------------------
(* Module Exchange for TLC: a field of every kind.                         *)
EXTENDS Exchange

Numbers == {<<"uchar", 200>>, <<"schar", -2>>, <<"ushort", 65534>>, <<"sshort", -300>>,
            <<"ulong", 16777221>>, <<"slong", -1>>}
Bytes == {<<"float", <<1, 2, 3, 4>>>>, <<"double", <<1, 2, 3, 4, 5, 6, 7, 8>>>>,
          <<"string", <<0, 1>>>>, <<"string", <<>>>>, <<"stream", <<9, 9>>>>}
Fields == {[kind |-> x[1], value |-> x[2]] : x \in Numbers \cup Bytes}

Scripts == UNION {[1..n -> Fields] : n \in 1..MaxFields}
Composed(script) ==
  FoldLeft(LAMBDA m, f : IF f.kind = "stream" THEN message_append_stream(m, f.value)
                         ELSE message_write(m, f), message_create, script)
Composable == {Composed(s).stream : s \in Scripts}
Words == Composable      \* TLC evaluates the one again and again, the other once
=============================================================================
