------------------------------- MODULE List -------------------------------
(***************************************************************************)
(* What networking/vector.c promises: a list, without memory.  Indices are *)
(* those of C, from 0; every call is recorded, with what it hands out, so  *)
(* that a vector has to do what it was asked for.                          *)
(***************************************************************************)
EXTENDS Integers, SequencesExt

CONSTANT Elem

VARIABLES
  list,
  call,  (* the last call: its name and arguments                          *)
  out    (* the elements it handed out                                     *)

vars == <<list, call, out>>

Init ==
  /\ list = <<>>
  /\ call = <<"init">>
  /\ out = <<>>

Called(c) == call' = c /\ out' = <<>>

Push(x) ==
  /\ Called(<<"push", x>>)
  /\ list' = Append(list, x)

(* vector_insert: an index out of bounds is ignored.                       *)
Set(i, x) ==
  /\ Called(<<"set", i, x>>)
  /\ list' = IF i < Len(list) THEN ReplaceAt(list, i + 1, x) ELSE list

Insert(i, x) ==
  /\ Called(<<"insert_at", i, x>>)
  /\ list' = InsertAt(list, i + 1, x)

Unshift(x) ==
  /\ Called(<<"unshift", x>>)
  /\ list' = <<x>> \o list

Pop ==
  /\ call' = <<"pop">>
  /\ list # <<>>
  /\ out' = <<list[Len(list)]>>
  /\ list' = SubSeq(list, 1, Len(list) - 1)

Shift ==
  /\ call' = <<"shift">>
  /\ list # <<>>
  /\ out' = <<list[1]>>
  /\ list' = SubSeq(list, 2, Len(list))

Delete(i) ==
  /\ Called(<<"remove", i>>)
  /\ list' = IF i < Len(list) THEN RemoveAt(list, i + 1) ELSE list

RemoveAll ==
  /\ Called(<<"remove_all">>)
  /\ list' = <<>>

Transpose(i, j) ==
  /\ Called(<<"transpose", i, j>>)
  /\ i < Len(list) /\ j < Len(list)
  /\ list' = [list EXCEPT ![i + 1] = list[j + 1], ![j + 1] = list[i + 1]]

Get(i) ==
  /\ call' = <<"get", i>>
  /\ out' = IF i < Len(list) THEN <<list[i + 1]>> ELSE <<>>
  /\ UNCHANGED list

(* The last one stands for every index out of bounds.                     *)
Index == 0 .. Len(list)

Next ==
  \/ \E x \in Elem : \/ Push(x) \/ Unshift(x)
                     \/ \E i \in Index : Set(i, x) \/ Insert(i, x)
  \/ Pop \/ Shift \/ RemoveAll
  \/ \E i \in Index : Delete(i) \/ Get(i)
  \/ \E i, j \in Index : Transpose(i, j)

Spec == Init /\ [][Next]_vars
=============================================================================
