------------------------------- MODULE MCFws -------------------------------
(* Module Fws for TLC: names are sequences of two symbols at most.         *)
EXTENDS Fws, TLC

GetFirst == << <<"get">>, <<"get", "all">> >>
TooLong == {<<"get", "long">>}
AllNames == {<<"get">>, <<"get", "all">>, <<"put">>} \cup TooLong
Asked == {<<"get">>, <<"put">>}
AskedOnce == {<<"get">>}

Interchangeable == Permutations(Client) \cup Permutations(Info)
=============================================================================
