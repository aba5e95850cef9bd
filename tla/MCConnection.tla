---------------------------- MODULE MCConnection ----------------------------
(* Module Connection for TLC: short messages of two different bytes.       *)
EXTENDS Connection

Words == {<<1>>, <<1, 2>>, <<2, 1, 1>>}
=============================================================================
