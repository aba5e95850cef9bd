------------------------------ MODULE Channel ------------------------------
(***************************************************************************)
(* What the two functions of networking/connection.c promise together:     *)
(* connection_recv returns the messages given to connection_send, whole    *)
(* and in order, and NULL only once the other end is gone.                 *)
(***************************************************************************)
EXTENDS Integers, Sequences

CONSTANT Message

VARIABLES
  sent,      (* messages given to connection_send                          *)
  received,  (* messages returned by connection_recv                       *)
  gone,      (* whether the sending end is gone                            *)
  dropped    (* whether connection_recv has returned NULL                  *)

vars == <<sent, received, gone, dropped>>

Init ==
  /\ sent = <<>>
  /\ received = <<>>
  /\ gone = FALSE
  /\ dropped = FALSE

Send(m) ==
  /\ ~gone
  /\ sent' = Append(sent, m)
  /\ UNCHANGED <<received, gone, dropped>>

Receive ==
  /\ ~dropped
  /\ Len(received) < Len(sent)
  /\ received' = Append(received, sent[Len(received) + 1])
  /\ UNCHANGED <<sent, gone, dropped>>

Leave ==
  /\ gone' = TRUE
  /\ UNCHANGED <<sent, received, dropped>>

Drop ==
  /\ gone
  /\ dropped' = TRUE
  /\ UNCHANGED <<sent, received, gone>>

Next == (\E m \in Message : Send(m)) \/ Receive \/ Leave \/ Drop

Spec == Init /\ [][Next]_vars
=============================================================================
