----------------------------- MODULE Connection -----------------------------
(***************************************************************************)
(* networking/connection.c: one end of a TCP connection sends messages,    *)
(* each as four bytes of size and then its bytes, and the other receives   *)
(* them with one recv() for the size and one for the rest.                 *)
(*                                                                         *)
(* TCP keeps the order of the bytes and nothing else: the bytes of one     *)
(* send() may arrive in pieces (Torn), and recv() returns what has arrived *)
(* up to the length it was given.  A blocking send() of a process without  *)
(* signal handlers takes all of its bytes.                                 *)
(***************************************************************************)
EXTENDS Integers, Sequences

CONSTANTS
  Message,   (* what is sent: sequences of bytes                           *)
  Junk,      (* bytes that uninitialised memory may hold                   *)
  Torn,      (* whether the bytes of one send() may arrive in pieces       *)
  MaxSends   (* bound: messages sent over the connection                   *)

ASSUME ByteAssumption == Message \subseteq Seq(0 .. 255) /\ Junk \subseteq 0 .. 255
ASSUME SendsAssumption == Torn \in BOOLEAN /\ MaxSends \in Nat

VARIABLES
  out,          (* where the sending end stands                            *)
  message,      (* the message it is sending                               *)
  flight,       (* kernel: what each send() took, as far as it is under way *)
  stream,       (* kernel: the bytes that have arrived                     *)
  in,           (* where the receiving end stands                          *)
  buffer_size,  (* the size it received last                               *)
  sent,         (* history: messages given to connection_send              *)
  received      (* history: messages returned by connection_recv           *)

sender == <<out, message, sent>>
receiver == <<in, buffer_size, received>>
vars == <<sender, flight, stream, receiver>>

(* sizeof(network_size), where message->size has eight.                    *)
SizeBytes_long == 8
SizeBytes == 4

Htonl_swapped(n) == <<n % 256, (n \div 256) % 256, (n \div 65536) % 256, n \div 16777216>>
Htonl(n) == <<n \div 16777216, (n \div 65536) % 256, (n \div 256) % 256, n % 256>>
Ntohl(b) == b[1] * 16777216 + b[2] * 65536 + b[3] * 256 + b[4]

Closed == {"left", "crashed"}

Init ==
  /\ out = "idle"
  /\ message = <<>>
  /\ flight = <<>>
  /\ stream = <<>>
  /\ in = "size"
  /\ buffer_size = 0
  /\ sent = <<>>
  /\ received = <<>>

-----------------------------------------------------------------------------
(* connection_send *)

send_size(m) ==
  /\ out = "idle" /\ out' = "data"
  /\ Len(sent) < MaxSends
  /\ message' = m
  /\ sent' = Append(sent, m)
  /\ flight' = Append(flight, Htonl(Len(m)))
  /\ UNCHANGED <<stream, receiver>>

(* send() of no bytes is nothing to the stream; that it returns 0 is an    *)
(* error to connection_send, but its callers do not look.                  *)
send_data ==
  /\ out = "data" /\ out' = "idle"
  /\ flight' = IF message = <<>> THEN flight ELSE Append(flight, message)
  /\ UNCHANGED <<message, sent, stream, receiver>>

(* Once the other end has closed, send() fails: after the size there is    *)
(* then no second one.                                                     *)
send_fails(m) ==
  /\ in \in {"dropped", "ended"}
  /\ out' = "idle"
  /\ \/ /\ out = "idle"
        /\ Len(sent) < MaxSends
        /\ message' = m /\ sent' = Append(sent, m)
     \/ out = "data" /\ UNCHANGED <<message, sent>>
  /\ UNCHANGED <<flight, stream, receiver>>

(* closesocket() between two messages: all that was sent still arrives.    *)
sender_leaves ==
  /\ out = "idle" /\ out' = "left"
  /\ UNCHANGED <<message, sent, flight, stream, receiver>>

(* The process ends anywhere, and its connection is reset: what was under  *)
(* way is lost, what had arrived may be.                                   *)
sender_crashes ==
  /\ out \notin Closed /\ out' = "crashed"
  /\ flight' = <<>>
  /\ stream' \in {stream, <<>>}
  /\ UNCHANGED <<message, sent, receiver>>

-----------------------------------------------------------------------------
(* The network: the bytes of the oldest send() arrive.                     *)
Arriving == IF Torn THEN 1 .. Len(Head(flight)) ELSE {Len(Head(flight))}

arrive ==
  /\ flight # <<>>
  /\ \E n \in Arriving :
       LET segment == Head(flight)
       IN /\ stream' = stream \o SubSeq(segment, 1, n)
          /\ flight' = IF n = Len(segment) THEN Tail(flight)
                       ELSE <<SubSeq(segment, n + 1, Len(segment))>> \o Tail(flight)
  /\ UNCHANGED <<sender, receiver>>

-----------------------------------------------------------------------------
(* connection_recv *)

(* What recv() returns, and leaves, of what has arrived.                   *)
Got(n) == SubSeq(stream, 1, IF n <= Len(stream) THEN n ELSE Len(stream))
Left(bytes) == SubSeq(stream, Len(bytes) + 1, Len(stream))

(* Fewer than four bytes leave the rest of network_size uninitialised.     *)
recv_size ==
  /\ in = "size" /\ in' = "data"
  /\ stream # <<>>
  /\ LET bytes == Got(SizeBytes)
     IN /\ \E junk \in [1 .. SizeBytes - Len(bytes) -> Junk] :
             buffer_size' = Ntohl(bytes \o junk)
        /\ stream' = Left(bytes)
  /\ UNCHANGED <<received, flight, sender>>

(* The message is buffer_size bytes of the buffer; "data" are those that   *)
(* recv() wrote into it.                                                   *)
recv_data ==
  /\ in = "data" /\ in' = "size"
  /\ buffer_size > 0
  /\ stream # <<>>
  /\ LET bytes == Got(buffer_size)
     IN /\ received' = Append(received, [size |-> buffer_size, data |-> bytes])
        /\ stream' = Left(bytes)
  /\ UNCHANGED <<buffer_size, flight, sender>>

(* recv() returns 0 or an error: connection_recv returns NULL, and         *)
(* server_recv_msg closes the connection.  (recv() of no bytes is 0, too.) *)
EndOfFile_untold == stream = <<>>
EndOfFile == stream = <<>> /\ flight = <<>> /\ out \in Closed

recv_nothing ==
  /\ \/ in \in {"size", "data"} /\ EndOfFile
     \/ in = "data" /\ buffer_size = 0
  /\ in' = "dropped"
  /\ UNCHANGED <<buffer_size, received, flight, stream, sender>>

(* The receiving process ends for reasons of its own.                      *)
receiver_ends ==
  /\ in \in {"size", "data"} /\ in' = "ended"
  /\ UNCHANGED <<buffer_size, received, flight, stream, sender>>

-----------------------------------------------------------------------------
connection_send == (\E m \in Message : send_size(m) \/ send_fails(m)) \/ send_data
connection_recv == recv_size \/ recv_data \/ recv_nothing

Next ==
  \/ connection_send \/ sender_leaves \/ sender_crashes
  \/ arrive
  \/ connection_recv \/ receiver_ends

Spec == Init /\ [][Next]_vars

(* connection_send goes on after the size, what is under way arrives, and  *)
(* the receiving end calls connection_recv again and again.                *)
FairSpec == Spec /\ WF_vars(send_data) /\ WF_vars(arrive) /\ WF_vars(connection_recv)

-----------------------------------------------------------------------------
(* Properties *)

(* Every variable has its type, and every size received is the size of a   *)
(* message.                                                                *)
TypeOK ==
  /\ out \in {"idle", "data"} \cup Closed
  /\ message \in Message \cup {<<>>}
  /\ flight \in Seq(Seq(0 .. 255))
  /\ stream \in Seq(0 .. 255)
  /\ in \in {"size", "data", "dropped", "ended"}
  /\ buffer_size \in {Len(m) : m \in Message \cup {<<>>}}
  /\ sent \in Seq(Message)
  /\ received \in Seq([size : Nat, data : Message])

(* Nothing marks where a message begins.  Still, the end that expects a    *)
(* size finds the four bytes of one, namely that of the first message not  *)
(* yet received, and the end that expects bytes finds the bytes of that    *)
(* message.                                                                *)
FramesAligned ==
  LET next == sent[Len(received) + 1]
      begins(bytes) == Len(bytes) <= Len(stream) /\ SubSeq(stream, 1, Len(bytes)) = bytes
  IN stream # <<>> =>
       /\ Len(received) < Len(sent)
       /\ in = "size" => begins(Htonl(Len(next)))
       /\ in = "data" => begins(next)

(* "Incoming message construction": the message that is constructed        *)
(* consists of bytes that came in.                                         *)
WholeMessages == \A i \in DOMAIN received : Len(received[i].data) = received[i].size

(* Every message is received, unless one of the processes ends before      *)
(* that: closing the connection in order loses nothing.                    *)
EverythingArrives ==
  \A n \in 1 .. MaxSends :
    Len(sent) >= n ~> Len(received) >= n \/ in = "ended" \/ out = "crashed"

C == INSTANCE Channel WITH
       received <- [i \in DOMAIN received |-> received[i].data],
       gone <- out \in Closed,
       dropped <- in = "dropped"

(* Where the bytes of a send() arrive together, connection_send and        *)
(* connection_recv are a channel of messages, which is what module Fws     *)
(* takes them for.                                                         *)
ImplementsChannel == C!Spec
=============================================================================
