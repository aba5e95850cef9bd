------------------------------ MODULE Exchange ------------------------------
(***************************************************************************)
(* Applications at the two ends of a connection that write the fields of a *)
(* message one by one, send it, receive it and read the fields again in    *)
(* the order in which they were written: networking/message.c on top of    *)
(* networking/connection.c.                                                *)
(***************************************************************************)
EXTENDS Connection, Messages

CONSTANTS
  Field,      (* what may be written: [kind, value]; "stream" is a piece   *)
              (* that message_append_stream appends as it is               *)
  MaxFields   (* bound: fields of all messages together                    *)

ASSUME FieldsAssumption == MaxFields \in Nat

VARIABLES
  outgoing,   (* the message that is composed or sent                      *)
  fields,     (* history: the fields written into it                       *)
  letters,    (* history: those of each message sent                       *)
  incoming,   (* the message that was received last                        *)
  read        (* history: the fields read from it                          *)

writer == <<outgoing, fields, letters>>
reader == <<incoming, read>>
allVars == <<vars, writer, reader>>

ExchangeInit ==
  /\ Init
  /\ outgoing = message_create
  /\ fields = <<>>
  /\ letters = <<>>
  /\ incoming = message_create
  /\ read = <<>>

-----------------------------------------------------------------------------
(* A field goes to position, which is the end of the message unless a      *)
(* stream was appended last: that callers only do behind all fields.       *)
write(f) ==
  /\ out = "idle"
  /\ Len(fields) < MaxFields
  /\ Len(FlattenSeq(letters)) + Len(fields) < MaxFields
  /\ outgoing.position = message_get_size(outgoing)
  /\ outgoing' = IF f.kind = "stream" THEN message_append_stream(outgoing, f.value)
                 ELSE message_write(outgoing, f)
  /\ fields' = Append(fields, f)
  /\ UNCHANGED <<vars, letters, reader>>

message_clear_stream ==
  /\ out = "idle"
  /\ outgoing' = message_create
  /\ fields' = <<>>
  /\ UNCHANGED <<vars, letters, reader>>

(* connection_send with the message, which stays as it is: it may be sent  *)
(* again, or written to again before that.                                 *)
send ==
  /\ fields # <<>>
  /\ send_size(message_get_stream(outgoing))
  /\ letters' = Append(letters, fields)
  /\ UNCHANGED <<outgoing, fields, reader>>

resume ==
  /\ send_data
  /\ UNCHANGED <<writer, reader>>

fail ==
  /\ send_fails(message_get_stream(outgoing))
  /\ \/ out = "idle" /\ fields # <<>> /\ letters' = Append(letters, fields)
     \/ out = "data" /\ UNCHANGED letters
  /\ UNCHANGED <<outgoing, fields, reader>>

(* A message that was received is given to the application; what it did    *)
(* not read of the one before is gone.                                     *)
receive ==
  /\ recv_data
  /\ incoming' = message_set_stream(message_create, Last(received').data)
  /\ read' = <<>>
  /\ UNCHANGED writer

(* The reading end knows which fields to expect, from what it read before. *)
Letter == letters[Len(received)]

read_next ==
  /\ in = "size" /\ received # <<>>
  /\ Len(read) < Len(Letter)
  /\ LET kind == Letter[Len(read) + 1].kind
         rest == SubSeq(incoming.stream, incoming.position + 1, message_get_size(incoming))
         r == message_read(incoming, kind)
     IN IF kind = "stream"
        THEN /\ read' = Append(read, [kind |-> kind, value |-> rest])
             /\ incoming' = [incoming EXCEPT !.position = message_get_size(incoming)]
        ELSE /\ read' = Append(read, [kind |-> kind, value |-> r.value])
             /\ incoming' = r.m
  /\ UNCHANGED <<vars, writer>>

others ==
  /\ \/ arrive \/ recv_size \/ recv_nothing
     \/ sender_leaves \/ sender_crashes \/ receiver_ends
  /\ UNCHANGED <<writer, reader>>

ExchangeNext ==
  \/ (\E f \in Field : write(f)) \/ message_clear_stream
  \/ send \/ resume \/ fail
  \/ receive \/ read_next
  \/ others

(* As in Connection.                                                       *)
ExchangeSpec ==
  /\ ExchangeInit /\ [][ExchangeNext]_allVars
  /\ WF_allVars(resume)
  /\ WF_allVars(others /\ arrive)
  /\ WF_allVars(receive \/ (others /\ connection_recv))

-----------------------------------------------------------------------------
(* Properties *)

(* A long is sent as 32 bits without a sign: where it has more, it arrives *)
(* modulo 2^32.                                                            *)
Sendable(f) ==
  IF LongIsWide /\ f.kind \in {"slong", "ulong"} THEN [f EXCEPT !.value = @ % 256^LongOctets]
  ELSE f

(* What the reading end reads is what the writing end wrote: each field    *)
(* its value, and in a message as many of them as there were, with no byte *)
(* left over and none read behind the end.                                 *)
FieldsArrive ==
  received # <<>> =>
    /\ \A i \in DOMAIN read : read[i] = Sendable(Letter[i])
    /\ incoming.position <= message_get_size(incoming)
    /\ Len(read) = Len(Letter) => incoming.position = message_get_size(incoming)
=============================================================================
