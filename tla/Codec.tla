------------------------------- MODULE Codec -------------------------------
(* A value crosses a connection: it is encoded at one end, its octets come  *)
(* in pieces, and the decoder is called with what is there whenever more    *)
(* has come, as fws_server_serve and fws_client_call do with an envelope    *)
(* and the applications with what it carries.                               *)
EXTENDS Tlv, Xml, Values

CONSTANTS
  Cases,      \* what is exchanged: [syntax, type, value, from], from the
              \* senders that may send it
  Encode(_),              \* what the library makes of one: [code, unset, size, out]
  LegalForms(_),          \* the encodings any sender may choose from
  CanonicalForms(_),      \* the canonical ones among them
  Decode(_, _, _),        \* one call of the decoder on a case, the structure
              \* so far and the octets at hand: [code, consumed, st]
  Check(_, _),            \* what the library says of a structure of a type
  Valid(_, _),            \* whether a value is one of its type
  Trailer,    \* octets of whatever follows on the connection
  Piece       \* at most so many octets come at once, or else all

VARIABLES
  case,       \* which value is sent
  by,         \* who encodes it: "library", or a "peer" free to choose
  sent,       \* its encoding
  got,        \* how many octets have come
  used,       \* how many the decoder has consumed
  st,         \* the structure it fills
  code        \* what it returned last

vars == <<case, by, sent, got, used, st, code>>

Init ==
  /\ case = Nil /\ by = Nil /\ sent = <<>> /\ got = 0 /\ used = 0 /\ st = Nil
  /\ code = "IDLE"

(* An er.encoded that was never set may happen to be -1: nothing is sent.   *)
SendByLibrary ==
  /\ code = "IDLE"
  /\ \E c \in {x \in Cases : "library" \in x.from} :
       LET r == Encode(c)
       IN /\ case' = c
          /\ \/ sent' = r.out /\ code' = IF r.code = "OK" THEN "WMORE" ELSE r.code
             \/ r.unset /\ sent' = <<>> /\ code' = "UNSENT"
  /\ by' = "library"
  /\ UNCHANGED <<got, used, st>>

SendByPeer ==
  /\ code = "IDLE"
  /\ \E c \in {x \in Cases : "peer" \in x.from} :
       /\ case' = c
       /\ sent' \in LegalForms(c)
  /\ by' = "peer" /\ code' = "WMORE"
  /\ UNCHANGED <<got, used, st>>

Receive ==
  LET stream == sent \o Trailer
  IN /\ code = "WMORE"
     /\ \E n \in {k \in got + 1..Len(stream) : k <= got + Piece \/ k = Len(stream)} :
          \E r \in {Decode(case, st, SubSeq(stream, used + 1, n))} :
            /\ got' = n
            /\ used' = used + r.consumed
            /\ st' = r.st
            /\ code' = r.code
     /\ UNCHANGED <<case, by, sent>>

Next == SendByLibrary \/ SendByPeer \/ Receive
Spec == Init /\ [][Next]_vars

(* -- properties ---------------------------------------------------------- *)
(* A value arrives as it was sent, whatever form the sender chose for it    *)
(* and wherever the octets were cut.                                        *)
ArrivesAsSent == code = "OK" => Read(case.type, st) = case.value
(* No legal encoding is refused, however it is cut, and no value of the     *)
(* library's own fails to be encoded but by an unset er.encoded.            *)
NeverRefused == code \in {"IDLE", "UNSENT", "WMORE", "OK"}
(* A decoder that is done has taken all of its value and nothing of what    *)
(* follows, and asks for more only while octets of the value are missing.   *)
(* The line end after a text of BASIC-XER stays behind.                     *)
TakesItsOwnOctets ==
  /\ code = "OK" => DropFirst(sent, used) \in {<<>>, <<NEWLINE>>}
  /\ code = "OK" /\ (by = "peer" \/ case.syntax # "BASIC") => used = Len(sent)
  /\ code = "WMORE" => got = 0 \/ got < Len(sent)
(* What the library writes is a legal encoding, and of the legal ones the   *)
(* canonical one: the members of a SET and of a SET OF are in order,        *)
(* however the application put them in, lengths are minimal.  BASIC-XER     *)
(* leaves the order of a SET OF open and adds blanks.                       *)
Precedes(a, b) ==      \* in lexicographic order
  \E i \in 1..Len(b) : /\ i - 1 <= Len(a) /\ SubSeq(a, 1, i - 1) = SubSeq(b, 1, i - 1)
                       /\ i > Len(a) \/ a[i] < b[i]
Unspaced(text) == SelectSeq(text, LAMBDA c : ~WHITESPACE(c))
WritesCanonically ==
  by = "library" /\ code # "UNSENT" =>
    IF case.syntax = "BASIC" THEN Unspaced(sent) \in {Unspaced(e) : e \in CanonicalForms(case)}
    ELSE /\ sent \in CanonicalForms(case)
         /\ \A e \in CanonicalForms(case) : ~Precedes(e, sent)
(* A structure that has arrived is found in order exactly if it holds a     *)
(* value of its type: every string in its alphabet, every time a time, and  *)
(* nothing missing that must be there.                                      *)
ChecksAreRight == code = "OK" => (Check(case.type, st) <=> Valid(case.type, case.value))
(* Lengths are written before what they count, from a first run of the      *)
(* encoder that only estimates, and an application sizes its buffers by the *)
(* count it is given: the count is what is written.                         *)
EstimatesAreExact ==
  by = "library" /\ case.syntax # "UPER" => Encode(case).size = Len(sent)
=============================================================================
