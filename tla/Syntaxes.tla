------------------------------ MODULE Syntaxes ------------------------------
(* The transfer syntaxes of the library side by side, as Codec takes them:  *)
(* XER is CANONICAL-XER, BASIC is BASIC-XER.                                *)
EXTENDS Ber, Der, Uper, Xer, XmlSender, Charsets

(* What the library writes.                                                 *)
Encoded(c) ==
  LET made == Fill(c.type, c.value)
      whole(r) == [code |-> IF IsFailed(r) THEN "FAIL" ELSE "OK", unset |-> FALSE,
                   size |-> r.size, out |-> r.out]
  IN CASE c.syntax = "UPER" -> uper_encode(c.type, made)
       [] c.syntax = "BER" -> whole(der_encode(c.type, made))
       [] c.syntax \in {"XER", "BASIC"} -> whole(xer_encode(c.type, made, c.syntax = "XER"))

(* What a sender may write, and the forms that are canonical.               *)
Encodings(c) ==
  LET t == c.type
  IN CASE c.syntax = "UPER" -> {PerLegal(t, c.value)}
       [] c.syntax = "BER" -> UNION {Legal(t, c.value, 0, Nil, style, 0) : style \in Styles}
       [] OTHER -> UNION {XmlLegal(t, c.value, style) : style \in XmlStyles}
Canonicals(c) ==
  LET t == c.type
  IN CASE c.syntax = "UPER" -> {PerLegal(t, c.value)}
       [] c.syntax = "BER" -> Legal(t, c.value, 0, Nil, DerStyle, 0)
       [] OTHER -> XmlLegal(t, c.value, CxerStyle)

Checked(t, s) == asn_check_constraints(t, s)

(* UPER starts over with all that has come: its decoder is not restartable. *)
(* It counts bits, and what it is part of goes on at the next octet.        *)
Decoded(c, s, octets) ==
  LET t == c.type
  IN CASE c.syntax = "UPER" -> [uper_decode(t, octets) EXCEPT !.consumed = (@ + 7) \div 8]
       [] c.syntax = "BER" -> ber_decode(t, s, octets)
       [] OTHER -> xer_decode(t, s, octets)
=============================================================================
