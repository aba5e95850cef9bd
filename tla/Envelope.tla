------------------------------ MODULE Envelope ------------------------------
(* The descriptors generated for the envelope of fws and for what the       *)
(* sample sends in it.  The tags of an inner type count its own and its     *)
(* element's; none has a codec for PER.                                     *)
EXTENDS Types

asn_DEF_OCTET_STRING == String("GENERIC", <<0, 4>>)
asn_DEF_INTEGER == Primitive("INTEGER", <<0, 2>>)
asn_DEF_VisibleString == Restricted("Visible", <<0, 26>>)
asn_DEF_UTF8String == Restricted("UTF-8", <<0, 12>>)
asn_DEF_NumericString == Restricted("Numeric", <<0, 18>>)
asn_DEF_PrintableString == Restricted("Printable", <<0, 19>>)
asn_DEF_IA5String == Restricted("IA5", <<0, 22>>)
asn_DEF_BMPString == Wide(2, <<0, 30>>)
asn_DEF_UniversalString == Wide(4, <<0, 28>>)
asn_DEF_UTCTime == Time("UTCTime", <<0, 23>>)
asn_DEF_GeneralizedTime == Time("GeneralizedTime", <<0, 24>>)

Inner(n, els) ==   \* [n] IMPLICIT SEQUENCE
  [Sequence(<<<<2, n>>>>, els, -1, -1) EXCEPT !.allTags = <<<<2, n>>, <<0, 16>>>>]

asn_DEF_header ==
  Inner(0, <<Optional(Element("block", <<2, 0>>, -1, asn_DEF_OCTET_STRING), 1)>>)
asn_DEF_body ==
  Inner(0, <<Element("type", <<2, 0>>, -1, asn_DEF_VisibleString),
             Element("data", <<2, 1>>, -1, asn_DEF_OCTET_STRING)>>)
asn_DEF_code ==    \* sender, receiver
  [Enumerated(<<0, 1>>, 0) EXCEPT !.tags = <<<<2, 0>>>>, !.allTags = <<<<2, 0>>, <<0, 10>>>>]
asn_DEF_fault ==
  Inner(1, <<Element("code", <<2, 0>>, -1, asn_DEF_code),
             Optional(Element("reason", <<2, 1>>, -1, asn_DEF_UTF8String), 1)>>)
asn_DEF_body_or_fault ==
  Choice(<<Element("body", <<2, 0>>, -1, asn_DEF_body),
           Element("fault", <<2, 1>>, -1, asn_DEF_fault)>>, -1)
asn_DEF_Envelope ==
  Sequence(<<<<0, 16>>>>,
    <<Element("header", <<2, 0>>, -1, asn_DEF_header),
      Element("body-or-fault", <<2, 1>>, 1, asn_DEF_body_or_fault)>>, -1, -1)

asn_DEF_TestInput ==
  Sequence(<<<<0, 16>>>>,
    <<Element("number", <<2, 0>>, -1, asn_DEF_INTEGER),
      Element("text", <<2, 1>>, -1, asn_DEF_UTF8String)>>, -1, -1)
asn_DEF_TestOutput ==
  Sequence(<<<<0, 16>>>>,
    <<Element("result", <<2, 0>>, -1, asn_DEF_UTF8String),
      Element("code", <<2, 1>>, -1, asn_DEF_INTEGER)>>, -1, -1)
asn_DEF_TestOperation ==
  Choice(<<Element("input", <<2, 0>>, -1, asn_DEF_TestInput),
           Element("output", <<2, 1>>, -1, asn_DEF_TestOutput)>>, -1)
=============================================================================
