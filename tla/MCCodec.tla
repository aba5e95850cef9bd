------------------------------ MODULE MCCodec ------------------------------
EXTENDS Codec, Syntaxes, Envelope

Universal(n) == <<0, n>>
Context(n) == <<2, n>>
OS == asn_DEF_OCTET_STRING
BITS == String("BIT STRING", Universal(3))
ANY == String("ANY", Universal(0))
BOOL == Primitive("BOOLEAN", Universal(1))
INT == asn_DEF_INTEGER
NULLT == Primitive("NULL", Universal(5))
OID == Primitive("OBJECT IDENTIFIER", Universal(6))
Limited(type, ct) == [type EXCEPT !.per = Values(ct)]
Sizing(type, ct) == [type EXCEPT !.per = Sizes(ct)]
Chars(b) == [buf |-> b, unused |-> 0]

(* A type that was extended: an older receiver, and newer senders.          *)
Extensible == Sequence(<<Universal(16)>>,
  <<Optional(Element("a", Context(0), -1, INT), 1), Element("b", Context(1), -1, BOOL),
    Optional(Element("c", Context(2), 1, OS), 1)>>, 1, 9)
Picks == Choice(<<Element("n", Universal(5), 0, NULLT), Element("s", Universal(4), 0, OS)>>, -1)
Mixed == Set(<<Element("c", NoTag, 0, Picks), Element("b", Universal(1), 0, BOOL),
               Optional(Element("i", Universal(2), 0, INT), 1)>>, TRUE)
Numbers == ListOf("SET OF", Element("", Universal(2), 0, INT))
ManyPicks == ListOf("SEQUENCE OF", Element("", NoTag, 0, Picks))
Native == Primitive("NativeInteger", Universal(2))
Wraps == Sequence(<<Universal(16)>>,
  <<Element("any", Context(0), 1, ANY), Element("bits", <<1, 200>>, -1, BITS),
    Element("n", Context(2), 1, Native)>>, -1, -1)
Boxing(type) == Sequence(<<Universal(16)>>, <<Element("s", Context(0), -1, type)>>, -1, -1)
Boxed == Sequence(<<Universal(16)>>, <<Element("o", Context(0), -1, OS)>>, -1, -1)
ROID == Primitive("RELATIVE-OID", Universal(13))

(* -- types with constraints PER can see ----------------------------------- *)
Struct(els) == Sequence(<<Universal(16)>>, els, -1, -1)
Plain(name, type) == Element(name, Context(0), -1, type)
Default(el, s) == [Optional(el, 1) EXCEPT !.default = s]
Colour == Limited(Enumerated(<<1, 2, 7>>, 0), Between(0, 2, FALSE))
Routes(n, s) == Limited(Choice(<<Element("n", Context(n), -1, NULLT), Element("s", Context(s), -1, OS)>>, -1),
                        Between(0, 1, FALSE))
Route == Routes(0, 1)
Swapped == [Routes(1, 0) EXCEPT !.canonical = <<1, 0>>]
Grown == Limited(Enumerated(<<1, 2, 7, 9>>, 3), Between(0, 1, TRUE))
Open == Limited(Choice(<<Element("n", Context(0), -1, NULLT), Element("s", Context(1), -1, OS)>>, 2),
                Between(0, 1, TRUE))
Flags == Struct(<<Plain("b", BOOL), Optional(Plain("i", Limited(INT, Between(-5, 10, FALSE))), 2),
                 Default(Plain("d", BOOL), [value |-> 1])>>)
Amount == Struct(<<Plain("f", Limited(INT, From(0))), Plain("x", Limited(INT, Between(0, 6, TRUE))),
                  Plain("u", INT), Plain("e", Colour), Plain("z", Limited(Native, Between(300, 300, FALSE)))>>)
Strings == Struct(<<Plain("fixed", Sizing(OS, Between(2, 2, FALSE))),
                   Plain("few", Sizing(BITS, Between(0, 9, FALSE))),
                   Plain("ext", Sizing(OS, Between(1, 2, TRUE))), Plain("any", BITS)>>)
Letter == Struct(
  <<Plain("header", Struct(<<Optional(Plain("block", OS), 1)>>)),
    Plain("body-or-fault", Limited(Choice(
      <<Plain("body", Struct(<<Plain("type", OS), Optional(Plain("data", OS), 1)>>)),
        Element("fault", Context(1), -1, Struct(<<Plain("code", Colour)>>))>>, -1),
      Between(0, 1, FALSE)))>>)
Rows4 == [ListOf("SEQUENCE OF", Element("", NoTag, 0, Route)) EXCEPT !.per = Sizes(Between(0, 3, TRUE))]

Both == {"library", "peer"}
Ber(type, value) == [syntax |-> "BER", type |-> type, value |-> value, from |-> Both]
Uper(type, value) == [syntax |-> "UPER", type |-> type, value |-> value, from |-> Both]
Foreign(c) == [c EXCEPT !.from = {"peer"}]
n1 == [present |-> 1, v |-> 0]
s1 == [present |-> 2, v |-> Chars(<<6>>)]

berCases ==
  { Ber(x[1], x[2]) : x \in
  { <<asn_DEF_Envelope, <<<<Chars(<<7>>)>>, [present |-> 1, v |-> <<Chars(<<65>>), Chars(<<1, 2>>)>>]>>>>,
    <<asn_DEF_Envelope, <<<<Nil>>, [present |-> 2, v |-> <<1, Chars(<<80>>)>>]>>>>,
    <<asn_DEF_TestOperation, [present |-> 1, v |-> <<-2, Chars(<<72>>)>>]>>,
    <<asn_DEF_TestOperation, [present |-> 2, v |-> <<Chars(<<>>), 300>>]>>,
    <<Extensible, <<Nil, TRUE, Nil>>>>, <<Extensible, <<-129, FALSE, Chars(<<9>>)>>>>,
    <<Mixed, <<[present |-> 2, v |-> Chars(<<8>>)], TRUE, 128>>>>,
    <<Mixed, <<[present |-> 1, v |-> 0], FALSE, Nil>>>>,
    <<Numbers, <<-1, 1, 300>>>>, <<Numbers, <<>>>>,
    <<ManyPicks, <<n1, s1>>>>,
    <<Wraps, <<Chars(<<5, 0>>), [buf |-> <<5, 24>>, unused |-> 3], -32768>>>>,
    <<OID, <<1, 38, 127, 128, 16384>>>>, <<OID, <<2, 48>>>>, <<OID, <<0, 0>>>>,
    <<ROID, <<0, 65535>>>> }}
  \cup {[Ber(Boxed, <<Chars([i \in 1..126 |-> i])>>) EXCEPT !.from = {"library"}]}
perCases ==
  { Uper(x[1], x[2]) : x \in
  { <<Letter, <<<<Chars(<<7>>)>>, [present |-> 1, v |-> <<Chars(<<65>>), Nil>>]>>>>,
    <<Flags, <<TRUE, -5, FALSE>>>>, <<Flags, <<FALSE, 10, TRUE>>>>, <<Flags, <<TRUE, Nil, TRUE>>>>,
    <<Amount, <<127, 6, -129, 7, 300>>>>, <<Amount, <<0, 7, 128, 1, 300>>>>,
    <<Strings, <<Chars(<<1, 2>>), [buf |-> <<255, 128>>, unused |-> 7], Chars(<<9>>), [buf |-> <<77, 160>>, unused |-> 5]>>>>,
    <<Strings, <<Chars(<<0, 0>>), [buf |-> <<>>, unused |-> 0], Chars(<<9, 8, 7>>), [buf |-> <<1, 2>>, unused |-> 0]>>>>,
    <<Rows4, <<n1, s1>>>>, <<Rows4, <<n1, n1, s1, n1>>>>, <<Rows4, <<>>>> }}
  \cup {Foreign(Uper(Struct(<<Element("c", NoTag, 0, Swapped)>>), <<v>>)) : v \in {n1, s1}}
  \cup {Foreign(Uper(Struct(<<Plain("long", OS)>>), <<Chars([i \in 1..130 |-> i])>>))}
  \cup {Foreign(Uper(Struct(<<Plain("e", Grown), Plain("i", Limited(INT, From(-2)))>>), v)) :
          v \in {<<2, 128>>, <<9, 298>>}}
  \cup {Uper(Struct(<<Plain("c", Open)>>), <<s1>>)}

(* -- restricted strings and times ----------------------------------------- *)
Stamp(pairs) == FlattenSeq([i \in DOMAIN pairs |-> <<48 + pairs[i] \div 10, 48 + (pairs[i] % 10)>>])
Zulu == <<90>>
East(hour, minute) == <<43>> \o Stamp(<<hour, minute>>)
West(hour, minute) == <<45>> \o Stamp(<<hour, minute>>)
EastHour(hour) == <<43>> \o Stamp(<<hour>>)
At(yy, year, month, day, time) == Stamp(<<yy, year, month, day>> \o time)
LeapDay == At(20, 24, 2, 29, <<23, 59, 59>>) \o <<46, 48, 53>> \o Zulu
NewYear == At(20, 0, 1, 1, <<0, 0, 0>>) \o Zulu
Sylvester == Stamp(<<99, 12, 31, 23, 59, 0>>) \o Zulu
LeapDays ==
  << At(20, 24, 3, 1, <<0, 59, 59>>) \o <<44, 48, 53, 48>> \o EastHour(1),
     At(20, 24, 2, 29, <<18, 29, 59>>) \o <<46, 48, 53>> \o West(5, 30) >>
NewYears ==
  << At(19, 99, 12, 31, <<23, 30>>) \o West(0, 30), At(20, 0, 1, 1, <<0>>) \o Zulu,
     At(20, 0, 1, 1, <<12, 30, 0>>) \o East(12, 30), At(20, 0, 1, 1, <<1>>) >>
Sylvesters ==
  << Sylvester, Stamp(<<99, 12, 31, 23, 59>>) \o Zulu,
     Stamp(<<0, 1, 1, 0, 59, 0>>) \o East(1, 0) >>
Spelled == {<<LeapDay, LeapDays>>, <<NewYear, NewYears>>, <<Sylvester, Sylvesters>>}
mcSpellings == [c \in {p[1] : p \in Spelled} |-> (CHOOSE p \in Spelled : p[1] = c)[2]]
NoTimes == {Stamp(<<20, 24, 13, 1, 0>>) \o Zulu, Stamp(<<20, 24, 1, 1, 24, 0, 0>>) \o Zulu,
            Stamp(<<20, 24, 1, 1, 0, 0, 0>>) \o <<43, 49>>, Stamp(<<20, 24, 1, 1, 0>>) \o <<49>>}
charCases ==
  { Ber(Boxing(asn_DEF_VisibleString), <<Chars(b)>>) : b \in {<<32, 126>>, <<31>>, <<65, 127>>, <<200>>} }
  \cup { Ber(Boxing(asn_DEF_UTF8String), <<Chars(b)>>) : b \in
      { <<127, 194, 128>>, <<224, 160, 128, 65>>, <<240, 144, 128, 128>>, <<223, 191>>,
        <<128>>, <<193, 191>>, <<224, 159, 191>>, <<65, 226, 130>>, <<194, 65>>, <<254>> } }
  \cup { Ber(Boxing(asn_DEF_NumericString), <<Chars(b)>>) : b \in {<<48, 57, 32>>, <<47>>, <<58>>} }
  \cup { Ber(Boxing(asn_DEF_PrintableString), <<Chars(b)>>) : b \in {<<65, 122, 39, 63>>, <<42>>, <<64>>} }
  \cup { Ber(Boxing(asn_DEF_IA5String), <<Chars(b)>>) : b \in {<<0, 127>>, <<128>>} }
  \cup { Ber(Boxing(asn_DEF_GeneralizedTime), <<Chars(b)>>) : b \in {LeapDay, NewYear} }
  \cup { Foreign(Ber(Boxing(asn_DEF_GeneralizedTime), <<Chars(b)>>)) : b \in NoTimes }
  \cup { Ber(Boxing(asn_DEF_UTCTime), <<Chars(Sylvester)>>) }
  \cup { Ber(Boxing(asn_DEF_BMPString), <<Chars(<<32, 172, 0, 65>>)>>) }

(* -- XER ------------------------------------------------------------------ *)
mcNames == <<"BIT STRING", "BOOLEAN", "CHOICE", "ENUMERATED", "GENERIC", "INTEGER", "NULL",
  "OBJECT IDENTIFIER", "RELATIVE-OID", "SEQUENCE", "SEQUENCE OF", "SET", "SET OF", "UTF8",
  "a", "any", "b", "bits", "block", "body", "body-or-fault", "c", "code", "d", "data", "e",
  "ext", "false", "fault", "header", "i", "n", "reason", "s", "true", "type">>
Codes == Struct(<<Plain("e", Enumerated(<<0, 3, 9>>, 0)), Plain("i", Native), Plain("bits", BITS),
                  Plain("d", OID), Plain("n", NULLT)>>)
Words == ListOf("SEQUENCE OF", Element("s", NoTag, 0, asn_DEF_UTF8String))
Nulls == ListOf("SEQUENCE OF", Element("", NoTag, 0, NULLT))
Truths == ListOf("SEQUENCE OF", Element("", NoTag, 0, BOOL))
Hexes == ListOf("SET OF", Element("", NoTag, 0, OS))
Mix == Set(<<Element("b", Universal(1), 0, BOOL), Optional(Element("a", Universal(2), 0, INT), 1),
             Element("c", NoTag, 0, Choice(<<Element("s", Universal(4), 0, OS)>>, -1))>>, TRUE)
Later == Choice(<<Element("n", Universal(5), 0, NULLT)>>, 0)
unheard == [present |-> 0, v |-> Nil]

Xer(type, value) == [syntax |-> "XER", type |-> type, value |-> value, from |-> Both]
Basic(c) == [c EXCEPT !.syntax = "BASIC", !.from = {"library"}]
xerBoth ==
  { Xer(x[1], x[2]) : x \in
  { <<asn_DEF_Envelope, <<<<Chars(<<7>>)>>, [present |-> 1, v |-> <<Chars(<<65>>), Chars(<<1, 171>>)>>]>>>>,
    <<asn_DEF_Envelope, <<<<Nil>>, [present |-> 2, v |-> <<1, Chars(<<38, 0, 195, 159>>)>>]>>>>,
    <<Extensible, <<Nil, TRUE, Nil>>>>, <<Extensible, <<-120, FALSE, Chars(<<202>>)>>>>,
    <<Mix, <<TRUE, 32767, [present |-> 1, v |-> Chars(<<8>>)]>>>>,
    <<Numbers, <<-1, 1, 300>>>>, <<Hexes, <<Chars(<<>>), Chars(<<10>>)>>>>,
    <<ManyPicks, <<n1, s1>>>>, <<Truths, <<TRUE, FALSE>>>>,
    <<Codes, <<3, -32768, [buf |-> <<255, 160>>, unused |-> 5], <<2, 48, 128>>, 0>>>>,
    <<Words, <<Chars(<<62, 60>>), Chars(<<>>), Chars(<<226, 130, 172, 9>>)>>>>,
    <<ROID, <<0, 300>>>>,
    <<Boxing(asn_DEF_BMPString), <<Chars(<<32, 172, 0, 223, 0, 32>>)>>>>,
    <<Boxing(asn_DEF_UniversalString), <<Chars(<<0, 1, 0, 0, 0, 0, 0, 65>>)>>>> }}
xerCases ==
  xerBoth \cup {Basic(c) : c \in xerBoth} \cup {Foreign(Xer(Nulls, <<0, 0>>)), Foreign(Xer(Later, unheard))}
  \cup {Basic(Xer(Struct(<<Plain("any", ANY)>>), <<Chars([i \in 1..17 |-> i])>>))}
timeTexts == { Basic(Xer(Boxing(asn_DEF_UTCTime), <<Chars(Sylvester)>>)),
               Foreign(Xer(Boxing(asn_DEF_GeneralizedTime), <<Chars(NewYear)>>)) }
mcCases == charCases \cup timeTexts \cup berCases \cup perCases \cup xerCases
mcUnknown == {<<159, 100, 1, 3>>, <<48, 128, 4, 1, 0, 0, 0>>}
mcTrailer == <<4, 1>>
=============================================================================
