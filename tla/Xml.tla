-------------------------------- MODULE Xml --------------------------------
(* The XML layer below XER: xer_support.c and the token functions of        *)
(* xer_decoder.c.  Text is a sequence of symbols: a character is its code,  *)
(* an identifier of a type and the four spaces of an indentation are one    *)
(* symbol each (identifiers are never cut in the middle here).              *)
EXTENDS Integers, Sequences, SequencesExt, FiniteSetsExt

CONSTANTS
  Names      \* the identifiers of the types, in alphabetical order

LANGLE == 60
RANGLE == 62
CSLASH == 47
CEQUAL == 61
CQUOTE == 34
CDASH == 45
EXCLAM == 33
NEWLINE == 10
SPACE == 32

NoName == 0                                   \* the empty identifier
Name(s) == IF s = "" THEN NoName ELSE 999 + CHOOSE i \in DOMAIN Names : Names[i] = s
EnumName(value) == 2000 + value               \* the identifier of an enumerator
ControlName(c) == 3000 + c                    \* nul, soh, stx, ...

WHITESPACE(c) == c \in {9, 10, 12, 13, 32}
ALPHA(c) == c >= 1000 \/ c \in (65..90) \cup (97..122)
xer_is_whitespace(chunk) == \A i \in DOMAIN chunk : chunk[i] \in {9, 10, 13, 32}

(* -- the parser: its states, as the enumeration numbers them ------------- *)
ST_TEXT == 0
ST_TAG_START == 1
ST_TAG_BODY == 2
ST_TAG_QUOTE_WAIT == 3
ST_TAG_QUOTED_STRING == 4
ST_TAG_UNQUOTED_STRING == 5
ST_COMMENT_WAIT_DASH1 == 6
ST_COMMENT_WAIT_DASH2 == 7
ST_COMMENT == 8
ST_COMMENT_CLO_DASH2 == 9
ST_COMMENT_CLO_RT == 10

Moved(s, c) ==          \* the state after a symbol that ends no chunk
  CASE s = ST_TEXT -> IF c = LANGLE THEN ST_TAG_START ELSE s
    [] s = ST_TAG_START -> IF c = EXCLAM THEN ST_COMMENT_WAIT_DASH1 ELSE ST_TAG_BODY
    [] s = ST_TAG_BODY ->
         IF c = LANGLE THEN ST_TAG_START ELSE IF c = CEQUAL THEN ST_TAG_QUOTE_WAIT ELSE s
    [] s = ST_TAG_QUOTE_WAIT ->
         IF c = CQUOTE THEN ST_TAG_QUOTED_STRING
         ELSE IF WHITESPACE(c) THEN s ELSE ST_TAG_UNQUOTED_STRING
    [] s = ST_TAG_QUOTED_STRING -> IF c = CQUOTE THEN ST_TAG_BODY ELSE s
    [] s = ST_TAG_UNQUOTED_STRING -> IF WHITESPACE(c) THEN ST_TAG_BODY ELSE s
    [] s = ST_COMMENT_WAIT_DASH1 -> IF c = CDASH THEN ST_COMMENT_WAIT_DASH2 ELSE ST_TAG_BODY
    [] s = ST_COMMENT_WAIT_DASH2 -> IF c = CDASH THEN ST_COMMENT ELSE ST_TAG_BODY
    [] s = ST_COMMENT -> IF c = CDASH THEN ST_COMMENT_CLO_DASH2 ELSE s
    [] s = ST_COMMENT_CLO_DASH2 -> IF c = CDASH THEN ST_COMMENT_CLO_RT ELSE ST_COMMENT
    [] s = ST_COMMENT_CLO_RT -> IF c = CDASH THEN s ELSE ST_COMMENT

(* The first chunk of b in state s: how many symbols it has, what it is,     *)
(* and the state kept for the next call.  xer__token_cb ends the parsing at  *)
(* the first chunk: a chunk that leaves out the symbol that ended it keeps   *)
(* the state it was in.  n = 0 if there is no chunk yet.  At the end of b    *)
(* text and comments are handed over as far as they have come, a tag is not. *)
RECURSIVE pxml_parse(_, _, _)
pxml_parse(s, b, i) ==
  LET c == b[i]
      chunk(n, kind, kept) == [n |-> n, kind |-> kind, context |-> kept]
      inTag == s \in {ST_TAG_BODY, ST_TAG_QUOTE_WAIT, ST_TAG_UNQUOTED_STRING}
  IN IF i > Len(b)
     THEN IF i > 1 /\ s = ST_TEXT THEN chunk(i - 1, "TEXT", s)
          ELSE IF i > 1 /\ s = ST_COMMENT THEN chunk(i - 1, "COMMENT", s)
          ELSE chunk(0, "NONE", s)
     ELSE IF s = ST_TEXT /\ c = LANGLE /\ i > 1 THEN chunk(i - 1, "TEXT", s)
     ELSE IF s = ST_TAG_START /\ ~ALPHA(c) /\ c \notin {CSLASH, EXCLAM}
     THEN chunk(i, "TEXT", ST_TEXT)
     ELSE IF inTag /\ c = RANGLE THEN chunk(i, "TAG", ST_TEXT)
     ELSE IF s = ST_TAG_BODY /\ c = LANGLE /\ i > 1 THEN chunk(i - 1, "TAG", s)
     ELSE IF s = ST_COMMENT_CLO_RT /\ c = RANGLE THEN chunk(i, "COMMENT", ST_TEXT)
     ELSE pxml_parse(Moved(s, c), b, i + 1)

xer_next_token(context, b) == pxml_parse(context, b, 1)

(* What a tag is, and whether it bears the identifier looked for.            *)
Unknown_(form) ==
  CASE form = "OPENING" -> "UNKNOWN_OP"
    [] form = "CLOSING" -> "UNKNOWN_CL"
    [] form = "BOTH" -> "UNKNOWN_BO"

xer_check_tag(c, need) ==
  LET closing == c[2] = CSLASH
      inner == SubSeq(c, IF closing THEN 3 ELSE 2, Len(c) - 1)
      slash == inner # <<>> /\ Last(inner) = CSLASH
      name == IF slash THEN Front(inner) ELSE inner
      form == IF closing THEN "CLOSING" ELSE IF slash THEN "BOTH" ELSE "OPENING"
      named == need # NoName /\ name # <<>> /\ name[1] = need
  IN IF Len(c) < 2 \/ c[1] # LANGLE \/ Last(c) # RANGLE \/ (closing /\ slash) THEN "BROKEN"
     ELSE IF named /\ (Len(name) = 1 \/ WHITESPACE(name[2])) THEN form
     ELSE Unknown_(form)

(* How many unknown elements are open after a tag; verdict 1 if none is,     *)
(* 2 if it was the tag looked for that closed the last one.                  *)
xer_skip_unknown(tcv, depth) ==
  CASE tcv \in {"BOTH", "UNKNOWN_BO"} -> [verdict |-> 0, depth |-> depth]
    [] tcv \in {"OPENING", "UNKNOWN_OP"} -> [verdict |-> 0, depth |-> depth + 1]
    [] tcv \in {"CLOSING", "UNKNOWN_CL"} ->
         [verdict |-> IF depth > 1 THEN 0 ELSE IF tcv = "CLOSING" THEN 2 ELSE 1,
          depth |-> depth - 1]
    [] tcv = "BROKEN" -> [verdict |-> -1, depth |-> depth]
=============================================================================
