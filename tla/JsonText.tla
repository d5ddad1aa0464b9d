------------------------------ MODULE JsonText ------------------------------
(***************************************************************************)
(* The printing and the parsing of cJSON (source/cJSON.c): pure functions  *)
(* between values and texts.  A value is a record with its type t; strings *)
(* and names are sequences of characters.  A text is a sequence of         *)
(* symbols: characters, and the literals and numerals, which are never     *)
(* looked into.                                                            *)
(***************************************************************************)
EXTENDS Integers, Sequences, FiniteSets, SequencesExt

CONSTANTS
  Limit,     \* CJSON_NESTING_LIMIT
  IntMax,    \* INT_MAX
  Numbers    \* the numbers that occur

Q == "\""
B == "\\"
Blanks == {" ", "\n", "\t", "\r"}

\* The escapes by a letter.  The other control characters are left out.
Named == [n |-> "\n", t |-> "\t", r |-> "\r", f |-> "\f"]

Concat(ss) == FlattenSeq(ss)
Copies(n, s) == [i \in 1 .. n |-> s]

\* valueint of a number, in parse_number and cJSON_CreateNumber.
Saturate(n) == IF n >= IntMax THEN IntMax ELSE IF n <= -IntMax - 1 THEN -IntMax - 1 ELSE n

RECURSIVE Depth(_)
Depth(v) ==
  IF v.t \notin {"array", "object"} THEN 0
  ELSE 1 + FoldLeft(LAMBDA d, e : IF Depth(e.v) > d THEN Depth(e.v) ELSE d, 0, v.child)

-----------------------------------------------------------------------------
(* Printing.  How the text gets into a buffer is in JsonPrinter.             *)

Escape(c) ==
  CASE c \in {Q, B} -> <<B, c>>
    [] c \in Range(Named) -> <<B, CHOOSE e \in DOMAIN Named : Named[e] = c>>
    [] OTHER -> <<c>>
print_string_ptr(s) == <<Q>> \o Concat([i \in DOMAIN s |-> Escape(s[i])]) \o <<Q>>

print_number(n) == <<ToString(n)>>

RECURSIVE print_value(_, _, _)

print_array(v, fmt, depth) ==
  LET comma == IF fmt THEN <<",", " ">> ELSE <<",">>
      Element(i) == print_value(v.child[i].v, fmt, depth + 1)
                    \o (IF i < Len(v.child) THEN comma ELSE <<>>)
  IN <<"[">> \o Concat([i \in DOMAIN v.child |-> Element(i)]) \o <<"]">>

print_object(v, fmt, depth) ==
  LET Fmt(text) == IF fmt THEN text ELSE <<>>
      Member(i) ==
        Fmt(Copies(depth + 1, "\t")) \o print_string_ptr(v.child[i].k)
        \o <<":">> \o Fmt(<<"\t">>)
        \o print_value(v.child[i].v, fmt, depth + 1)
        \o (IF i < Len(v.child) THEN <<",">> ELSE <<>>) \o Fmt(<<"\n">>)
  IN <<"{">> \o Fmt(<<"\n">>)
     \o Concat([i \in DOMAIN v.child |-> Member(i)])
     \o Fmt(Copies(depth, "\t")) \o <<"}">>

print_value(v, fmt, depth) ==
  CASE v.t \in {"null", "true", "false"} -> <<v.t>>
    [] v.t = "number" -> print_number(v.n)
    [] v.t = "string" -> print_string_ptr(v.s)
    [] v.t = "array" -> print_array(v, fmt, depth)
    [] v.t = "object" -> print_object(v, fmt, depth)

Text(v, fmt) == print_value(v, fmt, 0)

-----------------------------------------------------------------------------
(* Parsing.  Every function returns whether it succeeded, the value, and the *)
(* place behind it.                                                          *)

Fail == [ok |-> FALSE, v |-> [t |-> "null"], at |-> 0]
Found(v, at) == [ok |-> TRUE, v |-> v, at |-> at]
At(text, i) == IF i \in DOMAIN text THEN text[i] ELSE ""

RECURSIVE Skip(_, _)
Skip(text, i) == IF At(text, i) \in Blanks THEN Skip(text, i + 1) ELSE i

RECURSIVE StringEnd(_, _)
StringEnd(text, i) ==
  CASE At(text, i) = "" -> 0
    [] At(text, i) = Q -> i
    [] At(text, i) = B -> StringEnd(text, i + 2)
    [] OTHER -> StringEnd(text, i + 1)

\* An escape that is not known becomes "", which is no character.
RECURSIVE Unescape(_)
Unescape(s) ==
  IF s = <<>> THEN <<>>
  ELSE IF s[1] # B THEN <<s[1]>> \o Unescape(Tail(s))
  ELSE <<CASE s[2] \in DOMAIN Named -> Named[s[2]]
           [] s[2] \in {Q, B, "/"} -> s[2]
           [] OTHER -> "">> \o Unescape(SubSeq(s, 3, Len(s)))

parse_string(text, i) ==
  LET end == StringEnd(text, i + 1)
      s == Unescape(SubSeq(text, i + 1, end - 1))
  IN IF At(text, i) # Q \/ end = 0 THEN Fail
     ELSE IF Contains(s, "") THEN Fail
     ELSE Found([t |-> "string", s |-> s], end + 1)

Numerals == {ToString(n) : n \in Numbers}
parse_number(text, i) ==
  Found([t |-> "number", n |-> CHOOSE n \in Numbers : ToString(n) = text[i]], i + 1)

RECURSIVE parse_value(_, _, _)

RECURSIVE parse_elements(_, _, _, _, _)

\* Mutated parse_elements: the end of the text closes what is open.
ParseElementsOpenEnd(text, i, depth, type, child) ==
  LET name == parse_string(text, Skip(text, i))
      colon == Skip(text, name.at)
      value == parse_value(text, Skip(text, IF type = "array" THEN i ELSE colon + 1), depth)
      next == Skip(text, value.at)
      all == Append(child, [k |-> IF type = "array" THEN <<>> ELSE name.v.s, v |-> value.v])
  IN IF type = "object" /\ (~name.ok \/ At(text, colon) # ":") THEN Fail
     ELSE IF ~value.ok THEN Fail
     ELSE IF At(text, next) = "," THEN parse_elements(text, next + 1, depth, type, all)
     ELSE Found([t |-> type, child |-> all], next + 1)

\* The loops of parse_array and parse_object, from the first element on.
parse_elements(text, i, depth, type, child) ==
  LET name == parse_string(text, Skip(text, i))
      colon == Skip(text, name.at)
      value == parse_value(text, Skip(text, IF type = "array" THEN i ELSE colon + 1), depth)
      next == Skip(text, value.at)
      all == Append(child, [k |-> IF type = "array" THEN <<>> ELSE name.v.s, v |-> value.v])
  IN IF type = "object" /\ (~name.ok \/ At(text, colon) # ":") THEN Fail
     ELSE IF ~value.ok THEN Fail
     ELSE IF At(text, next) = "," THEN parse_elements(text, next + 1, depth, type, all)
     ELSE IF At(text, next) = (IF type = "array" THEN "]" ELSE "}")
          THEN Found([t |-> type, child |-> all], next + 1)
     ELSE Fail

parse_container(text, i, depth, type) ==
  LET first == Skip(text, i + 1) IN
    IF depth >= Limit THEN Fail
    ELSE IF At(text, first) = (IF type = "array" THEN "]" ELSE "}")
         THEN Found([t |-> type, child |-> <<>>], first + 1)
    ELSE parse_elements(text, first, depth + 1, type, <<>>)

\* Mutated parse_value: the depth starts again in an object.
ParseValueObjectDepth(text, i, depth) ==
  CASE At(text, i) \in {"null", "true", "false"} -> Found([t |-> text[i]], i + 1)
    [] At(text, i) = Q -> parse_string(text, i)
    [] At(text, i) \in Numerals -> parse_number(text, i)
    [] At(text, i) = "[" -> parse_container(text, i, depth, "array")
    [] At(text, i) = "{" -> parse_container(text, i, 0, "object")
    [] OTHER -> Fail

parse_value(text, i, depth) ==
  CASE At(text, i) \in {"null", "true", "false"} -> Found([t |-> text[i]], i + 1)
    [] At(text, i) = Q -> parse_string(text, i)
    [] At(text, i) \in Numerals -> parse_number(text, i)
    [] At(text, i) = "[" -> parse_container(text, i, depth, "array")
    [] At(text, i) = "{" -> parse_container(text, i, depth, "object")
    [] OTHER -> Fail

\* cJSON_Parse: what is left behind the value does not matter.
Parse(text) == parse_value(text, Skip(text, 1), 0)

=============================================================================
