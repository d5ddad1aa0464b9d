----------------------------- MODULE JsonStore ------------------------------
(***************************************************************************)
(* What the program does to its records and nick names between two runs:   *)
(* toCjson, cJSON_Print, a file that may be cut by a crash, the reading of *)
(* that file word by word (App.cpp), cJSON_Parse and jsonToObject; and the *)
(* other functions of cJSON on texts and values.  A step applies one of    *)
(* them to one value.                                                      *)
(***************************************************************************)
EXTENDS JsonText

CONSTANTS
  Values,    \* the values
  Records    \* the records of TranslateRecorder

VARIABLES
  value,  \* the value or the record
  step,   \* what was done with it
  out     \* and the result

vars == <<value, step, out>>

-----------------------------------------------------------------------------
(* The file *)

Word(text) == SelectSeq(text, LAMBDA s : s \notin Blanks)

\* readJsonFromFile: the words without the blanks between them; when a blank
\* ends the text, the buffer still holds the last word and it counts again.
readJsonFromFile(text) ==
  LET words == Word(text)
      lastBlank(s) == IF \E i \in DOMAIN s : s[i] \in Blanks
                      THEN CHOOSE i \in DOMAIN s :
                             s[i] \in Blanks /\ \A j \in i + 1 .. Len(s) : s[j] \notin Blanks
                      ELSE 0
      RECURSIVE Trim(_)
      Trim(s) == IF s # <<>> /\ Last(s) \in Blanks THEN Trim(Front(s)) ELSE s
      end == Trim(text)
  IN IF end = text THEN words
     ELSE words \o SubSeq(end, lastBlank(end) + 1, Len(end))

Char(s) == [t |-> "string", s |-> s]
Num(n) == [t |-> "number", n |-> n]
Member(k, v) == [k |-> k, v |-> v]

\* toCjson
toCjson(r) ==
  [t |-> "object", child |->
    << Member(<<"isdone">>, [t |-> IF r.isdone THEN "true" ELSE "false"]),
       Member(<<"port">>, Num(r.port)), Member(<<"sent">>, Num(r.sent)),
       Member(<<"id">>, Num(r.id)),
       Member(<<"path">>, Char(r.path)), Member(<<"ip">>, Char(r.ip)) >>]

\* tolower
Lower(k) == [i \in DOMAIN k |-> IF k[i] = "K" THEN "k" ELSE k[i]]

\* Mutated get_object_item: no member is told from another one by case.
GetAnyCase(v, k, cs) ==
  LET all == {i \in DOMAIN v.child : Lower(v.child[i].k) = Lower(k)}
  IN {v.child[i].v : i \in {i \in all : \A j \in all : i <= j}}

\* get_object_item: the first member of that name, or none.
get_object_item(v, k, cs) ==
  LET Same(i) == IF cs THEN v.child[i].k = k ELSE Lower(v.child[i].k) = Lower(k)
      all == {i \in DOMAIN v.child : Same(i)}
  IN {v.child[i].v : i \in {i \in all : \A j \in all : i <= j}}

Get(v, k) == CHOOSE e \in get_object_item(v, <<k>>, FALSE) : TRUE

\* Mutated jsonToObject: any boolean is a done record.
JsonIsBool(v) ==
  [isdone |-> Get(v, "isdone").t \in {"true", "false"}, id |-> Saturate(Get(v, "id").n),
   port |-> Saturate(Get(v, "port").n), sent |-> Saturate(Get(v, "sent").n),
   path |-> Get(v, "path").s, ip |-> Get(v, "ip").s]

\* jsonToObject
jsonToObject(v) ==
  [isdone |-> Get(v, "isdone").t = "true", id |-> Saturate(Get(v, "id").n),
   port |-> Saturate(Get(v, "port").n), sent |-> Saturate(Get(v, "sent").n),
   path |-> Get(v, "path").s, ip |-> Get(v, "ip").s]

-----------------------------------------------------------------------------
(* cJSON_Minify *)

RECURSIVE minify_string(_, _)
minify_string(text, i) ==
  CASE At(text, i) = "" -> i
    [] At(text, i) = Q -> i + 1
    [] At(text, i) = B /\ At(text, i + 1) = Q -> minify_string(text, i + 2)
    [] OTHER -> minify_string(text, i + 1)

\* The end of a comment; inside, a line ends at "\n" and the other at "*" "/".
RECURSIVE CommentEnd(_, _, _)
CommentEnd(text, i, line) ==
  CASE At(text, i) = "" -> i
    [] line /\ At(text, i) = "\n" -> i + 1
    [] ~line /\ At(text, i) = "*" /\ At(text, i + 1) = "/" -> i + 2
    [] OTHER -> CommentEnd(text, i + 1, line)

\* Mutated Minify: the body of a string is minified like the rest.
RECURSIVE MinifyStrings(_, _)
MinifyStrings(text, i) ==
  CASE At(text, i) = "" -> <<>>
    [] At(text, i) \in Blanks -> MinifyStrings(text, i + 1)
    [] At(text, i) = "/" -> MinifyStrings(text, CommentEnd(text, i + 2, At(text, i + 1) = "/"))
    [] OTHER -> <<text[i]>> \o MinifyStrings(text, i + 1)

RECURSIVE Minify(_, _)
Minify(text, i) ==
  CASE At(text, i) = "" -> <<>>
    [] At(text, i) \in Blanks -> Minify(text, i + 1)
    [] At(text, i) = "/" /\ At(text, i + 1) \notin {"/", "*"} -> Minify(text, i + 1)
    [] At(text, i) = "/" -> Minify(text, CommentEnd(text, i + 2, At(text, i + 1) = "/"))
    [] At(text, i) = Q ->
         LET end == minify_string(text, i + 1) IN
           SubSeq(text, i, end - 1) \o Minify(text, end)
    [] OTHER -> <<text[i]>> \o Minify(text, i + 1)

-----------------------------------------------------------------------------
(* cJSON_Compare *)

\* The members of the one that the other lacks or has with another value are
\* looked for in both directions.
RECURSIVE Compare(_, _, _)
Compare(a, b, cs) ==
  LET Within(x, y) ==
        \A i \in DOMAIN x.child :
          \E e \in get_object_item(y, x.child[i].k, cs) : Compare(x.child[i].v, e, cs)
  IN /\ a.t = b.t
     /\ CASE a.t = "number" -> a.n = b.n
          [] a.t = "string" -> a.s = b.s
          [] a.t = "array" ->
               /\ Len(a.child) = Len(b.child)
               /\ \A i \in DOMAIN a.child : Compare(a.child[i].v, b.child[i].v, cs)
          [] a.t = "object" -> Within(a, b) /\ Within(b, a)
          [] OTHER -> TRUE

-----------------------------------------------------------------------------
(* The steps *)

Init ==
  /\ \/ value \in Values
     \/ \E r \in Records : value = [t |-> "record", r |-> r]
  /\ step = [op |-> "start"]
  /\ out = "none"

IsValue == step.op = "start" /\ value.t # "record"
Do(s, o) == step.op = "start" /\ step' = s /\ out' = o /\ UNCHANGED value

ParsePrinted == IsValue /\ \E fmt \in BOOLEAN : Do([op |-> "parse"], Parse(Text(value, fmt)))

\* A save that is cut after n symbols, or not cut, and read by the next run.
ReadCut ==
  /\ IsValue /\ value.t = "object"
  /\ LET text == Text(value, TRUE) IN
       \E n \in 1 .. Len(text) :
         Do([op |-> IF n = Len(text) THEN "read" ELSE "cut"],
            Parse(readJsonFromFile(SubSeq(text, 1, n))))

ReadRecord ==
  /\ step.op = "start" /\ value.t = "record"
  /\ Do([op |-> "record"], jsonToObject(Parse(readJsonFromFile(Text(toCjson(value.r), TRUE))).v))

MinifyText ==
  /\ IsValue
  /\ \E fmt \in BOOLEAN, comment \in {<<>>, <<"/", "/", Q, "\n">>, <<"/", "*", B, "*", "/">>} :
       Do([op |-> "minify"], Minify(comment \o Text(value, fmt), 1))

CompareWith ==
  /\ IsValue
  /\ \E other \in Values, cs \in BOOLEAN :
       /\ other.t = value.t
       /\ Do([op |-> "compare", other |-> other, cs |-> cs], Compare(value, other, cs))

Next ==
  \/ ParsePrinted \/ ReadCut \/ ReadRecord
  \/ MinifyText \/ CompareWith

Spec == Init /\ [][Next]_vars

-----------------------------------------------------------------------------
(* Properties *)

NoSpace(s) == SelectSeq(s, LAMBDA c : c # " ")

RECURSIVE Strip(_)
Strip(v) ==
  CASE v.t = "string" -> Char(NoSpace(v.s))
    [] v.t \in {"array", "object"} ->
         [v EXCEPT !.child = [i \in DOMAIN @ |-> Member(NoSpace(@[i].k), Strip(@[i].v))]]
    [] OTHER -> v

\* What is printed, formatted or not, is parsed to the same value, up to the
\* nesting limit: printing has no limit, and what is nested deeper is refused.
RoundTrips ==
  step.op = "parse" =>
    IF Depth(value) <= Limit THEN out.ok /\ out.v = value ELSE ~out.ok

\* From one run to the next a value loses the spaces in its strings and
\* nothing else (line feeds and tabs are written as escapes), and a record keeps
\* its numbers and its flag.
RereadLosesOnlyBlanks ==
  /\ step.op = "read" /\ Depth(value) <= Limit => out.ok /\ out.v = Strip(value)
  /\ step.op = "record" =>
       out = [value.r EXCEPT !.path = NoSpace(@), !.ip = NoSpace(@)]

\* A file that a crash has cut is read as nothing, or, when only the last brace
\* is missing, as all that was in it: never as a part of it.
CutIsNothingOrWhole ==
  step.op = "cut" => ~out.ok \/ out.v = Strip(value)

\* A quote behind an even number of backslashes, the last of which belongs to
\* the string that the quote ends.
EndsInBackslash(v) ==
  LET text == Text(v, FALSE)
      Before(i) == i - 1 - Max({0} \union {j \in 1 .. i - 1 : text[j] # B})
  IN \E i \in DOMAIN text : text[i] = Q /\ Before(i) > 0 /\ Before(i) % 2 = 0

\* Minifying a printed text gives what cJSON_PrintUnformatted prints, unless a
\* string ends in a backslash: minify_string takes \\" for an escaped quote.
MinifyAgrees ==
  step.op = "minify" /\ ~EndsInBackslash(value) => out = Text(value, FALSE)

RECURSIVE Meaning(_, _)
Meaning(v, cs) ==
  CASE v.t = "array" -> <<v.t, [i \in DOMAIN v.child |-> Meaning(v.child[i].v, cs)]>>
    [] v.t = "object" ->
         <<v.t, {<<IF cs THEN v.child[i].k ELSE Lower(v.child[i].k), Meaning(v.child[i].v, cs)>> :
                   i \in DOMAIN v.child}>>
    [] OTHER -> <<v.t, v>>

RECURSIVE Unique(_)
Unique(v) ==
  v.t \in {"array", "object"} =>
    /\ \A i \in DOMAIN v.child : Unique(v.child[i].v)
    /\ v.t = "object" =>
         \A i, j \in DOMAIN v.child :
           i # j => Lower(v.child[i].k) # Lower(v.child[j].k)

\* cJSON_Compare is equality of values in which the order of members does not
\* matter, as long as the names within an object differ by more than case.
CompareIsSameMeaning ==
  step.op = "compare" /\ Unique(value) /\ Unique(step.other) =>
    (out <=> Meaning(value, step.cs) = Meaning(step.other, step.cs))

=============================================================================
