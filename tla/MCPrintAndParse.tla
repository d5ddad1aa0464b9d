-------------------------- MODULE MCPrintAndParse ---------------------------
(* Trees and texts for model checking the printer and the parser: values with *)
(* what is printed in its own way, trees that only a program can build; every *)
(* short text of the bytes that the parser treats in their own way, strings    *)
(* of every short row of escapes, and pairs of code units at the edges of      *)
(* their ranges.  The address of an item is the way to it: the numbers of the  *)
(* children.                                                                   *)
EXTENDS PrintAndParse, TLC, SequencesExt

T == INSTANCE JsonText WITH Numbers <- -1 .. 1

-----------------------------------------------------------------------------
(* The symbols of JsonText in bytes *)

Ascii == (32 :> " ") @@ (9 :> "\t") @@ (10 :> "\n") @@ (12 :> "\f") @@ (13 :> "\r") @@ (34 :> "\"")
         @@ (44 :> ",") @@ (58 :> ":")
         @@ (91 :> "[") @@ (92 :> "\\") @@ (93 :> "]") @@ (123 :> "{") @@ (125 :> "}")
         @@ (97 :> "a") @@ (98 :> "b") @@ (110 :> "n") @@ (117 :> "u") @@ (48 :> "0") @@ (49 :> "1")
         @@ (101 :> "e") @@ (102 :> "f") @@ (108 :> "l") @@ (114 :> "r") @@ (115 :> "s") @@ (116 :> "t")

\* The bytes of the symbols of a text, of a string, or of a name.
Bytes(s) ==
  CASE s \in DOMAIN Literals -> Literals[s]
    [] s = "-1" -> <<45, 49>>
    [] OTHER -> <<CHOOSE b \in DOMAIN Ascii : Ascii[b] = s>>
AllBytes(ss) == FlattenSeq([i \in DOMAIN ss |-> Bytes(ss[i])])

-----------------------------------------------------------------------------
(* Trees, each with the value of JsonText that it stands for *)

None == [t |-> "none"]
Item(type, valuestring, number) ==
  [type |-> type, child |-> NULL, next |-> NULL, string |-> NULL,
   valuestring |-> valuestring, number |-> number]
Leaf(v, i) == [root |-> <<>>, value |-> v, item |-> <<>> :> i]

Literal(t) == Leaf([t |-> t], Item(t, NULL, <<>>))
Str(s) == Leaf([t |-> "string", s |-> s], Item("string", AllBytes(s), <<>>))
Number(n) == Leaf([t |-> "number", n |-> n], Item("number", NULL, Bytes(ToString(n))))

\* A container of trees, with their names.
Container(type, members) ==
  LET n == Len(members)
      Under(i, place) == IF place = NULL THEN NULL ELSE <<i>> \o place
      head == [Item(type, NULL, <<>>) EXCEPT !.child = IF n = 0 THEN NULL ELSE <<1>>]
      Inner(i, e) == [e EXCEPT !.child = Under(i, @), !.next = Under(i, @)]
      Outer(i, e) == [e EXCEPT !.child = Under(i, @), !.next = IF i < n THEN <<i + 1>> ELSE NULL,
                               !.string = IF type = "object" THEN AllBytes(members[i].k) ELSE NULL]
      places == UNION {{<<i>> \o p : p \in DOMAIN members[i].v.item} : i \in 1 .. n}
  IN [root |-> <<>>,
      value |-> [t |-> type, child |-> [i \in 1 .. n |-> [k |-> members[i].k, v |-> members[i].v.value]]],
      item |-> (<<>> :> head) @@
               [p \in places |-> LET e == members[p[1]].v.item[Tail(p)] IN
                  IF Len(p) = 1 THEN Outer(p[1], e) ELSE Inner(p[1], e)]]
Array(trees) == Container("array", [i \in DOMAIN trees |-> [k |-> <<>>, v |-> trees[i]]])
Member(k, v) == [k |-> k, v |-> v]
Object(members) == Container("object", members)

Few == << Literal("null"), Number(-1), Str(<<"a">>), Str(<<"\n", "a", "\"">>), Array(<<>>), Object(<<>>) >>
Names == << <<>>, <<"a">>, <<"\r">> >>
Deep(t) == Array(<< Array(<< t, Object(<< Member(<<"a">>, Object(<< Member(<<"b">>, t) >>)) >>) >>) >>)
Values ==
  << Literal("false"), Str(<<>>), Str(<<"\\", "\t", "a", "\f">>) >>
  \o [i \in 1 .. 36 |-> Array(<< Few[1 + (i % 6)], Few[1 + ((i - 1) \div 6)] >>)]
  \o [i \in 1 .. 18 |-> Object(<< Member(Names[1 + (i % 3)], Few[1 + ((i - 1) \div 3)]) >>)]
  \o [i \in 1 .. 6 |-> Object(<< Member(<<"a">>, Literal("true")), Member(<<"b">>, Few[i]) >>)]
  \o [i \in 1 .. 6 |-> Deep(Few[i])]

\* An object around an item that no text is parsed to.
Around(i) == [root |-> <<>>, value |-> None,
              item |-> (<<1>> :> i) @@ (<<>> :> [Item("object", NULL, <<>>) EXCEPT !.child = <<1>>])]
Odd == << Around(Item("raw", NULL, <<>>)), Around(Item("raw", <<48, 48>>, <<>>)),
          Around(Item("invalid", NULL, <<>>)), Around(Item("string", NULL, <<>>)),
          Around(Item("string", <<1, 34, 31, 8>>, <<>>)), Around(Item("string", <<200, 127>>, <<>>)),
          Around(Item("number", NULL, [i \in 1 .. 26 |-> 49])) >>

MCTrees == Values \o Odd
MCSizes == 0 .. 34

-----------------------------------------------------------------------------
(* Texts *)

MCNumberTexts == {<<d>> : d \in 48 .. 57} \union {<<45, d>> : d \in 48 .. 57}

\* [ ] { } , : quote a 0 and a blank
Marks == {91, 93, 123, 125, 44, 58, 34, 97, 48, 32}
Ended(s) == s \o <<0>>
Short == {Ended(s) : s \in BoundedSeq(Marks, 4)}

\* Longer ones: an array and an object, with what goes wrong in them.
Nested == {Ended(<<91>> \o a \o <<44, 32>> \o b \o <<93>>) : a, b \in
             {<<91, 93>>, <<91, 91, 91, 48, 93, 93, 93>>, <<123, 125>>, <<110, 117, 108, 108>>,
              <<48>>, <<34, 97, 34>>, <<>>}}
          \union
          {Ended(<<123, 34, 97, 34>> \o a \o b \o c) : a \in {<<58>>, <<32, 58, 32>>, <<>>}, b \in
             {<<91, 48, 93>>, <<123, 34, 34, 58, 48, 125>>, <<116, 114, 117, 101>>, <<45, 49>>, <<110, 117>>},
             c \in {<<125>>, <<44, 34, 98, 34, 58, 48, 125>>, <<44>>, <<44, 10>>, <<93>>, <<>>}}

\* A string of backslashes, quotes, u, n, 0 and a.
Strings == {Ended(<<34>> \o s \o <<34, 44>>) : s \in BoundedSeq({92, 34, 117, 110}, 5)}
           \union {Ended(<<34, 92, 117>> \o s \o <<34>>) : s \in BoundedSeq({48, 92, 34, 117}, 5)}

\* 0041 00g1 0000 007F 0080 07ff 0800 D7FF D800 DBFF DC00 DFFF E000 FFFF
Units == {<<48, 48, 52, 49>>, <<48, 48, 103, 49>>, <<48, 48, 48, 48>>, <<48, 48, 55, 70>>, <<48, 48, 56, 48>>,
          <<48, 55, 102, 102>>, <<48, 56, 48, 48>>, <<68, 55, 70, 70>>, <<68, 56, 48, 48>>,
          <<68, 66, 70, 70>>, <<68, 67, 48, 48>>, <<68, 70, 70, 70>>, <<69, 48, 48, 48>>, <<70, 70, 70, 70>>}
Escapes == {Ended(<<34, 92, 117>> \o u \o <<92, 117>> \o w \o <<34>>) : u, w \in Units}
           \union {Ended(<<34, 92, 117>> \o u \o s \o <<34>>) : u \in Units, s \in BoundedSeq({97, 92, 117}, 2)}

MCTexts == Short \union Nested \union Strings \union Escapes

-----------------------------------------------------------------------------
(* The same text in the symbols of JsonText *)

RECURSIVE Symbols(_, _)
Symbols(t, i) ==
  LET words == {w \in DOMAIN Literals :
                  /\ i + Len(Literals[w]) <= Len(t)
                  /\ SubSeq(t, i, i + Len(Literals[w]) - 1) = Literals[w]}
      word == CHOOSE w \in words : TRUE
  IN IF i >= Len(t) THEN <<>>
     ELSE IF words # {} THEN <<word>> \o Symbols(t, i + Len(Literals[word]))
     ELSE IF t[i] = 45 THEN <<"-" \o Ascii[t[i + 1]]>> \o Symbols(t, i + 2)
     ELSE <<Ascii[t[i]]>> \o Symbols(t, i + 1)

RECURSIVE InBytes(_)
InBytes(v) ==
  CASE v.t = "number" -> [t |-> v.t, n |-> Bytes(ToString(v.n))]
    [] v.t = "string" -> [t |-> v.t, s |-> AllBytes(v.s)]
    [] v.t \in {"array", "object"} ->
         [t |-> v.t, child |-> [i \in DOMAIN v.child |->
                                 [k |-> AllBytes(v.child[i].k), v |-> InBytes(v.child[i].v)]]]
    [] OTHER -> v

\* The texts that JsonText can tell: no digits side by side, which are one
\* numeral, and no escape by a code unit.
Symbolic(t) ==
  /\ \A i \in 1 .. Len(t) - 1 : t[i] \in DOMAIN Ascii \union {45}
  /\ \A i \in 1 .. Len(t) - 2 : ~(t[i] \in 48 .. 57 /\ t[i + 1] \in 48 .. 57) /\ ~(t[i] = 92 /\ t[i + 1] = 117)

\* The printer makes the text that JsonText gives, and the parser accepts the
\* texts that Parse of JsonText accepts, with the same value, and stops at the
\* same place.
AgreesWithJsonText ==
  /\ printing = "done" /\ Trees[tree].value # None =>
       buffer = AllBytes(T!Text(Trees[tree].value, format))
  /\ pc \in {"done", "failed"} /\ Symbolic(text) =>
       LET symbols == Symbols(text, 1)
           parsed == T!Parse(symbols)
       IN /\ pc = "done" <=> parsed.ok
          /\ parsed.ok => /\ built[1].child[1].v = InBytes(parsed.v)
                          /\ offset = Len(AllBytes(SubSeq(symbols, 1, parsed.at - 1)))

=============================================================================
