------------------------------- MODULE MCJson -------------------------------
(* The values for model checking JsonStore: strings with every character      *)
(* that a text treats in its own way, empty, short and nested containers,     *)
(* names that differ by case or not at all, and the edges of the numbers.     *)
EXTENDS JsonStore

MCNumbers == -5 .. 5

Strings == {<<>>, <<"a">>, <<"a", " ">>, <<" ", "a">>, <<Q>>, <<B>>, <<B, B>>, <<B, Q>>,
            <<Q, B>>, <<B, "a">>, <<"\n">>, <<"\t", " ", "\r">>, <<"a", "\n", B>>}
Plain == {[t |-> "null"], [t |-> "true"], Num(5), Char(<<"a", " ", B>>), Char(<<Q, " ">>), Char(<<"\t">>)}
Leaves == {[t |-> "null"], [t |-> "true"], [t |-> "false"]}
          \union {Num(n) : n \in MCNumbers} \union {Char(s) : s \in Strings}
Array(s) == [t |-> "array", child |-> [i \in DOMAIN s |-> Member(<<>>, s[i])]]
Object(s) == [t |-> "object", child |-> s]
Members == {Member(k, v) : k \in {<<"k">>, <<"K">>, <<"a", " ", B>>}, v \in {Num(0), Char(<<Q, " ", "\n">>)}}

Flat == {Array(s) : s \in BoundedSeq(Plain, 2)}
        \union {Object(s) : s \in BoundedSeq(Members, 2)}
Few == {Array(<<>>), Array(<<Num(1), [t |-> "null"]>>), Object(<<>>),
        Object(<<Member(<<"k">>, Char(<<" ", B>>))>>)}
Nested == {Array(<<a, b>>) : a, b \in Few}
          \union {Object(<<Member(<<"k">>, a), Member(<<"b">>, b)>>) : a, b \in Few}
Deep == {Array(<<a, Num(1)>>) : a \in Nested} \union {Object(<<Member(<<"k">>, a)>>) : a \in Nested}

MCValues == Leaves \union Flat \union Nested \union Deep

MCRecords == [id : {-5, 0, 4}, isdone : BOOLEAN, sent : {0, 3}, port : {1},
              path : {<<"a">>, <<"a", " ", B>>, <<Q>>, <<"\f", " ">>}, ip : {<<"a">>}]

=============================================================================
