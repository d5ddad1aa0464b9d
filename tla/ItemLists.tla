----------------------------- MODULE ItemLists ------------------------------
(***************************************************************************)
(* What the lists of cJSON promise: every item has a sequence of items,    *)
(* and every call changes one of them.                                     *)
(***************************************************************************)
EXTENDS Integers, Sequences, SequencesExt, Functions

CONSTANTS
  Nodes,
  MaxNew   \* bound: the children of a new item

VARIABLES
  live,    \* the items that exist
  items,   \* each item to the sequence of its children
  name     \* each item to its name, or "none"

vars == <<live, items, name>>

\* An item and all below it: the least set that has the children of its items.
Within(x) ==
  LET pairs == UNION {{y} \X ToSet(items[y]) : y \in live}
      Closed == {S \in SUBSET live : x \in S /\ \A e \in pairs : e[1] \in S => e[2] \in S}
  IN {y \in live : \A S \in Closed : y \in S}
Roots == live \ UNION {ToSet(items[y]) : y \in live}

Init ==
  /\ live = {}
  /\ items = [x \in Nodes |-> <<>>]
  /\ name = [x \in Nodes |-> "none"]

\* A new item with some new children.
Create ==
  \E x \in Nodes \ live : \E s \in BoundedSeq(Nodes \ (live \union {x}), MaxNew) :
    /\ IsInjective(s)
    /\ live' = live \union {x} \union ToSet(s)
    /\ items' = [items EXCEPT ![x] = s]
    /\ UNCHANGED name

\* A root, which gets a name or keeps its own, goes to a place of a sequence.
Put ==
  /\ UNCHANGED live
  /\ \E x \in Roots : \E a \in live \ Within(x) :
       /\ \E k \in {"k", "K", name[x]} : name' = [name EXCEPT ![x] = k]
       /\ \E i \in 1 .. Len(items[a]) + 1 : items' = [items EXCEPT ![a] = InsertAt(@, i, x)]

\* A new item with a name goes to the end of a sequence.
PutNew ==
  \E a \in live, x \in Nodes \ live, k \in {"k", "K"} :
    /\ live' = live \union {x}
    /\ name' = [name EXCEPT ![x] = k]
    /\ items' = [items EXCEPT ![a] = Append(@, x)]

Take ==
  /\ UNCHANGED <<live, name>>
  /\ \E a \in live : \E i \in DOMAIN items[a] : items' = [items EXCEPT ![a] = RemoveAt(@, i)]

\* Items and all below them cease to be.
Drop(gone, it) ==
  /\ live' = live \ gone
  /\ items' = [x \in Nodes |-> IF x \in gone THEN <<>> ELSE it[x]]

DeleteRoot ==
  \E x \in Roots :
    /\ Drop(Within(x), items)
    /\ name' = [y \in Nodes |-> IF y \in Within(x) THEN "none" ELSE name[y]]

DeleteChild ==
  \E a \in live : \E i \in DOMAIN items[a] :
    LET gone == Within(items[a][i]) IN
      /\ Drop(gone, [items EXCEPT ![a] = RemoveAt(@, i)])
      /\ name' = [y \in Nodes |-> IF y \in gone THEN "none" ELSE name[y]]

\* A root takes the place of an item, which is deleted.
Replace ==
  \E x \in Roots : \E a \in live \ Within(x) : \E i \in DOMAIN items[a] :
    LET gone == Within(items[a][i]) IN
      /\ Drop(gone, [items EXCEPT ![a] = ReplaceAt(@, i, x)])
      /\ \E k \in {"k", "K", name[x]} :
           name' = [y \in Nodes |-> IF y \in gone THEN "none" ELSE IF y = x THEN k ELSE name[y]]

\* A replacement that found nothing to replace has its new name all the same.
Rename ==
  /\ UNCHANGED <<live, items>>
  /\ \E x \in Roots, k \in {"k", "K"} : name' = [name EXCEPT ![x] = k]

\* A copy, of the item alone or with all below it.
Copy ==
  \E x \in live, deep \in BOOLEAN :
    LET old == IF deep THEN Within(x) ELSE {x} IN
      \E f \in Injection(old, Nodes \ live) :
        LET Old(n) == CHOOSE y \in old : f[y] = n IN
        /\ live' = live \union Range(f)
        /\ items' = [n \in Nodes |->
             IF n \notin Range(f) THEN items[n]
             ELSE IF deep THEN [i \in DOMAIN items[Old(n)] |-> f[items[Old(n)][i]]] ELSE <<>>]
        /\ name' = [n \in Nodes |-> IF n \in Range(f) THEN name[Old(n)] ELSE name[n]]

Next == Create \/ Put \/ PutNew \/ Take \/ DeleteRoot \/ DeleteChild \/ Replace \/ Rename \/ Copy

Spec == Init /\ [][Next]_vars

=============================================================================
