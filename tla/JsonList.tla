------------------------------ MODULE JsonList ------------------------------
(***************************************************************************)
(* The tree of cJSON (source/cJSON.c) in memory: the children of an item   *)
(* are a list linked by next and prev, in which prev of the first is the   *)
(* last.  Calls are made the way cJSON.h asks for: an item that is added   *)
(* is in no list yet.  References and constant names are left out.         *)
(***************************************************************************)
EXTENDS Integers, Sequences, SequencesExt, Functions

CONSTANTS
  Nodes,   \* the memory
  NULL,
  Indices, \* the numbers that items are asked for by; below zero nothing happens
  MaxNew   \* bound: the items of a new array

ASSUME NodesAssumption == IsFiniteSet(Nodes) /\ NULL \notin Nodes
ASSUME BoundsAssumption == Indices \subseteq Nat /\ MaxNew \in Nat

VARIABLES
  live,    \* what is allocated
  heap,    \* the members next, prev and child
  name     \* the member string, "none" for NULL

vars == <<live, heap, name>>

\* The items from x on along next, and NULL behind the last.
Walk(h, x) ==
  LET at[i \in 0 .. Cardinality(Nodes)] ==
        IF i = 0 THEN x ELSE LET y == at[i - 1] IN IF y = NULL THEN NULL ELSE h.next[y]
  IN at
ListOf(h, a) ==
  LET at == Walk(h, h.child[a])
  IN IF h.child[a] = NULL THEN <<>>
     ELSE [i \in 1 .. Cardinality({j \in DOMAIN at : at[j] # NULL}) |-> at[i - 1]]

\* What cJSON_Delete frees: the item, its children, and all that follows.
Freed(h, x) ==
  LET Closed == {S \in SUBSET Nodes :
        /\ x \in S \union {NULL}
        /\ \A y \in S : {h.child[y], h.next[y]} \subseteq S \union {NULL}}
  IN {y \in Nodes : \A S \in Closed : y \in S}
cJSON_Delete(h, x) ==
  LET gone == Freed(h, x)
      Clear(f) == [y \in Nodes |-> IF y \in gone THEN NULL ELSE f[y]]
  IN [live |-> live \ gone, name |-> [y \in Nodes |-> IF y \in gone THEN "none" ELSE name[y]],
      heap |-> [next |-> Clear(h.next), prev |-> Clear(h.prev), child |-> Clear(h.child)]]

\* get_array_item
get_array_item(h, a, which) ==
  LET s == ListOf(h, a) IN IF which + 1 \in DOMAIN s THEN s[which + 1] ELSE NULL

\* get_object_item; with case, a child without a name ends the search.
get_object_item(h, a, k, case_sensitive) ==
  LET s == ListOf(h, a)
      Hit(i) == IF case_sensitive THEN name[s[i]] \in {k, "none"} ELSE name[s[i]] # "none"
      hits == {i \in DOMAIN s : Hit(i)}
      first == CHOOSE i \in hits : \A j \in hits : i <= j
  IN IF hits = {} \/ name[s[first]] = "none" THEN NULL ELSE s[first]

\* add_item_to_array
add_item_to_array(h, a, x) ==
  LET c == h.child[a] IN
    IF c = NULL THEN [h EXCEPT !.child[a] = x, !.prev[x] = x, !.next[x] = NULL]
    ELSE IF h.prev[c] = NULL THEN h
    ELSE [h EXCEPT !.next[h.prev[c]] = x, !.prev[x] = h.prev[c], !.prev[c] = x]

\* Mutated Detach: the last item is taken away without a word to the first.
DetachForgetsTail(h, a, x) ==
  LET h1 == IF x # h.child[a] THEN [h EXCEPT !.next[h.prev[x]] = h.next[x]] ELSE h
      h2 == IF h1.next[x] # NULL THEN [h1 EXCEPT !.prev[h1.next[x]] = h1.prev[x]] ELSE h1
      h3 == IF x = h2.child[a] THEN [h2 EXCEPT !.child[a] = h2.next[x]] ELSE h2
  IN [h3 EXCEPT !.prev[x] = NULL, !.next[x] = NULL]

\* Mutated Detach: the item keeps its pointers.
DetachKeepsLinks(h, a, x) ==
  LET h1 == IF x # h.child[a] THEN [h EXCEPT !.next[h.prev[x]] = h.next[x]] ELSE h
      h2 == IF h1.next[x] # NULL THEN [h1 EXCEPT !.prev[h1.next[x]] = h1.prev[x]] ELSE h1
  IN IF x = h2.child[a] THEN [h2 EXCEPT !.child[a] = h2.next[x]]
     ELSE IF h2.next[x] = NULL THEN [h2 EXCEPT !.prev[h2.child[a]] = h2.prev[x]]
     ELSE h2

\* cJSON_DetachItemViaPointer
Detach(h, a, x) ==
  LET h1 == IF x # h.child[a] THEN [h EXCEPT !.next[h.prev[x]] = h.next[x]] ELSE h
      h2 == IF h1.next[x] # NULL THEN [h1 EXCEPT !.prev[h1.next[x]] = h1.prev[x]] ELSE h1
      h3 == IF x = h2.child[a] THEN [h2 EXCEPT !.child[a] = h2.next[x]]
            ELSE IF h2.next[x] = NULL THEN [h2 EXCEPT !.prev[h2.child[a]] = h2.prev[x]]
            ELSE h2
  IN [h3 EXCEPT !.prev[x] = NULL, !.next[x] = NULL]

\* Mutated Insert: the new item becomes the first wherever it goes.
InsertAsFirst(h, a, which, x) ==
  LET after == get_array_item(h, a, which) IN
    IF after = NULL THEN add_item_to_array(h, a, x)
    ELSE [h EXCEPT !.next[x] = after, !.prev[x] = h.prev[after], !.prev[after] = x, !.child[a] = x]

\* cJSON_InsertItemInArray
Insert(h, a, which, x) ==
  LET after == get_array_item(h, a, which)
      h1 == [h EXCEPT !.next[x] = after, !.prev[x] = h.prev[after], !.prev[after] = x]
  IN IF after = NULL THEN add_item_to_array(h, a, x)
     ELSE IF after = h.child[a] THEN [h1 EXCEPT !.child[a] = x]
     ELSE [h1 EXCEPT !.next[h1.prev[x]] = x]

\* Mutated Relink: the container still points to the first item.
RelinkKeepsChild(h, a, x, r) ==
  LET h1 == [h EXCEPT !.next[r] = h.next[x], !.prev[r] = h.prev[x]]
      h2 == IF h1.next[r] # NULL THEN [h1 EXCEPT !.prev[h1.next[r]] = r] ELSE h1
  IN [(IF h.prev[x] # NULL /\ x # h.child[a] THEN [h2 EXCEPT !.next[h.prev[x]] = r] ELSE h2)
        EXCEPT !.next[x] = NULL, !.prev[x] = NULL]

\* cJSON_ReplaceItemViaPointer, up to the deletion of what is replaced.
Relink(h, a, x, r) ==
  LET h1 == [h EXCEPT !.next[r] = h.next[x], !.prev[r] = h.prev[x]]
      h2 == IF h1.next[r] # NULL THEN [h1 EXCEPT !.prev[h1.next[r]] = r] ELSE h1
      c == h2.child[a]
      h3 == IF c = x
            THEN [h2 EXCEPT !.prev[r] = IF h2.prev[c] = c THEN r ELSE @, !.child[a] = r]
            ELSE LET h4 == IF h2.prev[r] # NULL THEN [h2 EXCEPT !.next[h2.prev[r]] = r] ELSE h2
                 IN IF h4.next[r] = NULL THEN [h4 EXCEPT !.prev[c] = r] ELSE h4
  IN [h3 EXCEPT !.next[x] = NULL, !.prev[x] = NULL]

-----------------------------------------------------------------------------

Roots == live \ UNION {ToSet(ListOf(heap, a)) : a \in live}
Tree(x) == {x} \union Freed(heap, heap.child[x])

Nothing == [x \in Nodes |-> NULL]

Init ==
  /\ live = {}
  /\ heap = [next |-> Nothing, prev |-> Nothing, child |-> Nothing]
  /\ name = [x \in Nodes |-> "none"]

\* cJSON_CreateObject and the others that make one item.
CreateItem == \E x \in Nodes \ live : live' = live \union {x} /\ UNCHANGED <<heap, name>>

\* cJSON_CreateIntArray and the others that make an array with its items.
CreateFilled ==
  \E x \in Nodes \ live : \E s \in BoundedSeq(Nodes \ (live \union {x}), MaxNew) \ {<<>>} :
    /\ IsInjective(s)
    /\ live' = live \union {x} \union ToSet(s)
    /\ LET At(y) == CHOOSE i \in DOMAIN s : s[i] = y
           Next(y) == IF At(y) < Len(s) THEN s[At(y) + 1] ELSE NULL
           Prev(y) == IF At(y) = 1 THEN Last(s) ELSE s[At(y) - 1]
       IN heap' = [child |-> [heap.child EXCEPT ![x] = s[1]],
                   next |-> [y \in Nodes |-> IF y \in ToSet(s) THEN Next(y) ELSE heap.next[y]],
                   prev |-> [y \in Nodes |-> IF y \in ToSet(s) THEN Prev(y) ELSE heap.prev[y]]]
    /\ UNCHANGED name

\* cJSON_AddItemToArray and cJSON_AddItemToObject
Add ==
  \E x \in Roots : \E a \in live \ Tree(x) :
    /\ heap' = add_item_to_array(heap, a, x)
    /\ \E k \in {"k", "K", name[x]} : name' = [name EXCEPT ![x] = k]
    /\ UNCHANGED live

\* cJSON_AddNullToObject and the others that add a new item.
AddNew ==
  \E a \in live, x \in Nodes \ live, k \in {"k", "K"} :
    /\ live' = live \union {x}
    /\ name' = [name EXCEPT ![x] = k]
    /\ heap' = add_item_to_array(heap, a, x)

InsertItem ==
  \E x \in Roots : \E a \in live \ Tree(x), which \in Indices :
    /\ heap' = Insert(heap, a, which, x)
    /\ UNCHANGED <<live, name>>

\* What the calls by number and by name can find in a.
Targets(a) ==
  {get_array_item(heap, a, which) : which \in Indices}
  \union {get_object_item(heap, a, k, cs) : k \in {"k", "K"}, cs \in BOOLEAN}

DetachItem ==
  \E a \in live : \E x \in Targets(a) \ {NULL} :
    heap' = Detach(heap, a, x) /\ UNCHANGED <<live, name>>

Became(d) == live' = d.live /\ heap' = d.heap /\ name' = d.name

\* cJSON_Delete, cJSON_DeleteItemFromArray and cJSON_DeleteItemFromObject
Delete ==
  \/ \E x \in Roots : Became(cJSON_Delete(heap, x))
  \/ \E a \in live : \E x \in Targets(a) \ {NULL} :
       Became(cJSON_Delete(Detach(heap, a, x), x))

\* cJSON_ReplaceItemInArray
ReplaceInArray ==
  \E r \in Roots : \E a \in live \ Tree(r), which \in Indices :
    LET x == get_array_item(heap, a, which) IN
      /\ x # NULL
      /\ Became(cJSON_Delete(Relink(heap, a, x, r), x))

\* replace_item_in_object: the name changes, whether something is found or not.
ReplaceInObject ==
  \E r \in Roots : \E a \in live \ Tree(r), k \in {"k", "K"}, cs \in BOOLEAN :
    LET x == get_object_item(heap, a, k, cs)
        d == cJSON_Delete(Relink(heap, a, x, r), x)
    IN IF x = NULL THEN name' = [name EXCEPT ![r] = k] /\ UNCHANGED <<live, heap>>
                   ELSE Became([d EXCEPT !.name[r] = k])

\* What a copy has: f gives the new item for each old one.  The children are
\* linked one after the other, and the first gets the last as its prev.
CopyTo(x, recurse, old, f) ==
  LET Old(n) == CHOOSE y \in old : f[y] = n
      New(y) == IF y = NULL THEN NULL ELSE f[y]
      Parent(y) == CHOOSE p \in old : Contains(ListOf(heap, p), y)
      Place(s, y) == CHOOSE i \in DOMAIN s : s[i] = y
      Before(s, i) == IF i = 1 THEN Last(s) ELSE s[i - 1]
      Sibling(y) == LET s == ListOf(heap, Parent(y)) IN Before(s, Place(s, y))
      Child(y) == IF recurse THEN New(heap.child[y]) ELSE NULL
      Next(y) == IF y = x THEN NULL ELSE New(heap.next[y])
      Prev(y) == IF y = x THEN NULL ELSE f[Sibling(y)]
  IN /\ live' = live \union Range(f)
     /\ name' = [n \in Nodes |-> IF n \in Range(f) THEN name[Old(n)] ELSE name[n]]
     /\ heap' =
          [child |-> [n \in Nodes |-> IF n \in Range(f) THEN Child(Old(n)) ELSE heap.child[n]],
           next |-> [n \in Nodes |-> IF n \in Range(f) THEN Next(Old(n)) ELSE heap.next[n]],
           prev |-> [n \in Nodes |-> IF n \in Range(f) THEN Prev(Old(n)) ELSE heap.prev[n]]]

\* cJSON_Duplicate.  When memory runs out the part made so far is deleted
\* again: nothing changes.
Duplicate ==
  \E x \in live, recurse \in BOOLEAN :
    LET old == IF recurse THEN Tree(x) ELSE {x} IN
      \E f \in Injection(old, Nodes \ live) : CopyTo(x, recurse, old, f)

Next ==
  \/ CreateItem \/ CreateFilled \/ Add \/ AddNew \/ InsertItem
  \/ DetachItem \/ Delete \/ ReplaceInArray \/ ReplaceInObject \/ Duplicate

Spec == Init /\ [][Next]_vars

-----------------------------------------------------------------------------
(* Properties *)

\* In every list prev leads back to the item before, and from the first to the
\* last, which is what add_item_to_array finds the end by.
WellLinked ==
  \A a \in live :
    LET s == ListOf(heap, a) IN
      \A i \in DOMAIN s : heap.prev[s[i]] = IF i = 1 THEN Last(s) ELSE s[i - 1]

\* No item is in two lists or twice in one, lists end, and nothing that is
\* allocated points to what was freed: no call can free an item twice.
EachItemOnce ==
  /\ \A a, b \in live :
       LET s == ListOf(heap, a) t == ListOf(heap, b) IN
         \A i \in DOMAIN s, j \in DOMAIN t : s[i] = t[j] => a = b /\ i = j
  /\ \A x \in live :
       {heap.next[x], heap.prev[x], heap.child[x]} \subseteq live \union {NULL}

\* An item outside of every list points nowhere ("make sure the detached item
\* doesn't point anywhere anymore"), so that deleting it deletes nothing else.
DetachedPointsNowhere ==
  \A x \in Roots : heap.next[x] = NULL /\ heap.prev[x] = NULL

Children == [a \in Nodes |-> ListOf(heap, a)]
Lists == INSTANCE ItemLists WITH items <- Children

\* Every call does to the linked list what ItemLists says of the sequence.
Refines == Lists!Spec

=============================================================================
