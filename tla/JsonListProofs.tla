----------------------------- MODULE JsonListProofs -----------------------------
(***************************************************************************)
(* Proofs about JsonList, for any memory: the pointers are those of a      *)
(* forest of lists after every sequence of calls, nothing is freed twice,  *)
(* and every call does what ItemLists says of the sequences.               *)
(***************************************************************************)
EXTENDS JsonList, FiniteSetTheorems, SequenceTheorems, WellFoundedInduction,
        NaturalsInduction, TLAPS

USE NodesAssumption

\* What the members next, prev and child can be.
Pointers == [Nodes -> Nodes \cup {NULL}]
Heaps == [next : Pointers, prev : Pointers, child : Pointers]

\* The pointers are those of the list s under a.
Linked(h, a, s) ==
  /\ h.child[a] = IF s = <<>> THEN NULL ELSE s[1]
  /\ \A i \in DOMAIN s :
       /\ h.next[s[i]] = IF i = Len(s) THEN NULL ELSE s[i + 1]
       /\ h.prev[s[i]] = IF i = 1 THEN s[Len(s)] ELSE s[i - 1]

\* Each item has one place in the lists of L.
Apart(L) ==
  \A a, b \in Nodes : \A i \in DOMAIN L[a], j \in DOMAIN L[b] :
    L[a][i] = L[b][j] => a = b /\ i = j

\* An item is in a list, or has no neighbours.
Listed(L, x) == \E a \in Nodes : \E i \in DOMAIN L[a] : L[a][i] = x
Loose(h, x) == h.next[x] = NULL /\ h.prev[x] = NULL

\* The heap has the lists of L and nothing else.
Shape(h, L) ==
  /\ h \in Heaps /\ L \in [Nodes -> Seq(Nodes)]
  /\ \A a \in Nodes : Linked(h, a, L[a])
  /\ Apart(L)
  /\ \A x \in Nodes : Listed(L, x) \/ Loose(h, x)

-----------------------------------------------------------------------------
(* Reading a list *)

\* A nonempty set of naturals has a least member.
LEMMA LeastNumber ==
  ASSUME NEW S \in SUBSET Nat, S # {}
  PROVE  \E m \in S : \A l \in S : m <= l
<1>1. PICK m \in S : \A l \in S : ~(<<l, m>> \in OpToRel(<, Nat))
  BY NatLessThanWellFounded, WFMin
<1>2. \A l \in S : m <= l
  <2> SUFFICES ASSUME NEW l \in S PROVE m <= l
    OBVIOUS
  <2>1. l \in Nat /\ m \in Nat
    OBVIOUS
  <2>2. ~(l < m)
    BY <1>1, <2>1 DEF OpToRel
  <2> QED
    BY <2>1, <2>2
<1> QED
  BY <1>2

\* A list is not longer than the memory.
LEMMA ListFits ==
  ASSUME NEW h, NEW L, Shape(h, L), NEW a \in Nodes
  PROVE  Len(L[a]) \in 0 .. Cardinality(Nodes) /\ Cardinality(Nodes) \in Nat
<1> DEFINE s == L[a]
<1>1. s \in Seq(Nodes)
  BY DEF Shape
<1>2. Len(s) \in Nat /\ s \in [1 .. Len(s) -> Nodes] /\ DOMAIN s = 1 .. Len(s)
  BY <1>1, LenProperties
<1>3. IsInjective(s)
  BY DEF IsInjective, Shape, Apart
<1>4. s \in Injection(1 .. Len(s), Nodes)
  BY <1>2, <1>3 DEF Injection
<1> HIDE DEF s
<1>5. Cardinality(1 .. Len(s)) <= Cardinality(Nodes)
  BY <1>4, FS_Injection
<1>6. Cardinality(1 .. Len(s)) = Len(s)
  BY <1>2, FS_Interval
<1>7. Cardinality(Nodes) \in Nat
  BY FS_CardinalityType
<1> QED
  BY <1>2, <1>5, <1>6, <1>7 DEF s

\* What the walk along next passes.
LEMMA WalkIs ==
  ASSUME NEW h, NEW L, Shape(h, L), NEW a \in Nodes
  PROVE  /\ DOMAIN Walk(h, h.child[a]) = 0 .. Cardinality(Nodes)
         /\ \A i \in 0 .. Cardinality(Nodes) :
              Walk(h, h.child[a])[i] = IF i < Len(L[a]) THEN L[a][i + 1] ELSE NULL
<1> DEFINE s == L[a]
           N == Cardinality(Nodes)
           x == h.child[a]
           Step(f) == [i \in 0 .. N |->
             IF i = 0 THEN x ELSE LET y == f[i - 1] IN IF y = NULL THEN NULL ELSE h.next[y]]
           g == [i \in 0 .. N |-> IF i < Len(s) THEN s[i + 1] ELSE NULL]
           w == CHOOSE f : f = Step(f)
<1>1. s \in Seq(Nodes) /\ Linked(h, a, s) /\ N \in Nat /\ Len(s) \in Nat
  BY ListFits DEF Shape
<1>2. DOMAIN s = 1 .. Len(s) /\ \A i \in 1 .. Len(s) : s[i] \in Nodes
  BY <1>1
<1>3. g = Step(g)
  <2> SUFFICES ASSUME NEW i \in 0 .. N PROVE g[i] = Step(g)[i]
    OBVIOUS
  <2>1. CASE i = 0
    BY <1>1, <1>2, <2>1 DEF Linked
  <2>2. CASE i > 0 /\ i - 1 < Len(s)
    <3>1. g[i - 1] = s[i] /\ s[i] # NULL /\ i \in DOMAIN s
      BY <1>1, <1>2, <2>2
    <3>2. h.next[s[i]] = IF i = Len(s) THEN NULL ELSE s[i + 1]
      BY <1>1, <3>1 DEF Linked
    <3> QED
      BY <1>1, <2>2, <3>1, <3>2
  <2>3. CASE i > 0 /\ ~(i - 1 < Len(s))
    BY <1>1, <2>3
  <2> QED
    BY <2>1, <2>2, <2>3
<1>4. w = Step(w)
  <2> HIDE DEF Step, g
  <2> QED
    BY <1>3
<1>5. Walk(h, x) = w
  BY DEF Walk
<1>6. \A i \in 0 .. N : w[i] = g[i]
  <2> DEFINE D == {i \in 0 .. N : w[i] # g[i]}
  <2> SUFFICES ASSUME D # {} PROVE FALSE
    OBVIOUS
  <2>0. D \in SUBSET Nat
    BY <1>1
  <2>1. PICK m \in D : \A l \in D : m <= l
    <3> HIDE DEF D
    <3> QED
      BY <2>0, LeastNumber
  <2>2. m \in 0 .. N /\ w[m] # g[m]
    OBVIOUS
  <2> HIDE DEF w, g
  <2>3. w[m] = IF m = 0 THEN x ELSE LET y == w[m - 1] IN IF y = NULL THEN NULL ELSE h.next[y]
    BY <1>4, <2>2
  <2>4. g[m] = IF m = 0 THEN x ELSE LET y == g[m - 1] IN IF y = NULL THEN NULL ELSE h.next[y]
    BY <1>3, <2>2
  <2>5. m # 0
    BY <2>2, <2>3, <2>4
  <2>6. m - 1 \in 0 .. N /\ m - 1 < m
    BY <1>1, <2>2, <2>5
  <2>7. w[m - 1] = g[m - 1]
    BY <2>1, <2>6
  <2> QED
    BY <2>2, <2>3, <2>4, <2>7
<1>7. DOMAIN w = 0 .. N
  <2> HIDE DEF w
  <2> QED
    BY <1>4
<1> HIDE DEF w
<1> QED
  BY <1>5, <1>6, <1>7

\* The heap determines the lists.
LEMMA ListIs ==
  ASSUME NEW h, NEW L, Shape(h, L), NEW a \in Nodes
  PROVE  ListOf(h, a) = L[a]
<1> DEFINE s == L[a]
           N == Cardinality(Nodes)
           at == Walk(h, h.child[a])
<1>1. s \in Seq(Nodes) /\ Linked(h, a, s) /\ N \in Nat /\ Len(s) \in 0 .. N
  BY ListFits DEF Shape
<1>2. DOMAIN s = 1 .. Len(s) /\ \A i \in 1 .. Len(s) : s[i] \in Nodes
  BY <1>1
<1>3. \A i \in 0 .. N : at[i] = IF i < Len(s) THEN s[i + 1] ELSE NULL
  BY WalkIs
<1>4. DOMAIN at = 0 .. N
  BY WalkIs
<1> HIDE DEF at
<1>5. CASE s = <<>>
  BY <1>1, <1>5 DEF ListOf, Linked
<1>6. CASE s # <<>>
  <2>1. Len(s) \in 1 .. N
    BY <1>1, <1>6
  <2>2. {j \in DOMAIN at : at[j] # NULL} = 0 .. Len(s) - 1
    BY <1>1, <1>2, <1>3, <1>4, <2>1
  <2>3. Cardinality(0 .. Len(s) - 1) = Len(s)
    BY <2>1, FS_Interval
  <2>4. h.child[a] # NULL
    BY <1>1, <1>2, <1>6, <2>1 DEF Linked
  <2>5. ListOf(h, a) = [i \in 1 .. Len(s) |-> at[i - 1]]
    BY <2>2, <2>3, <2>4 DEF ListOf, at
  <2>6. \A i \in 1 .. Len(s) : at[i - 1] = s[i]
    BY <1>1, <1>3, <2>1
  <2> HIDE DEF s, N
  <2>7. ListOf(h, a) = [i \in 1 .. Len(s) |-> s[i]]
    BY <2>5, <2>6
  <2>8. s = [i \in 1 .. Len(s) |-> s[i]]
    BY <1>1, LenProperties
  <2> QED
    BY <2>7, <2>8 DEF s
<1> QED
  BY <1>5, <1>6

-----------------------------------------------------------------------------
(* Changing one list *)

\* A sequence with an item more at its end.
LEMMA AppendIs ==
  ASSUME NEW s \in Seq(Nodes), NEW x \in Nodes
  PROVE  /\ Append(s, x) \in Seq(Nodes) /\ Len(Append(s, x)) = Len(s) + 1
         /\ DOMAIN Append(s, x) = 1 .. Len(s) + 1
         /\ \A i \in 1 .. Len(s) + 1 : Append(s, x)[i] = IF i <= Len(s) THEN s[i] ELSE x
OBVIOUS

\* A sequence with an item more at a place.
LEMMA InsertIs ==
  ASSUME NEW s \in Seq(Nodes), NEW x \in Nodes, NEW k \in 1 .. Len(s) + 1
  PROVE  /\ InsertAt(s, k, x) \in Seq(Nodes)
         /\ Len(InsertAt(s, k, x)) = Len(s) + 1
         /\ DOMAIN InsertAt(s, k, x) = 1 .. Len(s) + 1
         /\ \A i \in 1 .. Len(s) + 1 :
              InsertAt(s, k, x)[i] = IF i < k THEN s[i] ELSE IF i = k THEN x ELSE s[i - 1]
<1> DEFINE n == Len(s)
           u == SubSeq(s, 1, k - 1)
           v == SubSeq(s, k, n)
<1>1. n \in Nat /\ k \in Int /\ DOMAIN s = 1 .. n /\ \A i \in 1 .. n : s[i] \in Nodes
  BY LenProperties, ElementOfSeq
<1>2. /\ u \in Seq(Nodes) /\ Len(u) = k - 1
      /\ \A i \in 1 .. k - 1 : u[i] = s[i]
  <2>1. \A i \in 1 .. k - 1 : s[i] \in Nodes
    BY <1>1
  <2>2. k - 1 \in Int /\ k - 1 >= 0 /\ \A i \in 1 .. k - 1 - 1 + 1 : 1 + i - 1 = i /\ i \in 1 .. k - 1
    BY <1>1
  <2>3. /\ u \in Seq(Nodes) /\ Len(u) = IF 1 <= k - 1 THEN k - 1 - 1 + 1 ELSE 0
        /\ \A i \in 1 .. k - 1 - 1 + 1 : u[i] = s[1 + i - 1]
    BY <2>1, <2>2, SubSeqProperties
  <2> QED
    BY <2>2, <2>3
<1>3. /\ v \in Seq(Nodes) /\ Len(v) = n - k + 1
      /\ \A i \in 1 .. n - k + 1 : v[i] = s[k + i - 1]
  <2>1. \A i \in k .. n : s[i] \in Nodes
    BY <1>1
  <2>2. /\ v \in Seq(Nodes) /\ Len(v) = IF k <= n THEN n - k + 1 ELSE 0
        /\ \A i \in 1 .. n - k + 1 : v[i] = s[k + i - 1]
    BY <1>1, <2>1, SubSeqProperties
  <2> QED
    BY <1>1, <2>2
<1>4. /\ <<x>> \in Seq(Nodes) /\ Len(<<x>>) = 1 /\ <<x>>[1] = x
  OBVIOUS
<1> HIDE DEF u, v, n
<1>5. /\ u \o <<x>> \in Seq(Nodes) /\ Len(u \o <<x>>) = k
      /\ \A i \in 1 .. k : (u \o <<x>>)[i] = IF i <= k - 1 THEN s[i] ELSE x
  <2>1. /\ u \o <<x>> \in Seq(Nodes) /\ Len(u \o <<x>>) = Len(u) + Len(<<x>>)
        /\ \A i \in 1 .. Len(u) + Len(<<x>>) :
             (u \o <<x>>)[i] = IF i <= Len(u) THEN u[i] ELSE <<x>>[i - Len(u)]
    BY <1>2, <1>4, ConcatProperties
  <2> QED
    BY <1>1, <1>2, <1>4, <2>1
<1>6. /\ u \o <<x>> \o v \in Seq(Nodes) /\ Len(u \o <<x>> \o v) = n + 1
      /\ \A i \in 1 .. n + 1 :
           (u \o <<x>> \o v)[i] = IF i <= k THEN (u \o <<x>>)[i] ELSE v[i - k]
  <2>1. /\ u \o <<x>> \o v \in Seq(Nodes)
        /\ Len(u \o <<x>> \o v) = Len(u \o <<x>>) + Len(v)
        /\ \A i \in 1 .. Len(u \o <<x>>) + Len(v) :
             (u \o <<x>> \o v)[i] = IF i <= Len(u \o <<x>>) THEN (u \o <<x>>)[i]
                                    ELSE v[i - Len(u \o <<x>>)]
    BY <1>3, <1>5, ConcatProperties
  <2>2. Len(u \o <<x>>) = k /\ Len(u \o <<x>>) + Len(v) = n + 1
    <3>1. Len(u \o <<x>>) = k /\ Len(v) = n - k + 1
      BY <1>3, <1>5
    <3>2. k + (n - k + 1) = n + 1
      BY <1>1
    <3> QED
      BY <3>1, <3>2
  <2>3. ASSUME NEW i \in 1 .. n + 1
        PROVE  (u \o <<x>> \o v)[i] = IF i <= k THEN (u \o <<x>>)[i] ELSE v[i - k]
    <3>1. i \in 1 .. Len(u \o <<x>>) + Len(v)
      BY <2>2
    <3> QED
      BY <2>1, <2>2, <3>1
  <2> QED
    BY <2>1, <2>2, <2>3
<1>7. InsertAt(s, k, x) = u \o <<x>> \o v
  BY DEF InsertAt, u, v, n
<1>8. ASSUME NEW i \in 1 .. n + 1
      PROVE  (u \o <<x>> \o v)[i] = IF i < k THEN s[i] ELSE IF i = k THEN x ELSE s[i - 1]
  <2>1. CASE i <= k
    BY <1>1, <1>5, <1>6, <2>1
  <2>2. CASE i > k
    <3>1. /\ i - k \in 1 .. n - k + 1 /\ k + (i - k) - 1 = i - 1
          /\ ~(i <= k) /\ ~(i < k) /\ i # k
      BY <1>1, <2>2
    <3>2. v[i - k] = s[i - 1]
      BY <1>3, <3>1
    <3> QED
      BY <1>6, <3>1, <3>2
  <2>3. i <= k \/ i > k
    BY <1>1
  <2> QED
    BY <2>1, <2>2, <2>3
<1> QED
  BY <1>6, <1>7, <1>8, LenProperties DEF n

\* A sequence without the item at a place.
LEMMA RemoveIs ==
  ASSUME NEW s \in Seq(Nodes), NEW k \in 1 .. Len(s)
  PROVE  /\ RemoveAt(s, k) \in Seq(Nodes)
         /\ Len(RemoveAt(s, k)) = Len(s) - 1
         /\ DOMAIN RemoveAt(s, k) = 1 .. Len(s) - 1
         /\ \A i \in 1 .. Len(s) - 1 : RemoveAt(s, k)[i] = IF i < k THEN s[i] ELSE s[i + 1]
<1> DEFINE n == Len(s)
           u == SubSeq(s, 1, k - 1)
           v == SubSeq(s, k + 1, n)
<1>1. n \in Nat /\ k \in Int /\ DOMAIN s = 1 .. n /\ \A i \in 1 .. n : s[i] \in Nodes
  BY LenProperties, ElementOfSeq
<1>2. /\ u \in Seq(Nodes) /\ Len(u) = k - 1
      /\ \A i \in 1 .. k - 1 : u[i] = s[i]
  <2>1. \A i \in 1 .. k - 1 : s[i] \in Nodes
    BY <1>1
  <2>2. k - 1 \in Int /\ k - 1 >= 0 /\ \A i \in 1 .. k - 1 - 1 + 1 : 1 + i - 1 = i /\ i \in 1 .. k - 1
    BY <1>1
  <2>3. /\ u \in Seq(Nodes) /\ Len(u) = IF 1 <= k - 1 THEN k - 1 - 1 + 1 ELSE 0
        /\ \A i \in 1 .. k - 1 - 1 + 1 : u[i] = s[1 + i - 1]
    BY <2>1, <2>2, SubSeqProperties
  <2> QED
    BY <2>2, <2>3
<1>3. /\ v \in Seq(Nodes) /\ Len(v) = n - k
      /\ \A i \in 1 .. n - k : v[i] = s[k + i]
  <2>1. \A i \in k + 1 .. n : s[i] \in Nodes
    BY <1>1
  <2>2. k + 1 \in Int /\ \A i \in 1 .. n - k : i \in 1 .. n - (k + 1) + 1 /\ k + 1 + i - 1 = k + i
    BY <1>1
  <2>3. /\ v \in Seq(Nodes) /\ Len(v) = IF k + 1 <= n THEN n - (k + 1) + 1 ELSE 0
        /\ \A i \in 1 .. n - (k + 1) + 1 : v[i] = s[k + 1 + i - 1]
    BY <1>1, <2>1, <2>2, SubSeqProperties
  <2> QED
    BY <1>1, <2>2, <2>3
<1> HIDE DEF u, v, n
<1>4. /\ u \o v \in Seq(Nodes) /\ Len(u \o v) = n - 1
      /\ \A i \in 1 .. n - 1 : (u \o v)[i] = IF i <= k - 1 THEN u[i] ELSE v[i - (k - 1)]
  <2>1. /\ u \o v \in Seq(Nodes) /\ Len(u \o v) = Len(u) + Len(v)
        /\ \A i \in 1 .. Len(u) + Len(v) :
             (u \o v)[i] = IF i <= Len(u) THEN u[i] ELSE v[i - Len(u)]
    BY <1>2, <1>3, ConcatProperties
  <2> QED
    BY <1>1, <1>2, <1>3, <2>1
<1>5. RemoveAt(s, k) = u \o v
  BY DEF RemoveAt, u, v, n
<1>6. ASSUME NEW i \in 1 .. n - 1
      PROVE  (u \o v)[i] = IF i < k THEN s[i] ELSE s[i + 1]
  <2>1. CASE i < k
    BY <1>1, <1>2, <1>4, <2>1
  <2>2. CASE i >= k
    <3>1. /\ i - (k - 1) \in 1 .. n - k /\ k + (i - (k - 1)) = i + 1
          /\ ~(i <= k - 1) /\ ~(i < k)
      BY <1>1, <2>2
    <3>2. v[i - (k - 1)] = s[i + 1]
      BY <1>3, <3>1
    <3> QED
      BY <1>4, <3>1, <3>2
  <2>3. i < k \/ i >= k
    BY <1>1
  <2> QED
    BY <2>1, <2>2, <2>3
<1> QED
  BY <1>4, <1>5, <1>6, LenProperties DEF n

\* A heap in which only the list under a is another one.
LEMMA OneList ==
  ASSUME NEW h, NEW L, Shape(h, L), NEW g \in Heaps, NEW a \in Nodes, NEW t \in Seq(Nodes),
         \A b \in Nodes \ {a} : g.child[b] = h.child[b],
         \A y \in Nodes : y \notin ToSet(L[a]) /\ y \notin ToSet(t) =>
           g.next[y] = h.next[y] /\ g.prev[y] = h.prev[y],
         Linked(g, a, t),
         \A i, j \in DOMAIN t : t[i] = t[j] => i = j,
         \A y \in ToSet(t) : y \in ToSet(L[a]) \/ ~Listed(L, y),
         \A y \in ToSet(L[a]) : y \in ToSet(t) \/ Loose(g, y)
  PROVE  Shape(g, [L EXCEPT ![a] = t])
<1> DEFINE M == [L EXCEPT ![a] = t]
<1>1. L \in [Nodes -> Seq(Nodes)] /\ M \in [Nodes -> Seq(Nodes)]
  BY DEF Shape
<1>2. M[a] = t /\ \A b \in Nodes \ {a} : M[b] = L[b]
  BY <1>1
<1>3. ASSUME NEW b \in Nodes \ {a}, NEW y \in ToSet(L[b])
      PROVE  y \in Nodes /\ y \notin ToSet(L[a]) /\ y \notin ToSet(t)
  <2>1. y \in Nodes
    BY <1>1, <1>3, ElementOfSeq, LenProperties DEF ToSet
  <2>2. Listed(L, y)
    BY <1>3 DEF Listed, ToSet
  <2>3. y \notin ToSet(L[a])
    BY <1>3 DEF Shape, Apart, ToSet
  <2> QED
    BY <2>1, <2>2, <2>3
<1> HIDE DEF M
<1>4. ASSUME NEW b \in Nodes PROVE Linked(g, b, M[b])
  <2>1. CASE b = a
    BY <1>2, <2>1
  <2>2. CASE b # a
    <3>1. Linked(h, b, L[b]) /\ g.child[b] = h.child[b] /\ M[b] = L[b]
      BY <1>2, <2>2 DEF Shape
    <3>2. \A i \in DOMAIN L[b] :
            g.next[L[b][i]] = h.next[L[b][i]] /\ g.prev[L[b][i]] = h.prev[L[b][i]]
      <4> TAKE i \in DOMAIN L[b]
      <4>1. L[b][i] \in ToSet(L[b])
        BY DEF ToSet
      <4> QED
        BY <1>3, <2>2, <4>1
    <3> QED
      BY <3>1, <3>2 DEF Linked
  <2> QED
    BY <2>1, <2>2
<1>5. Apart(M)
  <2> SUFFICES ASSUME NEW b \in Nodes, NEW c \in Nodes,
                      NEW i \in DOMAIN M[b], NEW j \in DOMAIN M[c], M[b][i] = M[c][j]
               PROVE  b = c /\ i = j
    BY DEF Apart
  <2>1. CASE b = a /\ c = a
    BY <1>2, <2>1
  <2>2. CASE b = a /\ c # a
    <3>1. M[c][j] \in ToSet(L[c]) /\ M[b][i] \in ToSet(t)
      BY <1>2, <2>2 DEF ToSet
    <3> QED
      BY <1>3, <2>2, <3>1
  <2>3. CASE b # a /\ c = a
    <3>1. M[b][i] \in ToSet(L[b]) /\ M[c][j] \in ToSet(t)
      BY <1>2, <2>3 DEF ToSet
    <3> QED
      BY <1>3, <2>3, <3>1
  <2>4. CASE b # a /\ c # a
    BY <1>2, <2>4 DEF Shape, Apart
  <2> QED
    BY <2>1, <2>2, <2>3, <2>4
<1>6. ASSUME NEW y \in Nodes PROVE Listed(M, y) \/ Loose(g, y)
  <2>1. CASE y \in ToSet(t)
    BY <1>2, <2>1 DEF Listed, ToSet
  <2>2. CASE y \in ToSet(L[a]) /\ y \notin ToSet(t)
    BY <2>2
  <2>3. CASE y \notin ToSet(L[a]) /\ y \notin ToSet(t)
    <3>1. CASE Listed(L, y)
      <4>1. PICK b \in Nodes : y \in ToSet(L[b])
        BY <3>1 DEF Listed, ToSet
      <4>2. b # a
        BY <2>3, <4>1
      <4> QED
        BY <1>2, <4>1, <4>2 DEF Listed, ToSet
    <3>2. CASE ~Listed(L, y)
      BY <2>3, <3>2 DEF Loose, Shape
    <3> QED
      BY <3>1, <3>2
  <2> QED
    BY <2>1, <2>2, <2>3
<1> QED
  BY <1>1, <1>4, <1>5, <1>6 DEF Shape, M

\* One list of a heap by itself.
LEMMA ListFacts ==
  ASSUME NEW h, NEW L, Shape(h, L), NEW a \in Nodes
  PROVE  /\ L[a] \in Seq(Nodes) /\ Len(L[a]) \in Nat /\ DOMAIN L[a] = 1 .. Len(L[a])
         /\ \A i \in 1 .. Len(L[a]) : L[a][i] \in Nodes /\ L[a][i] # NULL /\ Listed(L, L[a][i])
         /\ Linked(h, a, L[a])
         /\ \A i, j \in 1 .. Len(L[a]) : L[a][i] = L[a][j] => i = j
         /\ L[a] = <<>> <=> Len(L[a]) = 0
         /\ h \in Heaps
<1>1. L[a] \in Seq(Nodes) /\ Linked(h, a, L[a]) /\ h \in Heaps
  BY DEF Shape
<1>2. Len(L[a]) \in Nat /\ DOMAIN L[a] = 1 .. Len(L[a]) /\ \A i \in 1 .. Len(L[a]) : L[a][i] \in Nodes
  BY <1>1
<1>3. \A i \in 1 .. Len(L[a]) : L[a][i] # NULL /\ Listed(L, L[a][i])
  BY <1>2 DEF Listed
<1>4. \A i, j \in 1 .. Len(L[a]) : L[a][i] = L[a][j] => i = j
  BY <1>2 DEF Shape, Apart
<1>5. L[a] = <<>> <=> Len(L[a]) = 0
  BY <1>1, EmptySeq
<1> QED
  BY <1>1, <1>2, <1>3, <1>4, <1>5

\* Appending what is in no list.
LEMMA AddLinks ==
  ASSUME NEW h, NEW L, Shape(h, L), NEW a \in Nodes, NEW x \in Nodes, ~Listed(L, x)
  PROVE  Shape(add_item_to_array(h, a, x), [L EXCEPT ![a] = Append(L[a], x)])
<1> DEFINE s == L[a]
           n == Len(s)
           t == Append(s, x)
           g == add_item_to_array(h, a, x)
           c == h.child[a]
<1>1. /\ s \in Seq(Nodes) /\ n \in Nat /\ DOMAIN s = 1 .. n
      /\ \A i \in 1 .. n : s[i] \in Nodes /\ s[i] # NULL /\ Listed(L, s[i])
      /\ Linked(h, a, s)
      /\ \A i, j \in 1 .. n : s[i] = s[j] => i = j
      /\ s = <<>> <=> n = 0
      /\ h \in Heaps
  BY ListFacts
<1>2. /\ t \in Seq(Nodes) /\ Len(t) = n + 1 /\ DOMAIN t = 1 .. n + 1
      /\ \A i \in 1 .. n + 1 : t[i] = IF i <= n THEN s[i] ELSE x
  BY <1>1, AppendIs
<1>3. x # NULL /\ \A i \in 1 .. n : s[i] # x
  BY <1>1
<1>4. h.next[x] = NULL /\ h.prev[x] = NULL
  BY DEF Shape, Loose
<1>5. /\ g \in Heaps
      /\ \A b \in Nodes \ {a} : g.child[b] = h.child[b]
      /\ \A y \in Nodes : y \notin ToSet(s) /\ y # x => g.next[y] = h.next[y] /\ g.prev[y] = h.prev[y]
      /\ Linked(g, a, t)
  <2>1. CASE n = 0
    <3>1. c = NULL /\ s = <<>>
      BY <1>1, <2>1 DEF Linked
    <3>2. g = [h EXCEPT !.child[a] = x, !.prev[x] = x, !.next[x] = NULL]
      BY <3>1 DEF add_item_to_array
    <3>8. /\ g.child = [h.child EXCEPT ![a] = x] /\ g.prev = [h.prev EXCEPT ![x] = x]
          /\ g.next = [h.next EXCEPT ![x] = NULL] /\ g = [next |-> g.next, prev |-> g.prev, child |-> g.child]
      BY <1>1, <3>2 DEF Heaps
    <3>9. h.child \in Pointers /\ h.prev \in Pointers /\ h.next \in Pointers
      BY <1>1 DEF Heaps
    <3>10. g.child \in Pointers /\ g.prev \in Pointers /\ g.next \in Pointers
      BY <3>8, <3>9 DEF Pointers
    <3>11. g \in Heaps
      BY <3>8, <3>10 DEF Heaps
    <3>3. /\ g \in Heaps /\ g.child[a] = x /\ g.prev[x] = x /\ g.next[x] = NULL
          /\ \A b \in Nodes \ {a} : g.child[b] = h.child[b]
          /\ \A y \in Nodes \ {x} : g.next[y] = h.next[y] /\ g.prev[y] = h.prev[y]
      BY <3>8, <3>9, <3>11 DEF Pointers
    <3>4. t # <<>> /\ DOMAIN t = {1} /\ Len(t) = 1 /\ t[1] = x
      BY <1>2, <2>1
    <3>5. Linked(g, a, t)
      BY <3>3, <3>4 DEF Linked
    <3> QED
      BY <3>3, <3>5
  <2>2. CASE n # 0
    <3>1. c = s[1] /\ c \in Nodes /\ c # NULL /\ h.prev[c] = s[n] /\ s[n] \in Nodes /\ s[n] # NULL /\ c # x /\ s[n] # x
      BY <1>1, <1>3, <2>2 DEF Linked
    <3>2. g = [h EXCEPT !.next[s[n]] = x, !.prev[x] = s[n], !.prev[c] = x]
      BY <3>1 DEF add_item_to_array
    <3>8. /\ g.child = h.child /\ g.prev = [[h.prev EXCEPT ![x] = s[n]] EXCEPT ![c] = x]
          /\ g.next = [h.next EXCEPT ![s[n]] = x] /\ g = [next |-> g.next, prev |-> g.prev, child |-> g.child]
      BY <1>1, <3>2 DEF Heaps
    <3>9. h.child \in Pointers /\ h.prev \in Pointers /\ h.next \in Pointers
      BY <1>1 DEF Heaps
    <3>10. g.child \in Pointers /\ g.prev \in Pointers /\ g.next \in Pointers
      BY <3>1, <3>8, <3>9 DEF Pointers
    <3>11. g \in Heaps
      BY <3>8, <3>10 DEF Heaps
    <3>3. /\ g \in Heaps /\ g.child = h.child /\ g.prev[x] = s[n] /\ g.prev[c] = x /\ g.next[s[n]] = x
          /\ \A y \in Nodes \ {s[n]} : g.next[y] = h.next[y]
          /\ \A y \in Nodes \ {x, c} : g.prev[y] = h.prev[y]
      BY <3>1, <3>8, <3>9, <3>11 DEF Pointers
    <3>4. \A i \in 1 .. n + 1 :
            /\ g.next[t[i]] = IF i = n + 1 THEN NULL ELSE t[i + 1]
            /\ g.prev[t[i]] = IF i = 1 THEN t[n + 1] ELSE t[i - 1]
      <4> SUFFICES ASSUME NEW i \in 1 .. n + 1
                   PROVE  /\ g.next[t[i]] = IF i = n + 1 THEN NULL ELSE t[i + 1]
                          /\ g.prev[t[i]] = IF i = 1 THEN t[n + 1] ELSE t[i - 1]
        OBVIOUS
      <4>1. CASE i = n + 1
        <5>1. t[i] = x /\ t[i - 1] = s[n] /\ i # 1
          BY <1>1, <1>2, <2>2, <4>1
        <5> QED
          BY <1>4, <3>1, <3>3, <4>1, <5>1
      <4>2. CASE i <= n
        <5>1. t[i] = s[i] /\ s[i] # x /\ i \in 1 .. n /\ i # n + 1 /\ i + 1 \in 1 .. n + 1
          BY <1>1, <1>2, <1>3, <4>2
        <5>2. /\ h.next[s[i]] = IF i = n THEN NULL ELSE s[i + 1]
              /\ h.prev[s[i]] = IF i = 1 THEN s[n] ELSE s[i - 1]
          BY <1>1, <5>1 DEF Linked
        <5>3. g.next[t[i]] = t[i + 1]
          <6>1. CASE i = n
            BY <1>1, <1>2, <3>3, <5>1, <6>1
          <6>2. CASE i # n
            <7>1. s[i] # s[n] /\ t[i + 1] = s[i + 1]
              BY <1>1, <1>2, <2>2, <5>1, <6>2
            <7> QED
              BY <1>1, <3>3, <5>1, <5>2, <6>2, <7>1
          <6> QED
            BY <6>1, <6>2
        <5>4. g.prev[t[i]] = IF i = 1 THEN t[n + 1] ELSE t[i - 1]
          <6>1. CASE i = 1
            BY <1>1, <1>2, <3>1, <3>3, <5>1, <6>1
          <6>2. CASE i # 1
            <7>1. s[i] # c /\ t[i - 1] = s[i - 1]
              BY <1>1, <1>2, <2>2, <3>1, <5>1, <6>2
            <7> QED
              BY <1>1, <3>3, <5>1, <5>2, <6>2, <7>1
          <6> QED
            BY <6>1, <6>2
        <5> QED
          BY <5>1, <5>3, <5>4
      <4> QED
        BY <1>1, <4>1, <4>2
    <3>5. t # <<>> /\ t[1] = s[1] /\ g.child[a] = s[1]
      BY <1>1, <1>2, <2>2, <3>1, <3>3
    <3>6. Linked(g, a, t)
      BY <1>2, <3>4, <3>5 DEF Linked
    <3>7. s[n] \in ToSet(s) /\ c \in ToSet(s)
      BY <1>1, <2>2, <3>1 DEF ToSet
    <3> QED
      BY <3>3, <3>6, <3>7
  <2> QED
    BY <2>1, <2>2
<1> HIDE DEF g
<1>6. ToSet(t) = ToSet(s) \cup {x}
  <2>1. \A i \in 1 .. n : t[i] = s[i]
    BY <1>1, <1>2
  <2>2. t[n + 1] = x /\ n + 1 \in 1 .. n + 1
    BY <1>1, <1>2
  <2>3. \A i \in 1 .. n + 1 : i \in 1 .. n \/ i = n + 1
    BY <1>1
  <2>4. \A i \in 1 .. n : i \in 1 .. n + 1
    BY <1>1
  <2> HIDE DEF t, s
  <2> QED
    BY <1>1, <1>2, <2>1, <2>2, <2>3, <2>4 DEF ToSet
<1>7. \A i, j \in DOMAIN t : t[i] = t[j] => i = j
  BY <1>1, <1>2, <1>3
<1> HIDE DEF t, s
<1>8. \A y \in Nodes : y \notin ToSet(s) /\ y \notin ToSet(t) =>
        g.next[y] = h.next[y] /\ g.prev[y] = h.prev[y]
  BY <1>5, <1>6
<1>9. /\ \A y \in ToSet(t) : y \in ToSet(s) \/ ~Listed(L, y)
      /\ \A y \in ToSet(s) : y \in ToSet(t) \/ Loose(g, y)
  BY <1>6
<1>10. Shape(g, [L EXCEPT ![a] = t])
  BY <1>2, <1>5, <1>7, <1>8, <1>9, OneList DEF s
<1> QED
  BY <1>10 DEF s, t, g

\* One pointer is set.
LEMMA SetNext ==
  ASSUME NEW h \in Heaps, NEW x \in Nodes, NEW v \in Nodes \cup {NULL}
  PROVE  LET g == [h EXCEPT !.next[x] = v] IN
         /\ g \in Heaps /\ g.child = h.child /\ g.prev = h.prev
         /\ \A y \in Nodes : g.next[y] = IF y = x THEN v ELSE h.next[y]
BY DEF Heaps, Pointers

\* The same for prev.
LEMMA SetPrev ==
  ASSUME NEW h \in Heaps, NEW x \in Nodes, NEW v \in Nodes \cup {NULL}
  PROVE  LET g == [h EXCEPT !.prev[x] = v] IN
         /\ g \in Heaps /\ g.child = h.child /\ g.next = h.next
         /\ \A y \in Nodes : g.prev[y] = IF y = x THEN v ELSE h.prev[y]
BY DEF Heaps, Pointers

\* The same for child.
LEMMA SetChild ==
  ASSUME NEW h \in Heaps, NEW x \in Nodes, NEW v \in Nodes \cup {NULL}
  PROVE  LET g == [h EXCEPT !.child[x] = v] IN
         /\ g \in Heaps /\ g.next = h.next /\ g.prev = h.prev
         /\ \A y \in Nodes : g.child[y] = IF y = x THEN v ELSE h.child[y]
BY DEF Heaps, Pointers

\* An item gets no neighbours.
LEMMA SetLoose ==
  ASSUME NEW h \in Heaps, NEW x \in Nodes
  PROVE  LET g == [h EXCEPT !.prev[x] = NULL, !.next[x] = NULL] IN
         /\ g \in Heaps /\ g.child = h.child
         /\ \A y \in Nodes : g.next[y] = IF y = x THEN NULL ELSE h.next[y]
         /\ \A y \in Nodes : g.prev[y] = IF y = x THEN NULL ELSE h.prev[y]
BY DEF Heaps, Pointers

\* What cJSON_DetachItemViaPointer writes.
LEMMA DetachWrites ==
  ASSUME NEW h, NEW L, Shape(h, L), NEW a \in Nodes, NEW k \in 1 .. Len(L[a])
  PROVE  LET s == L[a]
             n == Len(s)
             x == s[k]
             g == Detach(h, a, x)
         IN /\ g \in Heaps
            /\ \A b \in Nodes : g.child[b] = IF k = 1 /\ b = a THEN h.next[x] ELSE h.child[b]
            /\ g.next[x] = NULL /\ g.prev[x] = NULL
            /\ \A y \in Nodes \ {x} :
                 g.next[y] = IF k > 1 /\ y = s[k - 1] THEN h.next[x] ELSE h.next[y]
            /\ \A y \in Nodes \ {x} :
                 g.prev[y] = IF \/ k < n /\ y = s[k + 1]
                                \/ k = n /\ k > 1 /\ y = s[1]
                             THEN h.prev[x] ELSE h.prev[y]
<1> DEFINE s == L[a]
           n == Len(s)
           x == s[k]
           h1 == IF x # h.child[a] THEN [h EXCEPT !.next[h.prev[x]] = h.next[x]] ELSE h
           h2 == IF h1.next[x] # NULL THEN [h1 EXCEPT !.prev[h1.next[x]] = h1.prev[x]] ELSE h1
           h3 == IF x = h2.child[a] THEN [h2 EXCEPT !.child[a] = h2.next[x]]
                 ELSE IF h2.next[x] = NULL THEN [h2 EXCEPT !.prev[h2.child[a]] = h2.prev[x]]
                 ELSE h2
           g == [h3 EXCEPT !.prev[x] = NULL, !.next[x] = NULL]
<1>0. Detach(h, a, x) = g
  BY DEF Detach
<1>1. /\ s \in Seq(Nodes) /\ n \in Nat /\ DOMAIN s = 1 .. n
      /\ \A i \in 1 .. n : s[i] \in Nodes /\ s[i] # NULL /\ Listed(L, s[i])
      /\ Linked(h, a, s)
      /\ \A i, j \in 1 .. n : s[i] = s[j] => i = j
      /\ s = <<>> <=> n = 0
      /\ h \in Heaps
  BY ListFacts
<1>2. /\ k \in 1 .. n /\ x \in Nodes /\ x # NULL /\ s # <<>> /\ h.child[a] = s[1]
      /\ h.next[x] = IF k = n THEN NULL ELSE s[k + 1]
      /\ h.prev[x] = IF k = 1 THEN s[n] ELSE s[k - 1]
      /\ s[1] \in Nodes /\ s[n] \in Nodes /\ (k # n => s[k + 1] \in Nodes /\ s[k + 1] # x)
      /\ (k # 1 => s[k - 1] \in Nodes /\ s[k - 1] # x) /\ (x = s[1] <=> k = 1)
      /\ s[1] # NULL /\ (k # n => s[k + 1] # NULL)
      /\ h.next[x] \in Nodes \cup {NULL} /\ h.prev[x] \in Nodes
  <2>1. k \in 1 .. n /\ 1 \in 1 .. n /\ n \in 1 .. n /\ k \in DOMAIN s /\ n # 0
    BY <1>1
  <2>2. k # n => k + 1 \in 1 .. n /\ k + 1 # k
    BY <1>1, <2>1
  <2>3. k # 1 => k - 1 \in 1 .. n /\ k - 1 # k
    BY <1>1, <2>1
  <2>4. /\ h.next[x] = IF k = n THEN NULL ELSE s[k + 1]
        /\ h.prev[x] = IF k = 1 THEN s[n] ELSE s[k - 1]
    BY <1>1, <2>1 DEF Linked
  <2>5. s # <<>> /\ h.child[a] = s[1]
    BY <1>1, <2>1 DEF Linked
  <2> HIDE DEF s, n
  <2> QED
    BY <1>1, <2>1, <2>2, <2>3, <2>4, <2>5
<1> HIDE DEF s, n, x
<1>3. /\ h1 \in Heaps /\ h1.child = h.child /\ h1.prev = h.prev
      /\ \A y \in Nodes : h1.next[y] = IF k # 1 /\ y = s[k - 1] THEN h.next[x] ELSE h.next[y]
  <2>1. CASE k = 1
    BY <1>1, <1>2, <2>1
  <2>2. CASE k # 1
    <3>1. h1 = [h EXCEPT !.next[s[k - 1]] = h.next[x]]
      BY <1>2, <2>2
    <3>2. h \in Heaps /\ s[k - 1] \in Nodes /\ h.next[x] \in Nodes \cup {NULL}
      BY <1>1, <1>2, <2>2
    <3> HIDE DEF h1
    <3> QED
      BY <2>2, <3>1, <3>2, SetNext
  <2> QED
    BY <2>1, <2>2
<1> HIDE DEF h1
<1>4. /\ h2 \in Heaps /\ h2.child = h.child /\ h2.next = h1.next
      /\ \A y \in Nodes : h2.prev[y] = IF k # n /\ y = s[k + 1] THEN h.prev[x] ELSE h.prev[y]
  <2>0. h1.next[x] = h.next[x] /\ h1.prev[x] = h.prev[x]
    BY <1>2, <1>3
  <2>1. CASE k = n
    <3>1. h2 = h1
      BY <1>2, <2>0, <2>1
    <3> HIDE DEF h2
    <3> QED
      BY <1>3, <2>1, <3>1
  <2>2. CASE k # n
    <3>1. h2 = [h1 EXCEPT !.prev[s[k + 1]] = h.prev[x]]
      BY <1>2, <2>0, <2>2
    <3> QED
      BY <1>2, <1>3, <2>2, <3>1, SetPrev
  <2> QED
    BY <2>1, <2>2
<1>5. h2.next[x] = h.next[x] /\ h2.prev[x] = h.prev[x] /\ h2.child[a] = s[1]
  BY <1>2, <1>3, <1>4
<1> HIDE DEF h2
<1>6. /\ h3 \in Heaps /\ h3.next = h2.next
      /\ \A b \in Nodes : h3.child[b] = IF k = 1 /\ b = a THEN h.next[x] ELSE h.child[b]
      /\ \A y \in Nodes : h3.prev[y] = IF k # 1 /\ k = n /\ y = s[1] THEN h.prev[x] ELSE h2.prev[y]
  <2>1. CASE k = 1
    <3>1. h3 = [h2 EXCEPT !.child[a] = h.next[x]]
      BY <1>2, <1>5, <2>1
    <3> HIDE DEF h3
    <3> QED
      BY <1>2, <1>4, <2>1, <3>1, SetChild
  <2>2. CASE k # 1 /\ k = n
    <3>1. h3 = [h2 EXCEPT !.prev[s[1]] = h.prev[x]]
      BY <1>2, <1>5, <2>2
    <3> HIDE DEF h3
    <3> QED
      BY <1>2, <1>4, <2>2, <3>1, SetPrev
  <2>3. CASE k # 1 /\ k # n
    <3>1. h3 = h2
      BY <1>2, <1>5, <2>3
    <3> HIDE DEF h3
    <3> QED
      BY <1>4, <2>3, <3>1
  <2> QED
    BY <2>1, <2>2, <2>3
<1> HIDE DEF h3
<1>7. /\ g \in Heaps /\ g.child = h3.child
      /\ \A y \in Nodes : g.next[y] = IF y = x THEN NULL ELSE h3.next[y]
      /\ \A y \in Nodes : g.prev[y] = IF y = x THEN NULL ELSE h3.prev[y]
  BY <1>2, <1>6, SetLoose
<1> HIDE DEF g
<1>8. (k > 1 <=> k # 1) /\ (k < n <=> k # n)
  BY <1>1, <1>2
<1>9. /\ g \in Heaps
      /\ \A b \in Nodes : g.child[b] = IF k = 1 /\ b = a THEN h.next[x] ELSE h.child[b]
      /\ g.next[x] = NULL /\ g.prev[x] = NULL
      /\ \A y \in Nodes \ {x} :
           g.next[y] = IF k > 1 /\ y = s[k - 1] THEN h.next[x] ELSE h.next[y]
      /\ \A y \in Nodes \ {x} :
           g.prev[y] = IF \/ k < n /\ y = s[k + 1]
                          \/ k = n /\ k > 1 /\ y = s[1]
                       THEN h.prev[x] ELSE h.prev[y]
  BY <1>2, <1>3, <1>4, <1>6, <1>7, <1>8
<1> QED
  BY <1>0, <1>9 DEF s, n, x

\* Detaching an item takes it out of its sequence.
LEMMA DetachLinks ==
  ASSUME NEW h, NEW L, Shape(h, L), NEW a \in Nodes, NEW k \in 1 .. Len(L[a])
  PROVE  Shape(Detach(h, a, L[a][k]), [L EXCEPT ![a] = RemoveAt(L[a], k)])
<1> DEFINE s == L[a]
           n == Len(s)
           x == s[k]
           t == RemoveAt(s, k)
           g == Detach(h, a, x)
<1>1. /\ s \in Seq(Nodes) /\ n \in Nat /\ DOMAIN s = 1 .. n
      /\ \A i \in 1 .. n : s[i] \in Nodes /\ s[i] # NULL /\ Listed(L, s[i])
      /\ Linked(h, a, s)
      /\ \A i, j \in 1 .. n : s[i] = s[j] => i = j
      /\ s = <<>> <=> n = 0
      /\ h \in Heaps
  BY ListFacts
<1>2. /\ t \in Seq(Nodes) /\ Len(t) = n - 1 /\ DOMAIN t = 1 .. n - 1
      /\ \A i \in 1 .. n - 1 : t[i] = IF i < k THEN s[i] ELSE s[i + 1]
  BY <1>1, RemoveIs
<1>3. /\ g \in Heaps
      /\ \A b \in Nodes : g.child[b] = IF k = 1 /\ b = a THEN h.next[x] ELSE h.child[b]
      /\ g.next[x] = NULL /\ g.prev[x] = NULL
      /\ \A y \in Nodes \ {x} :
           g.next[y] = IF k > 1 /\ y = s[k - 1] THEN h.next[x] ELSE h.next[y]
      /\ \A y \in Nodes \ {x} :
           g.prev[y] = IF \/ k < n /\ y = s[k + 1]
                          \/ k = n /\ k > 1 /\ y = s[1]
                       THEN h.prev[x] ELSE h.prev[y]
  BY DetachWrites
<1>4. k \in 1 .. n /\ x \in Nodes
  BY <1>1
<1>5. \A i \in 1 .. n : /\ h.next[s[i]] = IF i = n THEN NULL ELSE s[i + 1]
                        /\ h.prev[s[i]] = IF i = 1 THEN s[n] ELSE s[i - 1]
  BY <1>1 DEF Linked
<1>6. h.child[a] = s[1]
  BY <1>1, <1>4 DEF Linked
<1> HIDE DEF g, t, x
<1>7. t = <<>> <=> n = 1
  <2>1. t = <<>> <=> Len(t) = 0
    BY <1>2, EmptySeq
  <2> QED
    BY <1>1, <1>2, <1>4, <2>1
<1>x. x = s[k] /\ \A i \in 1 .. n : s[i] = x => i = k
  BY <1>1, <1>4 DEF x
<1> HIDE DEF s, n
<1>8. g.child[a] = IF t = <<>> THEN NULL ELSE t[1]
  <2>1. CASE k = 1
    <3>1. g.child[a] = IF n = 1 THEN NULL ELSE s[2]
      BY <1>1, <1>3, <1>4, <1>5, <1>x, <2>1
    <3> QED
      BY <1>1, <1>2, <1>4, <1>7, <2>1, <3>1
  <2>2. CASE k # 1
    BY <1>1, <1>2, <1>3, <1>4, <1>6, <1>7, <2>2
  <2> QED
    BY <2>1, <2>2
<1>9. ASSUME NEW i \in 1 .. n - 1
      PROVE  g.next[t[i]] = IF i = n - 1 THEN NULL ELSE t[i + 1]
  <2>1. CASE i < k
    <3>1. t[i] = s[i] /\ i \in 1 .. n /\ s[i] # x /\ s[i] \in Nodes
      BY <1>1, <1>2, <1>4, <1>x, <2>1
    <3>2. CASE i = k - 1
      <4>1. g.next[t[i]] = h.next[x]
        BY <1>1, <1>3, <1>4, <3>1, <3>2
      <4>2. h.next[x] = IF k = n THEN NULL ELSE s[k + 1]
        BY <1>4, <1>5, <1>x
      <4>3. k # n => t[i + 1] = s[k + 1]
        BY <1>1, <1>2, <1>4, <3>2
      <4> QED
        BY <1>1, <1>4, <3>2, <4>1, <4>2, <4>3
    <3>3. CASE i # k - 1
      <4>1. s[i] # s[k - 1] /\ i + 1 < k /\ i + 1 \in 1 .. n - 1
        BY <1>1, <1>4, <2>1, <3>3
      <4>2. g.next[t[i]] = s[i + 1] /\ t[i + 1] = s[i + 1] /\ i # n - 1
        BY <1>1, <1>2, <1>3, <1>4, <1>5, <3>1, <4>1
      <4> QED
        BY <4>2
    <3> QED
      BY <3>2, <3>3
  <2>2. CASE ~(i < k)
    <3>1. t[i] = s[i + 1] /\ i + 1 \in 1 .. n /\ s[i + 1] # x /\ s[i + 1] \in Nodes
      BY <1>1, <1>2, <1>4, <1>x, <2>2
    <3>2. k > 1 => s[i + 1] # s[k - 1]
      BY <1>1, <1>4, <2>2, <3>1
    <3>3. g.next[t[i]] = IF i + 1 = n THEN NULL ELSE s[i + 1 + 1]
      BY <1>3, <1>5, <3>1, <3>2
    <3>4. i # n - 1 => t[i + 1] = s[i + 1 + 1]
      BY <1>1, <1>2, <1>4, <2>2
    <3> QED
      BY <1>1, <3>3, <3>4
  <2> QED
    BY <2>1, <2>2
<1>10. ASSUME NEW i \in 1 .. n - 1
       PROVE  g.prev[t[i]] = IF i = 1 THEN t[n - 1] ELSE t[i - 1]
  <2>0. n - 1 \in 1 .. n - 1 /\ n > 1
    BY <1>1
  <2>1. CASE i = 1 /\ k = 1
    <3>1. t[i] = s[2] /\ 2 \in 1 .. n /\ s[2] # x /\ s[2] \in Nodes /\ k < n /\ k + 1 = 2
      BY <1>1, <1>2, <1>4, <1>x, <2>0, <2>1
    <3>2. g.prev[t[i]] = h.prev[x] /\ h.prev[x] = s[n]
      BY <1>3, <1>4, <1>5, <1>x, <2>1, <3>1
    <3>3. t[n - 1] = s[n]
      BY <1>1, <1>2, <2>0, <2>1
    <3> QED
      BY <2>1, <3>2, <3>3
  <2>2. CASE i = 1 /\ k # 1 /\ k = n
    <3>1. t[i] = s[1] /\ 1 \in 1 .. n /\ s[1] # x /\ s[1] \in Nodes /\ k > 1
      BY <1>1, <1>2, <1>4, <1>x, <2>0, <2>2
    <3>2. g.prev[t[i]] = h.prev[x] /\ h.prev[x] = s[k - 1]
      BY <1>3, <1>4, <1>5, <1>x, <2>2, <3>1
    <3>3. t[n - 1] = s[n - 1]
      BY <1>1, <1>2, <2>0, <2>2
    <3> QED
      BY <2>2, <3>2, <3>3
  <2>3. CASE i = 1 /\ k # 1 /\ k # n
    <3>1. t[i] = s[1] /\ 1 \in 1 .. n /\ s[1] # x /\ s[1] \in Nodes /\ k + 1 \in 1 .. n /\ s[1] # s[k + 1]
      BY <1>1, <1>2, <1>4, <1>x, <2>0, <2>3
    <3>2. g.prev[t[i]] = s[n]
      BY <1>3, <1>5, <2>3, <3>1
    <3>3. t[n - 1] = s[n]
      BY <1>1, <1>2, <1>4, <2>0, <2>3
    <3> QED
      BY <2>3, <3>2, <3>3
  <2>4. CASE i # 1 /\ i < k
    <3>1. t[i] = s[i] /\ t[i - 1] = s[i - 1] /\ i \in 1 .. n /\ s[i] # x /\ s[i] \in Nodes /\ s[i] # s[1]
      BY <1>1, <1>2, <1>4, <1>x, <2>4
    <3>2. k < n => s[i] # s[k + 1]
      BY <1>1, <1>4, <2>4, <3>1
    <3> QED
      BY <1>3, <1>5, <2>4, <3>1, <3>2
  <2>5. CASE i # 1 /\ ~(i < k)
    <3>1. t[i] = s[i + 1] /\ i + 1 \in 1 .. n /\ s[i + 1] # x /\ s[i + 1] \in Nodes /\ s[i + 1] # s[1]
      BY <1>1, <1>2, <1>4, <1>x, <2>5
    <3>2. CASE i = k
      <4>1. g.prev[t[i]] = h.prev[x] /\ h.prev[x] = s[k - 1] /\ t[i - 1] = s[k - 1]
        BY <1>1, <1>2, <1>3, <1>4, <1>5, <1>x, <2>5, <3>1, <3>2
      <4> QED
        BY <2>5, <4>1
    <3>3. CASE i # k
      <4>1. s[i + 1] # s[k + 1] /\ t[i - 1] = s[i]
        BY <1>1, <1>2, <1>4, <2>5, <3>1, <3>3
      <4>2. h.prev[s[i + 1]] = s[i + 1 - 1] /\ i + 1 - 1 = i
        BY <1>1, <1>5, <2>5, <3>1
      <4> QED
        BY <1>3, <2>5, <3>1, <4>1, <4>2
    <3> QED
      BY <3>2, <3>3
  <2> QED
    BY <2>1, <2>2, <2>3, <2>4, <2>5
<1>11. Linked(g, a, t)
  BY <1>2, <1>8, <1>9, <1>10 DEF Linked
<1>12. ToSet(s) = ToSet(t) \cup {x} /\ x \notin ToSet(t)
  <2>1. ASSUME NEW i \in 1 .. n PROVE s[i] = x \/ \E j \in 1 .. n - 1 : t[j] = s[i]
    <3>1. CASE i < k
      BY <1>1, <1>2, <1>4, <3>1
    <3>2. CASE i = k
      BY <1>x, <3>2
    <3>3. CASE i > k
      <4>1. i - 1 \in 1 .. n - 1 /\ t[i - 1] = s[i]
        BY <1>1, <1>2, <1>4, <3>3
      <4> QED
        BY <4>1
    <3> QED
      BY <1>1, <1>4, <3>1, <3>2, <3>3
  <2>2. ASSUME NEW j \in 1 .. n - 1 PROVE t[j] # x /\ \E i \in 1 .. n : t[j] = s[i]
    <3>1. CASE j < k
      BY <1>1, <1>2, <1>4, <1>x, <3>1
    <3>2. CASE ~(j < k)
      <4>1. j + 1 \in 1 .. n /\ t[j] = s[j + 1] /\ j + 1 # k
        BY <1>1, <1>2, <1>4, <3>2
      <4> QED
        BY <1>x, <4>1
    <3> QED
      BY <3>1, <3>2
  <2> QED
    <3>1. \A y \in ToSet(s) : y \in ToSet(t) \/ y = x
      <4> SUFFICES ASSUME NEW y \in ToSet(s), y # x PROVE y \in ToSet(t)
        OBVIOUS
      <4>1. PICK i \in 1 .. n : y = s[i]
        BY <1>1 DEF ToSet
      <4>2. PICK j \in 1 .. n - 1 : t[j] = s[i]
        BY <2>1, <4>1
      <4> QED
        BY <1>2, <4>1, <4>2 DEF ToSet
    <3>2. \A y \in ToSet(t) : y \in ToSet(s) /\ y # x
      <4> SUFFICES ASSUME NEW y \in ToSet(t) PROVE y \in ToSet(s) /\ y # x
        OBVIOUS
      <4>1. PICK j \in 1 .. n - 1 : y = t[j]
        BY <1>2 DEF ToSet
      <4>2. y # x /\ \E i \in 1 .. n : y = s[i]
        BY <2>2, <4>1
      <4> QED
        BY <1>1, <4>2 DEF ToSet
    <3>3. x \in ToSet(s)
      BY <1>1, <1>4, <1>x DEF ToSet
    <3> QED
      BY <3>1, <3>2, <3>3
<1>13. \A i, j \in DOMAIN t : t[i] = t[j] => i = j
  <2> SUFFICES ASSUME NEW i \in 1 .. n - 1, NEW j \in 1 .. n - 1, t[i] = t[j] PROVE i = j
    BY <1>2
  <2>1. i \in 1 .. n /\ j \in 1 .. n /\ i + 1 \in 1 .. n /\ j + 1 \in 1 .. n
    BY <1>1
  <2>2. t[i] = (IF i < k THEN s[i] ELSE s[i + 1]) /\ t[j] = IF j < k THEN s[j] ELSE s[j + 1]
    BY <1>2
  <2>3. \A p, q \in 1 .. n : s[p] = s[q] => p = q
    BY <1>1
  <2>4. (IF i < k THEN i ELSE i + 1) = IF j < k THEN j ELSE j + 1
    BY <2>1, <2>2, <2>3
  <2> QED
    BY <1>4, <2>1, <2>4
<1>14. \A y \in Nodes : y \notin ToSet(s) /\ y \notin ToSet(t) =>
         g.next[y] = h.next[y] /\ g.prev[y] = h.prev[y]
  <2>1. ASSUME NEW y \in Nodes, y \notin ToSet(s)
        PROVE  y # x /\ (k > 1 => y # s[k - 1]) /\ (k < n => y # s[k + 1]) /\ y # s[1]
    <3>1. \A i \in 1 .. n : y # s[i]
      BY <1>1, <2>1 DEF ToSet
    <3> QED
      BY <1>1, <1>4, <1>x, <3>1
  <2> QED
    BY <1>3, <2>1
<1>15. /\ \A y \in ToSet(t) : y \in ToSet(s) \/ ~Listed(L, y)
       /\ \A y \in ToSet(s) : y \in ToSet(t) \/ Loose(g, y)
  BY <1>3, <1>12 DEF Loose
<1>16. \A b \in Nodes \ {a} : g.child[b] = h.child[b]
  BY <1>3
<1>17. Shape(g, [L EXCEPT ![a] = t])
  <2>1. t \in Seq(Nodes) /\ g \in Heaps
    BY <1>2, <1>3
  <2> QED
    BY <2>1, <1>11, <1>13, <1>14, <1>15, <1>16, OneList DEF s
<1> QED
  BY <1>17 DEF s, t, g, x

\* What cJSON_InsertItemInArray writes when there is an item to insert before.
LEMMA InsertWrites ==
  ASSUME NEW h, NEW L, Shape(h, L), NEW a \in Nodes, NEW which \in Nat,
         which + 1 \in 1 .. Len(L[a]), NEW x \in Nodes, ~Listed(L, x)
  PROVE  LET s == L[a]
             k == which + 1
             g == Insert(h, a, which, x)
         IN /\ g \in Heaps
            /\ \A b \in Nodes : g.child[b] = IF k = 1 /\ b = a THEN x ELSE h.child[b]
            /\ \A y \in Nodes : g.next[y] = IF y = x THEN s[k]
                                            ELSE IF k > 1 /\ y = s[k - 1] THEN x ELSE h.next[y]
            /\ \A y \in Nodes : g.prev[y] = IF y = x THEN h.prev[s[k]]
                                            ELSE IF y = s[k] THEN x ELSE h.prev[y]
<1> DEFINE s == L[a]
           n == Len(s)
           k == which + 1
           h1 == [h EXCEPT !.next[x] = s[k], !.prev[x] = h.prev[s[k]], !.prev[s[k]] = x]
           g == IF s[k] = h.child[a] THEN [h1 EXCEPT !.child[a] = x]
                ELSE [h1 EXCEPT !.next[h1.prev[x]] = x]
<1>1. /\ s \in Seq(Nodes) /\ n \in Nat /\ DOMAIN s = 1 .. n
      /\ \A i \in 1 .. n : s[i] \in Nodes /\ s[i] # NULL /\ Listed(L, s[i])
      /\ Linked(h, a, s)
      /\ \A i, j \in 1 .. n : s[i] = s[j] => i = j
      /\ s = <<>> <=> n = 0
      /\ h \in Heaps
  BY ListFacts
<1>2. get_array_item(h, a, which) = s[k]
  BY <1>1, ListIs DEF get_array_item
<1>3. /\ k \in 1 .. n /\ s[k] \in Nodes /\ s[k] # NULL /\ s[k] # x /\ h.child[a] = s[1]
      /\ h.prev[s[k]] = IF k = 1 THEN s[n] ELSE s[k - 1]
      /\ h.prev[s[k]] \in Nodes /\ (s[k] = s[1] <=> k = 1)
      /\ k # 1 => s[k - 1] \in Nodes /\ s[k - 1] # x
  <2>1. k \in 1 .. n /\ 1 \in 1 .. n /\ n \in 1 .. n /\ n # 0
    BY <1>1
  <2>2. k # 1 => k - 1 \in 1 .. n
    BY <1>1, <2>1
  <2>3. \A i \in 1 .. n : s[i] # x
    BY <1>1
  <2>4. h.child[a] = s[1] /\ h.prev[s[k]] = IF k = 1 THEN s[n] ELSE s[k - 1]
    BY <1>1, <2>1 DEF Linked
  <2> HIDE DEF s, n, k
  <2> QED
    BY <1>1, <2>1, <2>2, <2>3, <2>4
<1>4. Insert(h, a, which, x) = g
  BY <1>2, <1>3 DEF Insert
<1> HIDE DEF s, n, k
<1>5. /\ h1 \in Heaps /\ h1.child = h.child
      /\ \A y \in Nodes : h1.next[y] = IF y = x THEN s[k] ELSE h.next[y]
      /\ \A y \in Nodes : h1.prev[y] = IF y = s[k] THEN x ELSE IF y = x THEN h.prev[s[k]] ELSE h.prev[y]
  BY <1>1, <1>3 DEF Heaps, Pointers
<1>6. h1.prev[x] = h.prev[s[k]]
  BY <1>3, <1>5
<1> HIDE DEF h1
<1>7. /\ g \in Heaps /\ g.prev = h1.prev
      /\ \A b \in Nodes : g.child[b] = IF k = 1 /\ b = a THEN x ELSE h.child[b]
      /\ \A y \in Nodes : g.next[y] = IF k # 1 /\ y = s[k - 1] THEN x ELSE h1.next[y]
  <2>1. CASE k = 1
    <3>1. g = [h1 EXCEPT !.child[a] = x]
      BY <1>3, <2>1
    <3> HIDE DEF g
    <3> QED
      BY <1>5, <2>1, <3>1, SetChild
  <2>2. CASE k # 1
    <3>1. g = [h1 EXCEPT !.next[s[k - 1]] = x]
      BY <1>3, <1>6, <2>2
    <3> HIDE DEF g
    <3> QED
      BY <1>3, <1>5, <2>2, <3>1, SetNext
  <2> QED
    BY <2>1, <2>2
<1> HIDE DEF g
<1>8. k > 1 <=> k # 1
  BY <1>1, <1>3
<1>9. /\ \A y \in Nodes : g.next[y] = IF y = x THEN s[k]
                                      ELSE IF k > 1 /\ y = s[k - 1] THEN x ELSE h.next[y]
      /\ \A y \in Nodes : g.prev[y] = IF y = x THEN h.prev[s[k]]
                                      ELSE IF y = s[k] THEN x ELSE h.prev[y]
  BY <1>3, <1>5, <1>7, <1>8
<1> QED
  BY <1>4, <1>7, <1>9 DEF s, n, k

\* Inserting what is in no list before an item.
LEMMA InsertLinks ==
  ASSUME NEW h, NEW L, Shape(h, L), NEW a \in Nodes, NEW which \in Nat,
         which + 1 \in 1 .. Len(L[a]), NEW x \in Nodes, ~Listed(L, x)
  PROVE  Shape(Insert(h, a, which, x), [L EXCEPT ![a] = InsertAt(L[a], which + 1, x)])
<1> DEFINE s == L[a]
           n == Len(s)
           k == which + 1
           t == InsertAt(s, k, x)
           g == Insert(h, a, which, x)
<1>1. /\ s \in Seq(Nodes) /\ n \in Nat /\ DOMAIN s = 1 .. n
      /\ \A i \in 1 .. n : s[i] \in Nodes /\ s[i] # NULL /\ Listed(L, s[i])
      /\ Linked(h, a, s)
      /\ \A i, j \in 1 .. n : s[i] = s[j] => i = j
      /\ s = <<>> <=> n = 0
      /\ h \in Heaps
  BY ListFacts
<1>4. k \in 1 .. n /\ k \in 1 .. n + 1
  BY <1>1
<1>2. /\ t \in Seq(Nodes) /\ Len(t) = n + 1 /\ DOMAIN t = 1 .. n + 1
      /\ \A i \in 1 .. n + 1 : t[i] = IF i < k THEN s[i] ELSE IF i = k THEN x ELSE s[i - 1]
  <2>1. s \in Seq(Nodes) /\ k \in 1 .. Len(s) + 1
    BY <1>1, <1>4
  <2> HIDE DEF k, s, n
  <2>2. /\ t \in Seq(Nodes) /\ Len(t) = Len(s) + 1 /\ DOMAIN t = 1 .. Len(s) + 1
        /\ \A i \in 1 .. Len(s) + 1 : t[i] = IF i < k THEN s[i] ELSE IF i = k THEN x ELSE s[i - 1]
    BY <2>1, InsertIs
  <2> QED
    BY <2>2 DEF n
<1>3. /\ g \in Heaps
      /\ \A b \in Nodes : g.child[b] = IF k = 1 /\ b = a THEN x ELSE h.child[b]
      /\ \A y \in Nodes : g.next[y] = IF y = x THEN s[k]
                                      ELSE IF k > 1 /\ y = s[k - 1] THEN x ELSE h.next[y]
      /\ \A y \in Nodes : g.prev[y] = IF y = x THEN h.prev[s[k]]
                                      ELSE IF y = s[k] THEN x ELSE h.prev[y]
  BY InsertWrites
<1>5. \A i \in 1 .. n : /\ h.next[s[i]] = IF i = n THEN NULL ELSE s[i + 1]
                        /\ h.prev[s[i]] = IF i = 1 THEN s[n] ELSE s[i - 1]
  BY <1>1 DEF Linked
<1>6. h.child[a] = s[1]
  BY <1>1, <1>4 DEF Linked
<1>x. \A i \in 1 .. n : s[i] # x
  BY <1>1
<1> HIDE DEF g, t, s, n, k
<1>7. t # <<>> /\ g.child[a] = t[1]
  <2>1. t # <<>>
    BY <1>1, <1>2, EmptySeq
  <2>2. CASE k = 1
    BY <1>1, <1>2, <1>3, <1>4, <2>2
  <2>3. CASE k # 1
    BY <1>1, <1>2, <1>3, <1>4, <1>6, <2>3
  <2> QED
    BY <2>1, <2>2, <2>3
<1>9. ASSUME NEW i \in 1 .. n + 1
      PROVE  g.next[t[i]] = IF i = n + 1 THEN NULL ELSE t[i + 1]
  <2>1. CASE i < k
    <3>1. /\ t[i] = s[i] /\ i \in 1 .. n /\ s[i] # x /\ s[i] \in Nodes /\ i # n + 1 /\ i + 1 \in 1 .. n + 1
          /\ k - 1 \in 1 .. n /\ k > 1
      BY <1>1, <1>2, <1>4, <1>x, <2>1
    <3>2. CASE i = k - 1
      <4>1. t[i + 1] = x
        BY <1>1, <1>2, <1>4, <3>1, <3>2
      <4> QED
        BY <1>3, <3>1, <3>2, <4>1
    <3>3. CASE i # k - 1
      <4>1. s[i] # s[k - 1] /\ t[i + 1] = s[i + 1] /\ i # n
        BY <1>1, <1>2, <1>4, <2>1, <3>1, <3>3
      <4>2. g.next[s[i]] = h.next[s[i]]
        BY <1>3, <3>1, <4>1
      <4> QED
        BY <1>5, <3>1, <4>1, <4>2
    <3> QED
      BY <3>2, <3>3
  <2>2. CASE i = k
    <3>1. t[i] = x /\ i # n + 1 /\ t[i + 1] = s[k]
      BY <1>1, <1>2, <1>4, <2>2
    <3> QED
      BY <1>3, <3>1
  <2>3. CASE i > k
    <3>1. t[i] = s[i - 1] /\ i - 1 \in 1 .. n /\ s[i - 1] # x /\ s[i - 1] \in Nodes
      BY <1>1, <1>2, <1>4, <1>x, <2>3
    <3>2. k > 1 => s[i - 1] # s[k - 1]
      BY <1>1, <1>4, <2>3, <3>1
    <3>3. g.next[t[i]] = IF i - 1 = n THEN NULL ELSE s[i - 1 + 1]
      <4>1. g.next[s[i - 1]] = h.next[s[i - 1]]
        BY <1>3, <3>1, <3>2
      <4>2. h.next[s[i - 1]] = IF i - 1 = n THEN NULL ELSE s[i - 1 + 1]
        BY <1>5, <3>1
      <4> QED
        BY <3>1, <4>1, <4>2
    <3>4. i # n + 1 => t[i + 1] = s[i - 1 + 1]
      BY <1>1, <1>2, <1>4, <2>3
    <3> QED
      BY <1>1, <3>3, <3>4
  <2> QED
    BY <1>1, <1>4, <2>1, <2>2, <2>3
<1>10. ASSUME NEW i \in 1 .. n + 1
       PROVE  g.prev[t[i]] = IF i = 1 THEN t[n + 1] ELSE t[i - 1]
  <2>0. t[n + 1] = s[n] /\ n \in 1 .. n
    BY <1>1, <1>2, <1>4
  <2>1. CASE i = 1 /\ k = 1
    <3>1. t[i] = x /\ h.prev[s[k]] = s[n]
      BY <1>1, <1>2, <1>4, <1>5, <2>1
    <3> QED
      BY <1>3, <2>0, <2>1, <3>1
  <2>2. CASE i = 1 /\ k # 1
    <3>1. t[i] = s[1] /\ 1 \in 1 .. n /\ s[1] # x /\ s[1] \in Nodes /\ s[1] # s[k]
      BY <1>1, <1>2, <1>4, <1>x, <2>2
    <3> QED
      BY <1>3, <1>5, <2>0, <2>2, <3>1
  <2>3. CASE i # 1 /\ i < k
    <3>1. t[i] = s[i] /\ t[i - 1] = s[i - 1] /\ i \in 1 .. n /\ s[i] # x /\ s[i] \in Nodes /\ s[i] # s[k]
      BY <1>1, <1>2, <1>4, <1>x, <2>3
    <3> QED
      BY <1>3, <1>5, <2>3, <3>1
  <2>4. CASE i # 1 /\ i = k
    <3>1. t[i] = x /\ t[i - 1] = s[k - 1] /\ h.prev[s[k]] = s[k - 1]
      BY <1>1, <1>2, <1>4, <1>5, <2>4
    <3> QED
      BY <1>3, <2>4, <3>1
  <2>5. CASE i # 1 /\ i > k
    <3>1. t[i] = s[i - 1] /\ i - 1 \in 1 .. n /\ s[i - 1] # x /\ s[i - 1] \in Nodes
      BY <1>1, <1>2, <1>4, <1>x, <2>5
    <3>2. CASE i = k + 1
      <4>1. s[i - 1] = s[k] /\ t[i - 1] = x
        BY <1>1, <1>2, <1>4, <3>2
      <4> QED
        BY <1>3, <2>5, <3>1, <4>1
    <3>3. CASE i # k + 1
      <4>1. s[i - 1] # s[k] /\ t[i - 1] = s[i - 1 - 1] /\ i - 1 # 1
        BY <1>1, <1>2, <1>4, <2>5, <3>1, <3>3
      <4> QED
        BY <1>3, <1>5, <2>5, <3>1, <4>1
    <3> QED
      BY <3>2, <3>3
  <2> QED
    BY <1>1, <1>4, <2>1, <2>2, <2>3, <2>4, <2>5
<1>11. Linked(g, a, t)
  BY <1>2, <1>7, <1>9, <1>10 DEF Linked
<1>12. ToSet(t) = ToSet(s) \cup {x}
  <2>1. ASSUME NEW y \in ToSet(s) PROVE y \in ToSet(t)
    <3>1. PICK i \in 1 .. n : y = s[i]
      BY <1>1, <2>1 DEF ToSet
    <3>2. CASE i < k
      BY <1>1, <1>2, <1>4, <3>1, <3>2 DEF ToSet
    <3>3. CASE ~(i < k)
      <4>1. i + 1 \in 1 .. n + 1 /\ t[i + 1] = s[i]
        BY <1>1, <1>2, <1>4, <3>3
      <4> QED
        BY <1>2, <3>1, <4>1 DEF ToSet
    <3> QED
      BY <3>2, <3>3
  <2>2. ASSUME NEW y \in ToSet(t), y # x PROVE y \in ToSet(s)
    <3>1. PICK i \in 1 .. n + 1 : y = t[i]
      BY <1>2, <2>2 DEF ToSet
    <3>2. CASE i < k
      <4>1. i \in 1 .. n /\ y = s[i]
        BY <1>1, <1>2, <1>4, <3>1, <3>2
      <4> QED
        BY <1>1, <4>1 DEF ToSet
    <3>3. CASE ~(i < k)
      <4>1. i - 1 \in 1 .. n /\ y = s[i - 1]
        BY <1>1, <1>2, <1>4, <2>2, <3>1, <3>3
      <4> QED
        BY <1>1, <4>1 DEF ToSet
    <3> QED
      BY <3>2, <3>3
  <2>3. x \in ToSet(t)
    BY <1>1, <1>2, <1>4 DEF ToSet
  <2> QED
    BY <2>1, <2>2, <2>3
<1>13. \A i, j \in DOMAIN t : t[i] = t[j] => i = j
  <2> SUFFICES ASSUME NEW i \in 1 .. n + 1, NEW j \in 1 .. n + 1, t[i] = t[j] PROVE i = j
    BY <1>2
  <2>1. /\ i < k => i \in 1 .. n
        /\ j < k => j \in 1 .. n
        /\ i > k => i - 1 \in 1 .. n
        /\ j > k => j - 1 \in 1 .. n
    BY <1>1, <1>4
  <2>2. /\ t[i] = IF i < k THEN s[i] ELSE IF i = k THEN x ELSE s[i - 1]
        /\ t[j] = IF j < k THEN s[j] ELSE IF j = k THEN x ELSE s[j - 1]
    BY <1>2
  <2>3. \A p, q \in 1 .. n : s[p] = s[q] => p = q
    BY <1>1
  <2>4. i \in Int /\ j \in Int /\ k \in Int
    BY <1>4
  <2>5. /\ i < k \/ i = k \/ i > k
        /\ j < k \/ j = k \/ j > k
        /\ i > k => i # k /\ ~(i < k)
        /\ j > k => j # k /\ ~(j < k)
        /\ i < k => i # k
        /\ j < k => j # k
    BY <2>4
  <2>6. (i # k => t[i] # x) /\ (j # k => t[j] # x) /\ (i = k => t[i] = x) /\ (j = k => t[j] = x)
    BY <1>x, <2>1, <2>2, <2>5
  <2>7. CASE i # k /\ j # k
    <3>1. CASE i < k /\ j < k
      BY <2>1, <2>2, <2>3, <3>1
    <3>2. CASE i > k /\ j > k
      <4>1. i - 1 = j - 1
        BY <2>1, <2>2, <2>3, <2>5, <3>2
      <4> QED
        BY <2>4, <4>1
    <3>3. CASE i < k /\ j > k
      <4>1. i = j - 1
        BY <2>1, <2>2, <2>3, <2>5, <3>3
      <4> QED
        BY <2>4, <3>3, <4>1
    <3>4. CASE i > k /\ j < k
      <4>1. i - 1 = j
        BY <2>1, <2>2, <2>3, <2>5, <3>4
      <4> QED
        BY <2>4, <3>4, <4>1
    <3> QED
      BY <2>5, <2>7, <3>1, <3>2, <3>3, <3>4
  <2> QED
    BY <2>6, <2>7
<1>14. \A y \in Nodes : y \notin ToSet(s) /\ y \notin ToSet(t) =>
         g.next[y] = h.next[y] /\ g.prev[y] = h.prev[y]
  <2>1. ASSUME NEW y \in Nodes, y \notin ToSet(s)
        PROVE  (k > 1 => y # s[k - 1]) /\ y # s[k]
    <3>1. \A i \in 1 .. n : y # s[i]
      BY <1>1, <2>1 DEF ToSet
    <3> QED
      BY <1>1, <1>4, <3>1
  <2> QED
    BY <1>3, <1>12, <2>1
<1>15. /\ \A y \in ToSet(t) : y \in ToSet(s) \/ ~Listed(L, y)
       /\ \A y \in ToSet(s) : y \in ToSet(t) \/ Loose(g, y)
  BY <1>12
<1>16. \A b \in Nodes \ {a} : g.child[b] = h.child[b]
  BY <1>3
<1>17. Shape(g, [L EXCEPT ![a] = t])
  <2>1. t \in Seq(Nodes) /\ g \in Heaps
    BY <1>2, <1>3
  <2> QED
    BY <2>1, <1>11, <1>13, <1>14, <1>15, <1>16, OneList DEF s
<1> QED
  BY <1>17 DEF s, t, g, k

\* A sequence with another item at a place.
LEMMA ReplaceIs ==
  ASSUME NEW s \in Seq(Nodes), NEW x \in Nodes, NEW k \in 1 .. Len(s)
  PROVE  /\ ReplaceAt(s, k, x) \in Seq(Nodes)
         /\ Len(ReplaceAt(s, k, x)) = Len(s)
         /\ DOMAIN ReplaceAt(s, k, x) = 1 .. Len(s)
         /\ \A i \in 1 .. Len(s) : ReplaceAt(s, k, x)[i] = IF i = k THEN x ELSE s[i]
BY DEF ReplaceAt

\* What cJSON_ReplaceItemViaPointer writes.
LEMMA RelinkWrites ==
  ASSUME NEW h, NEW L, Shape(h, L), NEW a \in Nodes, NEW k \in 1 .. Len(L[a]),
         NEW r \in Nodes, ~Listed(L, r)
  PROVE  LET s == L[a]
             n == Len(s)
             x == s[k]
             g == Relink(h, a, x, r)
         IN /\ g \in Heaps
            /\ \A b \in Nodes : g.child[b] = IF k = 1 /\ b = a THEN r ELSE h.child[b]
            /\ \A y \in Nodes : g.next[y] = IF y = x THEN NULL ELSE IF y = r THEN h.next[x]
                 ELSE IF k # 1 /\ y = s[k - 1] THEN r ELSE h.next[y]
            /\ \A y \in Nodes : g.prev[y] = IF y = x THEN NULL
                 ELSE IF y = r THEN (IF n = 1 THEN r ELSE h.prev[x])
                 ELSE IF (k # n /\ y = s[k + 1]) \/ (k = n /\ k # 1 /\ y = s[1]) THEN r
                 ELSE h.prev[y]
<1> DEFINE s == L[a]
           n == Len(s)
           x == s[k]
           h1 == [h EXCEPT !.next[r] = h.next[x], !.prev[r] = h.prev[x]]
           h2 == IF h1.next[r] # NULL THEN [h1 EXCEPT !.prev[h1.next[r]] = r] ELSE h1
           c == h2.child[a]
           h4 == IF h2.prev[r] # NULL THEN [h2 EXCEPT !.next[h2.prev[r]] = r] ELSE h2
           h3 == IF c = x
                 THEN [h2 EXCEPT !.prev[r] = IF h2.prev[c] = c THEN r ELSE @, !.child[a] = r]
                 ELSE IF h4.next[r] = NULL THEN [h4 EXCEPT !.prev[c] = r] ELSE h4
           g == [h3 EXCEPT !.next[x] = NULL, !.prev[x] = NULL]
<1>0. Relink(h, a, x, r) = g
  BY DEF Relink
<1>1. /\ s \in Seq(Nodes) /\ n \in Nat /\ DOMAIN s = 1 .. n
      /\ \A i \in 1 .. n : s[i] \in Nodes /\ s[i] # NULL /\ Listed(L, s[i])
      /\ Linked(h, a, s)
      /\ \A i, j \in 1 .. n : s[i] = s[j] => i = j
      /\ s = <<>> <=> n = 0
      /\ h \in Heaps
  BY ListFacts
<1>2. /\ k \in 1 .. n /\ x \in Nodes /\ x # NULL /\ s # <<>> /\ h.child[a] = s[1] /\ x # r
      /\ h.next[x] = IF k = n THEN NULL ELSE s[k + 1]
      /\ h.prev[x] = IF k = 1 THEN s[n] ELSE s[k - 1]
      /\ s[1] \in Nodes /\ s[n] \in Nodes /\ (k # n => s[k + 1] \in Nodes /\ s[k + 1] # x /\ s[k + 1] # r)
      /\ (k # 1 => s[k - 1] \in Nodes /\ s[k - 1] # x /\ s[k - 1] # r) /\ (x = s[1] <=> k = 1)
      /\ s[1] # NULL /\ s[1] # r /\ (k # n => s[k + 1] # NULL)
      /\ h.next[x] \in Nodes \cup {NULL} /\ h.prev[x] \in Nodes /\ h.prev[x] # NULL
      /\ k = 1 => (h.prev[x] = x <=> n = 1)
  <2>1. k \in 1 .. n /\ 1 \in 1 .. n /\ n \in 1 .. n /\ k \in DOMAIN s /\ n # 0
    BY <1>1
  <2>2. k # n => k + 1 \in 1 .. n /\ k + 1 # k
    BY <1>1, <2>1
  <2>3. k # 1 => k - 1 \in 1 .. n /\ k - 1 # k
    BY <1>1, <2>1
  <2>4. /\ h.next[x] = IF k = n THEN NULL ELSE s[k + 1]
        /\ h.prev[x] = IF k = 1 THEN s[n] ELSE s[k - 1]
    BY <1>1, <2>1 DEF Linked
  <2>5. s # <<>> /\ h.child[a] = s[1]
    BY <1>1, <2>1 DEF Linked
  <2>6. \A i \in 1 .. n : s[i] # r
    BY <1>1
  <2> HIDE DEF s, n
  <2> QED
    BY <1>1, <2>1, <2>2, <2>3, <2>4, <2>5, <2>6
<1> HIDE DEF s, n, x
<1>3. /\ h1 \in Heaps /\ h1.child = h.child
      /\ \A y \in Nodes : h1.next[y] = IF y = r THEN h.next[x] ELSE h.next[y]
      /\ \A y \in Nodes : h1.prev[y] = IF y = r THEN h.prev[x] ELSE h.prev[y]
  BY <1>1, <1>2 DEF Heaps, Pointers
<1> HIDE DEF h1
<1>4. /\ h2 \in Heaps /\ h2.child = h.child /\ h2.next = h1.next
      /\ \A y \in Nodes : h2.prev[y] = IF k # n /\ y = s[k + 1] THEN r ELSE h1.prev[y]
  <2>0. h1.next[r] = h.next[x]
    BY <1>3
  <2>1. CASE k = n
    <3>1. h2 = h1
      BY <1>2, <2>0, <2>1
    <3> HIDE DEF h2
    <3> QED
      BY <1>3, <2>1, <3>1
  <2>2. CASE k # n
    <3>1. h2 = [h1 EXCEPT !.prev[s[k + 1]] = r]
      BY <1>2, <2>0, <2>2
    <3> HIDE DEF h2
    <3> QED
      BY <1>2, <1>3, <2>2, <3>1, SetPrev
  <2> QED
    BY <2>1, <2>2
<1> HIDE DEF h2
<1>5. c = s[1] /\ h2.prev[r] = h.prev[x] /\ h2.prev[x] = h.prev[x] /\ h2.next[r] = h.next[x]
  BY <1>2, <1>3, <1>4
<1> HIDE DEF c
<1>6. /\ h3 \in Heaps
      /\ \A b \in Nodes : h3.child[b] = IF k = 1 /\ b = a THEN r ELSE h.child[b]
      /\ \A y \in Nodes : h3.next[y] = IF k # 1 /\ y = s[k - 1] THEN r ELSE h2.next[y]
      /\ \A y \in Nodes : h3.prev[y] = IF k = 1 /\ n = 1 /\ y = r THEN r
                                       ELSE IF k # 1 /\ k = n /\ y = s[1] THEN r ELSE h2.prev[y]
  <2>1. CASE k = 1
    <3>1. h3 = [h2 EXCEPT !.prev[r] = IF n = 1 THEN r ELSE @, !.child[a] = r]
      BY <1>2, <1>5, <2>1
    <3> HIDE DEF h3
    <3>2. h3 = [h2 EXCEPT !.prev[r] = IF n = 1 THEN r ELSE h.prev[x], !.child[a] = r]
      BY <1>4, <1>5, <3>1 DEF Heaps
    <3>3. /\ h3 \in Heaps /\ h3.next = h2.next
          /\ \A b \in Nodes : h3.child[b] = IF b = a THEN r ELSE h2.child[b]
          /\ \A y \in Nodes : h3.prev[y] = IF y = r THEN (IF n = 1 THEN r ELSE h.prev[x]) ELSE h2.prev[y]
      BY <1>2, <1>4, <3>2 DEF Heaps, Pointers
    <3> QED
      BY <1>4, <1>5, <2>1, <3>3
  <2>2. CASE k # 1
    <3>1. h4 = [h2 EXCEPT !.next[s[k - 1]] = r]
      BY <1>2, <1>5, <2>2
    <3> HIDE DEF h4
    <3>2. /\ h4 \in Heaps /\ h4.child = h.child /\ h4.prev = h2.prev
          /\ \A y \in Nodes : h4.next[y] = IF y = s[k - 1] THEN r ELSE h2.next[y]
      <4>1. s[k - 1] \in Nodes /\ r \in Nodes \cup {NULL} /\ h2 \in Heaps /\ h2.child = h.child
        BY <1>2, <1>4, <2>2
      <4> QED
        BY <3>1, <4>1, SetNext
    <3>3. h4.next[r] = h.next[x]
      BY <1>2, <1>5, <2>2, <3>2
    <3>4. CASE k = n
      <4>1. h3 = [h4 EXCEPT !.prev[s[1]] = r]
        BY <1>2, <1>5, <2>2, <3>3, <3>4
      <4> HIDE DEF h3
      <4> QED
        BY <1>2, <2>2, <3>2, <3>4, <4>1, SetPrev
    <3>5. CASE k # n
      <4>1. h3 = h4
        BY <1>2, <1>5, <2>2, <3>3, <3>5
      <4> HIDE DEF h3
      <4> QED
        BY <2>2, <3>2, <3>5, <4>1
    <3> QED
      BY <3>4, <3>5
  <2> QED
    BY <2>1, <2>2
<1> HIDE DEF h3
<1>7. /\ g \in Heaps /\ g.child = h3.child
      /\ \A y \in Nodes : g.next[y] = IF y = x THEN NULL ELSE h3.next[y]
      /\ \A y \in Nodes : g.prev[y] = IF y = x THEN NULL ELSE h3.prev[y]
  BY <1>2, <1>6 DEF Heaps, Pointers
<1> HIDE DEF g
<1>8. n = 1 => k = 1
  BY <1>2
<1>9. /\ \A b \in Nodes : g.child[b] = IF k = 1 /\ b = a THEN r ELSE h.child[b]
      /\ \A y \in Nodes : g.next[y] = IF y = x THEN NULL ELSE IF y = r THEN h.next[x]
           ELSE IF k # 1 /\ y = s[k - 1] THEN r ELSE h.next[y]
      /\ \A y \in Nodes : g.prev[y] = IF y = x THEN NULL
           ELSE IF y = r THEN (IF n = 1 THEN r ELSE h.prev[x])
           ELSE IF (k # n /\ y = s[k + 1]) \/ (k = n /\ k # 1 /\ y = s[1]) THEN r
           ELSE h.prev[y]
  <2>1. \A b \in Nodes : g.child[b] = IF k = 1 /\ b = a THEN r ELSE h.child[b]
    BY <1>6, <1>7
  <2>2. \A y \in Nodes : g.next[y] = IF y = x THEN NULL ELSE IF y = r THEN h.next[x]
           ELSE IF k # 1 /\ y = s[k - 1] THEN r ELSE h.next[y]
    BY <1>2, <1>3, <1>4, <1>6, <1>7
  <2>3. ASSUME NEW y \in Nodes
        PROVE  g.prev[y] = IF y = x THEN NULL
           ELSE IF y = r THEN (IF n = 1 THEN r ELSE h.prev[x])
           ELSE IF (k # n /\ y = s[k + 1]) \/ (k = n /\ k # 1 /\ y = s[1]) THEN r
           ELSE h.prev[y]
    <3>1. CASE y = x
      BY <1>7, <3>1
    <3>3. CASE y # x /\ y = r
      <4>1. g.prev[r] = h3.prev[r]
        BY <1>7, <3>3
      <4> QED
        BY <1>2, <1>3, <1>4, <1>6, <1>8, <3>3, <4>1
    <3>2. CASE y # x /\ y # r
      <4>1. g.prev[y] = IF k # 1 /\ k = n /\ y = s[1] THEN r ELSE h2.prev[y]
        BY <1>6, <1>7, <3>2
      <4>2. h2.prev[y] = IF k # n /\ y = s[k + 1] THEN r ELSE h.prev[y]
        BY <1>3, <1>4, <3>2
      <4> QED
        BY <3>2, <4>1, <4>2
    <3> QED
      BY <3>1, <3>2, <3>3
  <2> QED
    BY <2>1, <2>2, <2>3, Zenon
<1> QED
  BY <1>0, <1>7, <1>9 DEF s, n, x

\* Replacing an item by what is in no list.
LEMMA RelinkLinks ==
  ASSUME NEW h, NEW L, Shape(h, L), NEW a \in Nodes, NEW k \in 1 .. Len(L[a]),
         NEW r \in Nodes, ~Listed(L, r)
  PROVE  Shape(Relink(h, a, L[a][k], r), [L EXCEPT ![a] = ReplaceAt(L[a], k, r)])
<1> DEFINE s == L[a]
           n == Len(s)
           x == s[k]
           t == ReplaceAt(s, k, r)
           g == Relink(h, a, x, r)
<1>1. /\ s \in Seq(Nodes) /\ n \in Nat /\ DOMAIN s = 1 .. n
      /\ \A i \in 1 .. n : s[i] \in Nodes /\ s[i] # NULL /\ Listed(L, s[i])
      /\ Linked(h, a, s)
      /\ \A i, j \in 1 .. n : s[i] = s[j] => i = j
      /\ s = <<>> <=> n = 0
      /\ h \in Heaps
  BY ListFacts
<1>2. /\ t \in Seq(Nodes) /\ Len(t) = n /\ DOMAIN t = 1 .. n
      /\ \A i \in 1 .. n : t[i] = IF i = k THEN r ELSE s[i]
  BY <1>1, ReplaceIs
<1>3. /\ g \in Heaps
      /\ \A b \in Nodes : g.child[b] = IF k = 1 /\ b = a THEN r ELSE h.child[b]
      /\ \A y \in Nodes : g.next[y] = IF y = x THEN NULL ELSE IF y = r THEN h.next[x]
           ELSE IF k # 1 /\ y = s[k - 1] THEN r ELSE h.next[y]
      /\ \A y \in Nodes : g.prev[y] = IF y = x THEN NULL
           ELSE IF y = r THEN (IF n = 1 THEN r ELSE h.prev[x])
           ELSE IF (k # n /\ y = s[k + 1]) \/ (k = n /\ k # 1 /\ y = s[1]) THEN r
           ELSE h.prev[y]
  BY RelinkWrites
<1>4. k \in 1 .. n /\ x \in Nodes /\ 1 \in 1 .. n /\ n \in 1 .. n
  BY <1>1
<1>5. \A i \in 1 .. n : /\ h.next[s[i]] = IF i = n THEN NULL ELSE s[i + 1]
                        /\ h.prev[s[i]] = IF i = 1 THEN s[n] ELSE s[i - 1]
  BY <1>1 DEF Linked
<1>6. h.child[a] = s[1]
  BY <1>1, <1>4 DEF Linked
<1>r. \A i \in 1 .. n : s[i] # r
  BY <1>1
<1> HIDE DEF g, t, x
<1>x. x = s[k] /\ x # r /\ \A i \in 1 .. n : s[i] = x => i = k
  BY <1>1, <1>4, <1>r DEF x
<1> HIDE DEF s, n
<1>7. t # <<>> /\ g.child[a] = t[1]
  <2>1. t # <<>>
    BY <1>2, <1>4, EmptySeq
  <2> QED
    BY <1>2, <1>3, <1>4, <1>6, <2>1
<1>9. ASSUME NEW i \in 1 .. n
      PROVE  g.next[t[i]] = IF i = n THEN NULL ELSE t[i + 1]
  <2>1. CASE i = k
    <3>1. i # n => i + 1 # k /\ i + 1 \in 1 .. n
      BY <1>1, <1>2, <2>1
    <3>2. g.next[r] = h.next[x] /\ t[i] = r
      BY <1>2, <1>3, <1>x, <2>1
    <3> QED
      BY <1>2, <1>5, <1>x, <2>1, <3>1, <3>2
  <2>2. CASE i # k
    <3>1. t[i] = s[i] /\ s[i] # x /\ s[i] # r /\ s[i] \in Nodes
      BY <1>1, <1>2, <1>r, <1>x, <2>2
    <3>2. k # 1 => k - 1 \in 1 .. n
      BY <1>1, <1>4
    <3>3. CASE k # 1 /\ i = k - 1
      <4>1. i + 1 = k /\ i # n
        BY <1>1, <1>4, <3>3
      <4> QED
        BY <1>2, <1>3, <1>4, <3>1, <3>3, <4>1
    <3>4. CASE ~(k # 1 /\ i = k - 1)
      <4>1. k # 1 => s[i] # s[k - 1]
        BY <1>1, <3>2, <3>4
      <4>2. g.next[t[i]] = IF i = n THEN NULL ELSE s[i + 1]
        BY <1>3, <1>5, <3>1, <4>1
      <4>3. i # n => i + 1 \in 1 .. n /\ i + 1 # k
        BY <1>1, <1>4, <3>4
      <4> QED
        BY <1>2, <4>2, <4>3
    <3> QED
      BY <3>3, <3>4
  <2> QED
    BY <2>1, <2>2
<1>10. ASSUME NEW i \in 1 .. n
       PROVE  g.prev[t[i]] = IF i = 1 THEN t[n] ELSE t[i - 1]
  <2>1. CASE i = k
    <3>1. t[i] = r /\ g.prev[r] = (IF n = 1 THEN r ELSE h.prev[x])
          /\ h.prev[x] = IF k = 1 THEN s[n] ELSE s[k - 1]
      BY <1>2, <1>3, <1>4, <1>5, <1>x, <2>1
    <3>2. CASE n = 1
      <4>1. i = 1 /\ t[n] = r
        BY <1>2, <1>4, <2>1, <3>2
      <4> QED
        BY <3>1, <3>2, <4>1
    <3>3. CASE n # 1 /\ k = 1
      BY <1>2, <1>4, <2>1, <3>1, <3>3
    <3>4. CASE n # 1 /\ k # 1
      <4>1. k - 1 \in 1 .. n /\ k - 1 # k
        BY <1>1, <1>4, <3>4
      <4> QED
        BY <1>2, <2>1, <3>1, <3>4, <4>1
    <3> QED
      BY <3>2, <3>3, <3>4
  <2>2. CASE i # k
    <3>1. t[i] = s[i] /\ s[i] # x /\ s[i] # r /\ s[i] \in Nodes
      BY <1>1, <1>2, <1>r, <1>x, <2>2
    <3>2. k # n => k + 1 \in 1 .. n
      BY <1>1, <1>4
    <3>3. CASE k # n /\ i = k + 1
      <4>1. i - 1 = k /\ i # 1
        BY <1>1, <1>4, <3>3
      <4>2. g.prev[s[i]] = r
        BY <1>3, <3>1, <3>3
      <4> QED
        BY <1>2, <1>4, <3>1, <4>1, <4>2
    <3>4. CASE k = n /\ k # 1 /\ i = 1
      BY <1>2, <1>3, <1>4, <3>1, <3>4
    <3>5. CASE ~(k # n /\ i = k + 1) /\ ~(k = n /\ k # 1 /\ i = 1)
      <4>1. /\ k # n => s[i] # s[k + 1]
            /\ k = n /\ k # 1 => s[i] # s[1]
        BY <1>1, <1>4, <3>2, <3>5
      <4>2. g.prev[t[i]] = IF i = 1 THEN s[n] ELSE s[i - 1]
        BY <1>3, <1>5, <3>1, <4>1
      <4>3. i # 1 => i - 1 \in 1 .. n /\ i - 1 # k
        BY <1>1, <1>4, <3>5
      <4>4. i = 1 => n # k
        BY <2>2, <3>5
      <4> QED
        BY <1>2, <1>4, <4>2, <4>3, <4>4
    <3> QED
      BY <3>3, <3>4, <3>5
  <2> QED
    BY <2>1, <2>2
<1>11. Linked(g, a, t)
  BY <1>2, <1>7, <1>9, <1>10 DEF Linked
<1>12. /\ \A y \in ToSet(t) : y = r \/ (y \in ToSet(s) /\ y # x)
       /\ \A y \in ToSet(s) : y = x \/ y \in ToSet(t)
       /\ r \in ToSet(t) /\ x \in ToSet(s)
  <2>1. ASSUME NEW y \in ToSet(t) PROVE y = r \/ (y \in ToSet(s) /\ y # x)
    <3>1. PICK i \in 1 .. n : y = t[i]
      BY <1>2, <2>1 DEF ToSet
    <3> QED
      BY <1>1, <1>2, <1>x, <3>1 DEF ToSet
  <2>2. ASSUME NEW y \in ToSet(s) PROVE y = x \/ y \in ToSet(t)
    <3>1. PICK i \in 1 .. n : y = s[i]
      BY <1>1, <2>2 DEF ToSet
    <3> QED
      BY <1>2, <1>x, <3>1 DEF ToSet
  <2>3. r \in ToSet(t)
    BY <1>2, <1>4 DEF ToSet
  <2>4. x \in ToSet(s)
    BY <1>1, <1>4, <1>x DEF ToSet
  <2> QED
    BY <2>1, <2>2, <2>3, <2>4
<1>13. \A i, j \in DOMAIN t : t[i] = t[j] => i = j
  BY <1>1, <1>2, <1>r
<1>14. \A y \in Nodes : y \notin ToSet(s) /\ y \notin ToSet(t) =>
         g.next[y] = h.next[y] /\ g.prev[y] = h.prev[y]
  <2>1. ASSUME NEW y \in Nodes, y \notin ToSet(s)
        PROVE  y # x /\ (k # 1 => y # s[k - 1]) /\ (k # n => y # s[k + 1]) /\ y # s[1]
    <3>1. \A i \in 1 .. n : y # s[i]
      BY <1>1, <2>1 DEF ToSet
    <3> QED
      BY <1>1, <1>4, <1>x, <3>1
  <2> QED
    BY <1>3, <1>12, <2>1
<1>15. /\ \A y \in ToSet(t) : y \in ToSet(s) \/ ~Listed(L, y)
       /\ \A y \in ToSet(s) : y \in ToSet(t) \/ Loose(g, y)
  BY <1>3, <1>4, <1>12 DEF Loose
<1>16. \A b \in Nodes \ {a} : g.child[b] = h.child[b]
  BY <1>3
<1>17. Shape(g, [L EXCEPT ![a] = t])
  <2>1. t \in Seq(Nodes) /\ g \in Heaps
    BY <1>2, <1>3
  <2> QED
    BY <2>1, <1>11, <1>13, <1>14, <1>15, <1>16, OneList DEF s
<1> QED
  BY <1>17 DEF s, t, g, x

-----------------------------------------------------------------------------
(* What is below an item *)

\* With an item S has the items of its list.
Keeps(L, S) == \A p \in S : ToSet(L[p]) \subseteq S

\* An item and all below it in the lists of L.
Below(L, x) == {y \in Nodes : \A S \in SUBSET Nodes : x \in S /\ Keeps(L, S) => y \in S}

\* The lists of L have no cycle.
Ranks(rank, L) == \A a \in Nodes : \A y \in ToSet(L[a]) : rank[y] < rank[a]
Ranked(L) == \E rank \in [Nodes -> Nat] : Ranks(rank, L)

\* The items of a list are items.
LEMMA ItemsAreNodes ==
  ASSUME NEW L \in [Nodes -> Seq(Nodes)], NEW a \in Nodes
  PROVE  ToSet(L[a]) \subseteq Nodes
<1>1. L[a] \in Seq(Nodes)
  OBVIOUS
<1> QED
  BY <1>1, ElementOfSeq, LenProperties DEF ToSet

\* Below is the least set with the item that keeps the items of its items.
LEMMA BelowIs ==
  ASSUME NEW L \in [Nodes -> Seq(Nodes)], NEW x \in Nodes
  PROVE  /\ x \in Below(L, x) /\ Below(L, x) \subseteq Nodes
         /\ Keeps(L, Below(L, x))
         /\ \A S \in SUBSET Nodes : x \in S /\ Keeps(L, S) => Below(L, x) \subseteq S
<1>1. x \in Below(L, x) /\ Below(L, x) \subseteq Nodes
  BY DEF Below
<1>2. \A S \in SUBSET Nodes : x \in S /\ Keeps(L, S) => Below(L, x) \subseteq S
  BY DEF Below
<1>3. ASSUME NEW p \in Below(L, x), NEW y \in ToSet(L[p]) PROVE y \in Below(L, x)
  <2>1. p \in Nodes /\ y \in Nodes
    BY <1>1, <1>3, ItemsAreNodes
  <2>2. ASSUME NEW S \in SUBSET Nodes, x \in S, Keeps(L, S) PROVE y \in S
    <3>1. p \in S
      BY <1>2, <1>3, <2>2
    <3> QED
      BY <1>3, <2>2, <3>1 DEF Keeps
  <2> QED
    BY <2>1, <2>2 DEF Below
<1> QED
  BY <1>1, <1>2, <1>3 DEF Keeps

\* What is below an item is the item itself or in the list of another one below.
LEMMA BelowUp ==
  ASSUME NEW L \in [Nodes -> Seq(Nodes)], NEW x \in Nodes, NEW y \in Below(L, x), y # x
  PROVE  \E p \in Below(L, x) : y \in ToSet(L[p])
<1> DEFINE S == {z \in Below(L, x) : z = x \/ \E p \in Below(L, x) : z \in ToSet(L[p])}
<1>1. S \in SUBSET Nodes /\ x \in S
  BY BelowIs
<1>2. Keeps(L, S)
  BY BelowIs DEF Keeps
<1>3. y \in S
  <2> HIDE DEF S
  <2> QED
    BY <1>1, <1>2, BelowIs
<1> QED
  BY <1>3

\* Two forests that have the same lists below an item have the same below it.
LEMMA BelowSame ==
  ASSUME NEW L \in [Nodes -> Seq(Nodes)], NEW M \in [Nodes -> Seq(Nodes)], NEW x \in Nodes,
         \A p \in Below(L, x) : M[p] = L[p]
  PROVE  Below(M, x) = Below(L, x)
<1>1. Keeps(M, Below(L, x)) /\ Below(L, x) \in SUBSET Nodes /\ x \in Below(L, x)
  BY BelowIs DEF Keeps
<1>2. Below(M, x) \subseteq Below(L, x)
  BY <1>1, BelowIs
<1>3. Keeps(L, Below(M, x)) /\ Below(M, x) \in SUBSET Nodes /\ x \in Below(M, x)
  BY <1>2, BelowIs DEF Keeps
<1>4. Below(L, x) \subseteq Below(M, x)
  BY <1>3, BelowIs
<1> QED
  BY <1>2, <1>4

\* An item is not below one of its own.
LEMMA BelowRank ==
  ASSUME NEW L \in [Nodes -> Seq(Nodes)], NEW rank \in [Nodes -> Nat], Ranks(rank, L),
         NEW x \in Nodes, NEW y \in Below(L, x)
  PROVE  rank[y] <= rank[x]
<1> DEFINE S == {z \in Nodes : rank[z] <= rank[x]}
<1>1. S \in SUBSET Nodes /\ x \in S
  OBVIOUS
<1>2. ASSUME NEW p \in S, NEW z \in ToSet(L[p]) PROVE z \in S
  <2>1. p \in Nodes /\ z \in Nodes
    BY <1>2, ItemsAreNodes
  <2>2. rank[z] < rank[p] /\ rank[p] <= rank[x]
    BY <1>2, <2>1 DEF Ranks
  <2>3. rank[z] \in Nat /\ rank[p] \in Nat /\ rank[x] \in Nat
    BY <2>1
  <2> QED
    BY <2>1, <2>2, <2>3
<1> HIDE DEF S
<1>3. y \in S
  BY <1>1, <1>2, BelowIs DEF Keeps
<1> QED
  BY <1>3 DEF S

\* An item is not below one of its own list.
LEMMA NotBelowOwn ==
  ASSUME NEW L \in [Nodes -> Seq(Nodes)], Ranked(L), NEW a \in Nodes, NEW y \in ToSet(L[a])
  PROVE  a \notin Below(L, y)
<1>1. PICK rank \in [Nodes -> Nat] : Ranks(rank, L)
  BY DEF Ranked
<1>2. y \in Nodes
  BY ItemsAreNodes
<1>3. rank[y] < rank[a] /\ rank[y] \in Nat /\ rank[a] \in Nat
  BY <1>1, <1>2 DEF Ranks
<1>4. ~(rank[a] <= rank[y])
  BY <1>3
<1> QED
  BY <1>1, <1>2, <1>4, BelowRank

\* Shorter lists have no cycle either.
LEMMA RankedFewer ==
  ASSUME NEW L, Ranked(L), NEW M, \A a \in Nodes : ToSet(M[a]) \subseteq ToSet(L[a])
  PROVE  Ranked(M)
BY DEF Ranked, Ranks

\* Nor have the lists with an item more, put where it is not above.
LEMMA RankedPut ==
  ASSUME NEW L \in [Nodes -> Seq(Nodes)], Apart(L), Ranked(L),
         NEW x \in Nodes, ~Listed(L, x), NEW a \in Nodes, a \notin Below(L, x),
         NEW t \in Seq(Nodes), ToSet(t) \subseteq ToSet(L[a]) \cup {x}
  PROVE  Ranked([L EXCEPT ![a] = t])
<1> DEFINE M == [L EXCEPT ![a] = t]
           B == Below(L, x)
<1>1. PICK rank \in [Nodes -> Nat] : Ranks(rank, L)
  BY DEF Ranked
<1> DEFINE new == [y \in Nodes |-> IF y \in B THEN rank[y] ELSE rank[y] + rank[x] + 1]
<1>2. new \in [Nodes -> Nat]
  OBVIOUS
<1>3. ASSUME NEW b \in Nodes, NEW y \in ToSet(M[b]) PROVE new[y] < new[b]
  <2>1. y \in ToSet(L[b]) \/ (b = a /\ y = x)
    BY <1>3
  <2>2. y \in Nodes
    BY <2>1, ItemsAreNodes
  <2>n. rank[x] \in Nat /\ rank[y] \in Nat /\ rank[b] \in Nat
    BY <1>1, <2>2
  <2>3. CASE y \in ToSet(L[b])
    <3>1. rank[y] < rank[b]
      BY <1>1, <2>3 DEF Ranks
    <3>2. b \in B => y \in B
      BY <2>3, BelowIs DEF Keeps
    <3>3. y \in B => b \in B
      <4> SUFFICES ASSUME y \in B PROVE b \in B
        OBVIOUS
      <4>1. y # x
        BY <2>3 DEF Listed, ToSet
      <4>2. PICK p \in B : y \in ToSet(L[p])
        BY <4>1, BelowUp
      <4>3. p \in Nodes
        BY BelowIs
      <4>4. p = b
        BY <2>3, <4>2, <4>3 DEF Apart, ToSet
      <4> QED
        BY <4>2, <4>4
    <3> HIDE DEF B
    <3> QED
      BY <2>2, <2>n, <3>1, <3>2, <3>3
  <2>4. CASE b = a /\ y = x
    <3>1. x \in B /\ a \notin B
      BY BelowIs
    <3> HIDE DEF B
    <3> QED
      BY <2>n, <2>4, <3>1
  <2> QED
    BY <2>1, <2>3, <2>4
<1> HIDE DEF new, M
<1> QED
  BY <1>2, <1>3 DEF Ranked, Ranks, M

-----------------------------------------------------------------------------
(* What cJSON_Delete reaches *)

\* Who is in G does not leave it along child and next.
Follows(h, G) == \A y \in G : {h.child[y], h.next[y]} \subseteq G \cup {NULL}

\* Freed is the least set with the item that child and next do not leave.
LEMMA FreedIs ==
  ASSUME NEW h \in Heaps, NEW x \in Nodes \cup {NULL}
  PROVE  /\ Freed(h, x) \subseteq Nodes /\ x \in Freed(h, x) \cup {NULL}
         /\ Follows(h, Freed(h, x))
         /\ \A S \in SUBSET Nodes : x \in S \cup {NULL} /\ Follows(h, S) => Freed(h, x) \subseteq S
<1> DEFINE F == {y \in Nodes : \A S \in SUBSET Nodes : x \in S \cup {NULL} /\ Follows(h, S) => y \in S}
<1>1. Freed(h, x) = F
  BY DEF Freed, Follows
<1>2. F \subseteq Nodes /\ x \in F \cup {NULL}
  OBVIOUS
<1>3. \A S \in SUBSET Nodes : x \in S \cup {NULL} /\ Follows(h, S) => F \subseteq S
  OBVIOUS
<1>4. ASSUME NEW y \in F, NEW z \in {h.child[y], h.next[y]}, z # NULL PROVE z \in F
  <2>1. z \in Nodes
    BY <1>4 DEF Heaps, Pointers
  <2>2. ASSUME NEW S \in SUBSET Nodes, x \in S \cup {NULL}, Follows(h, S) PROVE z \in S
    <3>1. y \in S
      BY <1>3, <2>2
    <3> QED
      BY <1>4, <2>2, <3>1 DEF Follows
  <2> QED
    BY <2>1, <2>2
<1> HIDE DEF F
<1> QED
  BY <1>1, <1>2, <1>3, <1>4 DEF Follows

\* Who follows child and next from an item passes its list.
LEMMA SpineIn ==
  ASSUME NEW h, NEW L, Shape(h, L), NEW p \in Nodes, NEW G,
         h.child[p] \in G \cup {NULL}, Follows(h, G)
  PROVE  ToSet(L[p]) \subseteq G
<1> DEFINE s == L[p]
           D == {i \in 1 .. Len(s) : s[i] \notin G}
<1>1. /\ s \in Seq(Nodes) /\ Len(s) \in Nat /\ DOMAIN s = 1 .. Len(s)
      /\ \A i \in 1 .. Len(s) : s[i] \in Nodes /\ s[i] # NULL
      /\ Linked(h, p, s) /\ (s = <<>> <=> Len(s) = 0)
  BY ListFacts
<1>2. D = {}
  <2> SUFFICES ASSUME D # {} PROVE FALSE
    OBVIOUS
  <2>1. D \in SUBSET Nat
    OBVIOUS
  <2>2. PICK m \in D : \A l \in D : m <= l
    <3> HIDE DEF D
    <3> QED
      BY <2>1, LeastNumber
  <2>3. m \in 1 .. Len(s) /\ s[m] \notin G
    OBVIOUS
  <2>4. m # 1
    <3>1. s # <<>>
      BY <1>1, <2>3
    <3>2. h.child[p] = s[1]
      BY <1>1, <3>1 DEF Linked
    <3> QED
      BY <1>1, <2>3, <3>2
  <2>5. m - 1 \in 1 .. Len(s) /\ ~(m <= m - 1) /\ m - 1 # Len(s) /\ m - 1 + 1 = m
    BY <1>1, <2>3, <2>4
  <2>6. s[m - 1] \in G
    BY <2>2, <2>5
  <2>7. h.next[s[m - 1]] = s[m]
    BY <1>1, <2>5 DEF Linked
  <2> QED
    BY <1>1, <2>3, <2>6, <2>7 DEF Follows
<1> QED
  BY <1>1, <1>2 DEF ToSet

\* The items in the lists below x are what is found from its first child.
LEMMA UnderFollows ==
  ASSUME NEW h, NEW L, Shape(h, L), NEW x \in Nodes
  PROVE  LET U == UNION {ToSet(L[p]) : p \in Below(L, x)} IN
         /\ U \subseteq Nodes /\ U \subseteq Below(L, x)
         /\ Follows(h, U) /\ \A p \in Below(L, x) : h.child[p] \in U \cup {NULL}
<1> DEFINE B == Below(L, x)
           U == UNION {ToSet(L[p]) : p \in B}
<1>0. L \in [Nodes -> Seq(Nodes)]
  BY DEF Shape
<1>1. x \in B /\ B \subseteq Nodes /\ Keeps(L, B)
  BY <1>0, BelowIs
<1> HIDE DEF B
<1>2. U \subseteq B
  BY <1>1 DEF Keeps
<1>3. ASSUME NEW p \in B PROVE h.child[p] \in U \cup {NULL}
  <2>1. p \in Nodes
    BY <1>1
  <2>2. /\ DOMAIN L[p] = 1 .. Len(L[p]) /\ Len(L[p]) \in Nat
        /\ Linked(h, p, L[p]) /\ (L[p] = <<>> <=> Len(L[p]) = 0)
    BY <2>1, ListFacts
  <2>3. CASE L[p] = <<>>
    BY <2>2, <2>3 DEF Linked
  <2>4. CASE L[p] # <<>>
    <3>1. h.child[p] = L[p][1] /\ 1 \in DOMAIN L[p]
      BY <2>2, <2>4 DEF Linked
    <3> QED
      BY <3>1 DEF ToSet
  <2> QED
    BY <2>3, <2>4
<1>4. ASSUME NEW y \in U PROVE h.next[y] \in U \cup {NULL}
  <2>1. PICK p \in B : y \in ToSet(L[p])
    OBVIOUS
  <2>2. p \in Nodes
    BY <1>1
  <2>3. /\ DOMAIN L[p] = 1 .. Len(L[p]) /\ Len(L[p]) \in Nat /\ Linked(h, p, L[p])
    BY <2>2, ListFacts
  <2>4. PICK i \in 1 .. Len(L[p]) : y = L[p][i]
    BY <2>1, <2>3 DEF ToSet
  <2>5. h.next[y] = IF i = Len(L[p]) THEN NULL ELSE L[p][i + 1]
    BY <2>3, <2>4 DEF Linked
  <2>6. i # Len(L[p]) => i + 1 \in DOMAIN L[p]
    BY <2>3
  <2>7. i # Len(L[p]) => L[p][i + 1] \in ToSet(L[p])
    BY <2>6 DEF ToSet
  <2> QED
    BY <2>5, <2>7
<1>5. Follows(h, U)
  BY <1>2, <1>3, <1>4 DEF Follows
<1> QED
  BY <1>1, <1>2, <1>3, <1>5 DEF B

\* Deleting what is in no list frees the item and all below it.
LEMMA FreedBelow ==
  ASSUME NEW h, NEW L, Shape(h, L), NEW x \in Nodes, ~Listed(L, x)
  PROVE  Freed(h, x) = Below(L, x)
<1> DEFINE B == Below(L, x)
           U == UNION {ToSet(L[p]) : p \in B}
<1>0. L \in [Nodes -> Seq(Nodes)] /\ h \in Heaps /\ h.next[x] = NULL
  BY DEF Shape, Loose
<1>1. x \in B /\ B \subseteq Nodes
  BY <1>0, BelowIs
<1>2. /\ U \subseteq Nodes /\ U \subseteq B /\ Follows(h, U)
      /\ \A p \in B : h.child[p] \in U \cup {NULL}
  BY UnderFollows
<1> HIDE DEF U, B
<1>3. Follows(h, U \cup {x})
  BY <1>0, <1>1, <1>2 DEF Follows
<1>4. Freed(h, x) \subseteq U \cup {x}
  <2>1. U \cup {x} \in SUBSET Nodes /\ x \in (U \cup {x}) \cup {NULL}
    BY <1>2
  <2> QED
    BY <1>0, <1>3, <2>1, FreedIs
<1>5. Freed(h, x) \subseteq Nodes /\ x \in Freed(h, x) /\ Follows(h, Freed(h, x))
  BY <1>0, FreedIs
<1>6. Keeps(L, Freed(h, x))
  <2> SUFFICES ASSUME NEW p \in Freed(h, x) PROVE ToSet(L[p]) \subseteq Freed(h, x)
    BY DEF Keeps
  <2>1. p \in Nodes /\ h.child[p] \in Freed(h, x) \cup {NULL}
    BY <1>5 DEF Follows
  <2> QED
    BY <1>5, <2>1, SpineIn
<1>7. B \subseteq Freed(h, x)
  BY <1>0, <1>5, <1>6, BelowIs DEF B
<1> QED
  BY <1>1, <1>2, <1>4, <1>7 DEF B

\* The tree of an item is the item and all below it.
LEMMA TreeBelow ==
  ASSUME NEW h, NEW L, Shape(h, L), NEW x \in Nodes
  PROVE  {x} \cup Freed(h, h.child[x]) = Below(L, x)
<1> DEFINE B == Below(L, x)
           U == UNION {ToSet(L[p]) : p \in B}
           F == Freed(h, h.child[x])
<1>0. L \in [Nodes -> Seq(Nodes)] /\ h \in Heaps /\ h.child[x] \in Nodes \cup {NULL}
  BY DEF Shape, Heaps, Pointers
<1>1. x \in B /\ B \subseteq Nodes
  BY <1>0, BelowIs
<1>2. /\ U \subseteq Nodes /\ U \subseteq B /\ Follows(h, U)
      /\ \A p \in B : h.child[p] \in U \cup {NULL}
  BY UnderFollows
<1>3. F \subseteq Nodes /\ h.child[x] \in F \cup {NULL} /\ Follows(h, F)
  BY <1>0, FreedIs
<1>4. F \subseteq U
  <2> HIDE DEF U, B
  <2> QED
    BY <1>0, <1>1, <1>2, FreedIs
<1> HIDE DEF U, B, F
<1>5. Keeps(L, F \cup {x})
  <2> SUFFICES ASSUME NEW p \in F \cup {x} PROVE ToSet(L[p]) \subseteq F
    BY DEF Keeps
  <2>1. p \in Nodes /\ h.child[p] \in F \cup {NULL}
    BY <1>3 DEF Follows
  <2> QED
    BY <1>3, <2>1, SpineIn
<1>6. B \subseteq F \cup {x}
  <2> DEFINE G == F \cup {x}
  <2>1. G \in SUBSET Nodes /\ x \in G /\ Keeps(L, G)
    BY <1>3, <1>5
  <2> HIDE DEF G
  <2>2. B \subseteq G
    BY <1>0, <2>1, BelowIs DEF B
  <2> QED
    BY <2>2 DEF G
<1> QED
  BY <1>1, <1>2, <1>4, <1>6 DEF B, F

-----------------------------------------------------------------------------
(* The inductive invariant *)

\* The items of l have the lists of L, which have no cycle.
Forest(l, h, L) ==
  /\ l \subseteq Nodes /\ Shape(h, L) /\ Ranked(L)
  /\ \A a \in Nodes : \A y \in ToSet(L[a]) : a \in l /\ y \in l

\* The pointers are those of a forest of lists.  That a list has an end and no
\* cycle goes above it (Ranked) is needed for cJSON_Delete, which would free
\* what contains the item, and for cJSON_Duplicate.
IInv == Forest(live, heap, Children) /\ name \in [Nodes -> {"none", "k", "K"}]

\* A heap of that shape has just one such L.
LEMMA ChildrenIs ==
  ASSUME NEW h, NEW L, Shape(h, L)
  PROVE  [a \in Nodes |-> ListOf(h, a)] = L
<1>1. \A a \in Nodes : ListOf(h, a) = L[a]
  BY ListIs
<1>2. L = [a \in Nodes |-> L[a]]
  BY DEF Shape
<1> QED
  BY <1>1, <1>2

\* What a forest says of the lists, and of what is not allocated.
LEMMA ForestFacts ==
  ASSUME NEW l, NEW h, NEW L, Forest(l, h, L)
  PROVE  /\ L \in [Nodes -> Seq(Nodes)] /\ Apart(L) /\ Ranked(L) /\ l \subseteq Nodes /\ Shape(h, L)
         /\ h \in Heaps /\ \A x \in Nodes : Listed(L, x) \/ Loose(h, x)
         /\ \A a \in Nodes \ l : L[a] = <<>> /\ ~Listed(L, a)
         /\ \A a \in Nodes : \A y \in ToSet(L[a]) : a \in l /\ y \in l /\ Listed(L, y)
         /\ \A a \in Nodes : L[a] # <<>> => a \in l
<1>1. L \in [Nodes -> Seq(Nodes)]
  BY DEF Forest, Shape
<1>2. ASSUME NEW a \in Nodes, L[a] # <<>> PROVE a \in l
  <2>1. 1 \in DOMAIN L[a]
    BY <1>1, <1>2
  <2>2. L[a][1] \in ToSet(L[a])
    BY <2>1 DEF ToSet
  <2> QED
    BY <2>2 DEF Forest
<1>3. \A a \in Nodes : \A y \in ToSet(L[a]) : Listed(L, y)
  BY DEF Listed, ToSet
<1>4. \A y \in Nodes : Listed(L, y) => \E a \in Nodes : y \in ToSet(L[a])
  BY DEF Listed, ToSet
<1> QED
  BY <1>1, <1>2, <1>3, <1>4 DEF Forest, Shape

\* One list changes, to which one item may come from outside.
LEMMA PutForest ==
  ASSUME NEW l, NEW h, NEW L, Forest(l, h, L), NEW a \in l, NEW x \in l, ~Listed(L, x),
         a \notin Below(L, x), NEW t \in Seq(Nodes), ToSet(t) \subseteq ToSet(L[a]) \cup {x},
         NEW g, Shape(g, [L EXCEPT ![a] = t])
  PROVE  Forest(l, g, [L EXCEPT ![a] = t])
<1> DEFINE M == [L EXCEPT ![a] = t]
<1>1. L \in [Nodes -> Seq(Nodes)] /\ Apart(L) /\ Ranked(L) /\ l \subseteq Nodes /\ a \in Nodes /\ x \in Nodes
  BY ForestFacts
<1>2. Ranked(M)
  BY <1>1, RankedPut
<1>3. \A b \in Nodes : \A y \in ToSet(M[b]) : y \in ToSet(L[b]) \/ (b = a /\ y = x)
  BY <1>1
<1> HIDE DEF M
<1>4. \A b \in Nodes : \A y \in ToSet(M[b]) : b \in l /\ y \in l
  BY <1>3 DEF Forest
<1>5. Shape(g, M)
  BY DEF M
<1>6. Forest(l, g, M)
  BY <1>1, <1>2, <1>4, <1>5 DEF Forest
<1> QED
  BY <1>6 DEF M

\* The lists and the names without some items.
Without(gone, L) == [y \in Nodes |-> IF y \in gone THEN <<>> ELSE L[y]]
Unnamed(gone, nm) == [y \in Nodes |-> IF y \in gone THEN "none" ELSE nm[y]]

\* What deleting an item that is in no list leaves.
LEMMA DeleteForest ==
  ASSUME NEW h, NEW L, Forest(live, h, L), NEW x \in Nodes, ~Listed(L, x),
         NEW gone, gone = Below(L, x)
  PROVE  /\ Forest(live \ gone, cJSON_Delete(h, x).heap, Without(gone, L))
         /\ cJSON_Delete(h, x).live = live \ gone
         /\ cJSON_Delete(h, x).name = Unnamed(gone, name)
<1> DEFINE M == [y \in Nodes |-> IF y \in gone THEN <<>> ELSE L[y]]
           Clear(f) == [y \in Nodes |-> IF y \in gone THEN NULL ELSE f[y]]
           g == [next |-> Clear(h.next), prev |-> Clear(h.prev), child |-> Clear(h.child)]
<1>1. /\ L \in [Nodes -> Seq(Nodes)] /\ Apart(L) /\ Ranked(L) /\ live \subseteq Nodes /\ Shape(h, L)
      /\ h \in Heaps /\ \A y \in Nodes : Listed(L, y) \/ Loose(h, y)
      /\ \A a \in Nodes : \A y \in ToSet(L[a]) : a \in live /\ y \in live /\ Listed(L, y)
  BY ForestFacts
<1>2. x \in gone /\ gone \subseteq Nodes /\ Keeps(L, gone)
  BY <1>1, BelowIs
<1>3. Freed(h, x) = gone
  BY <1>1, FreedBelow
<1>4. cJSON_Delete(h, x) = [live |-> live \ gone, heap |-> g,
        name |-> [y \in Nodes |-> IF y \in gone THEN "none" ELSE name[y]]]
  BY <1>3 DEF cJSON_Delete
<1>5. ASSUME NEW a \in Nodes \ gone, NEW y \in ToSet(L[a]) PROVE y \notin gone
  <2> SUFFICES ASSUME y \in gone PROVE FALSE
    OBVIOUS
  <2>1. y # x
    BY <1>1, <1>5
  <2>2. PICK p \in gone : y \in ToSet(L[p])
    BY <1>1, <2>1, BelowUp
  <2>3. p = a
    BY <1>1, <1>2, <1>5, <2>2 DEF Apart, ToSet
  <2> QED
    BY <2>2, <2>3
<1>6. /\ g \in Heaps
      /\ \A y \in Nodes : /\ g.next[y] = IF y \in gone THEN NULL ELSE h.next[y]
                          /\ g.prev[y] = IF y \in gone THEN NULL ELSE h.prev[y]
                          /\ g.child[y] = IF y \in gone THEN NULL ELSE h.child[y]
  BY <1>1 DEF Heaps, Pointers
<1>7. M \in [Nodes -> Seq(Nodes)] /\ \A a \in Nodes : M[a] = IF a \in gone THEN <<>> ELSE L[a]
  BY <1>1
<1>8. DOMAIN <<>> = {} /\ ToSet(<<>>) = {}
  BY DEF ToSet
<1> HIDE DEF M, g
<1>9. ASSUME NEW a \in Nodes PROVE Linked(g, a, M[a])
  <2>1. CASE a \in gone
    BY <1>6, <1>7, <1>8, <2>1 DEF Linked
  <2>2. CASE a \notin gone
    <3>1. M[a] = L[a] /\ Linked(h, a, L[a]) /\ g.child[a] = h.child[a]
      BY <1>1, <1>6, <1>7, <2>2 DEF Shape
    <3>2. \A i \in DOMAIN L[a] : L[a][i] \in Nodes /\ L[a][i] \notin gone
      <4> TAKE i \in DOMAIN L[a]
      <4>1. L[a][i] \in ToSet(L[a])
        BY DEF ToSet
      <4> QED
        BY <1>1, <1>5, <2>2, <4>1, ItemsAreNodes
    <3>3. \A i \in DOMAIN L[a] :
            g.next[L[a][i]] = h.next[L[a][i]] /\ g.prev[L[a][i]] = h.prev[L[a][i]]
      BY <1>6, <3>2
    <3> QED
      BY <3>1, <3>3 DEF Linked
  <2> QED
    BY <2>1, <2>2
<1>10. Apart(M)
  BY <1>1, <1>7, <1>8 DEF Apart
<1>11. ASSUME NEW y \in Nodes PROVE Listed(M, y) \/ Loose(g, y)
  <2>1. CASE y \in gone
    BY <1>6, <2>1 DEF Loose
  <2>2. CASE y \notin gone /\ Listed(L, y)
    <3>1. PICK a \in Nodes : y \in ToSet(L[a])
      BY <2>2 DEF Listed, ToSet
    <3>2. a \notin gone
      BY <1>2, <2>2, <3>1 DEF Keeps
    <3> QED
      BY <1>7, <3>1, <3>2 DEF Listed, ToSet
  <2>3. CASE y \notin gone /\ ~Listed(L, y)
    BY <1>1, <1>6, <2>3 DEF Loose
  <2> QED
    BY <2>1, <2>2, <2>3
<1>12. Shape(g, M)
  BY <1>6, <1>7, <1>9, <1>10, <1>11 DEF Shape
<1>13. Ranked(M)
  <2>1. \A a \in Nodes : ToSet(M[a]) \subseteq ToSet(L[a])
    BY <1>7, <1>8
  <2> QED
    BY <1>1, <2>1, RankedFewer
<1>14. \A a \in Nodes : \A y \in ToSet(M[a]) : a \in live \ gone /\ y \in live \ gone
  BY <1>1, <1>5, <1>7, <1>8
<1>15. Forest(live \ gone, g, M)
  BY <1>1, <1>12, <1>13, <1>14 DEF Forest
<1> QED
  BY <1>4, <1>15 DEF M, Without, Unnamed

-----------------------------------------------------------------------------
(* The sets that the calls range over *)

\* The roots, the trees and what the calls find, in the lists.
LEMMA RootsAre ==
  ASSUME IInv
  PROVE  /\ Roots = {x \in live : ~Listed(Children, x)}
         /\ Lists!Roots = Roots
<1> DEFINE L == Children
<1>1. /\ \A a \in Nodes : \A y \in ToSet(L[a]) : a \in live
      /\ live \subseteq Nodes /\ \A a \in Nodes : ListOf(heap, a) = L[a]
  BY ForestFacts DEF IInv, Children
<1>2. \A x \in live : Listed(L, x) <=> \E a \in live : x \in ToSet(L[a])
  <2>1. \A x : Listed(L, x) <=> \E a \in Nodes : x \in ToSet(L[a])
    BY DEF Listed, ToSet
  <2> HIDE DEF L
  <2> QED
    BY <1>1, <2>1
<1>3. Lists!Roots = live \ UNION {ToSet(L[a]) : a \in live}
  BY DEF Lists!Roots, Lists!ToSet, ToSet
<1>4. Roots = live \ UNION {ToSet(L[a]) : a \in live}
  BY <1>1 DEF Roots
<1> HIDE DEF L
<1>5. {x \in live : ~Listed(L, x)} = live \ UNION {ToSet(L[a]) : a \in live}
  BY <1>2
<1> QED
  BY <1>3, <1>4, <1>5 DEF L

\* The tree of an item, in the heap and in the sequences.
LEMMA TreesAre ==
  ASSUME IInv, NEW x \in live
  PROVE  Tree(x) = Below(Children, x) /\ Lists!Within(x) = Below(Children, x)
         /\ Below(Children, x) \subseteq live
<1> DEFINE L == Children
           B == Below(L, x)
           pairs == UNION {{y} \X ToSet(L[y]) : y \in live}
           Closed == {S \in SUBSET live : x \in S /\ \A e \in pairs : e[1] \in S => e[2] \in S}
           W == {y \in live : \A S \in Closed : y \in S}
<1>1. /\ L \in [Nodes -> Seq(Nodes)] /\ live \subseteq Nodes /\ Shape(heap, L)
      /\ \A a \in Nodes : \A y \in ToSet(L[a]) : a \in live /\ y \in live
  BY ForestFacts DEF IInv
<1>2. Tree(x) = B
  BY <1>1, TreeBelow DEF Tree
<1>3. Lists!Within(x) = W
  BY DEF Lists!Within, Lists!ToSet, ToSet
<1> HIDE DEF L
<1>4. \A S \in SUBSET live : Keeps(L, S) <=> \A e \in pairs : e[1] \in S => e[2] \in S
  <2> SUFFICES ASSUME NEW S \in SUBSET live
               PROVE  Keeps(L, S) <=> \A e \in pairs : e[1] \in S => e[2] \in S
    OBVIOUS
  <2>1. ASSUME Keeps(L, S), NEW e \in pairs, e[1] \in S PROVE e[2] \in S
    <3>1. PICK y \in live : e \in {y} \X ToSet(L[y])
      OBVIOUS
    <3>2. e[1] = y /\ e[2] \in ToSet(L[y])
      BY <3>1
    <3> QED
      BY <2>1, <3>2 DEF Keeps
  <2>2. ASSUME \A e \in pairs : e[1] \in S => e[2] \in S,
               NEW p \in S, NEW y \in ToSet(L[p])
        PROVE  y \in S
    <3>1. <<p, y>> \in {p} \X ToSet(L[p]) /\ p \in live
      BY <2>2
    <3>2. <<p, y>> \in pairs
      BY <3>1
    <3>3. <<p, y>>[1] \in S => <<p, y>>[2] \in S
      BY <2>2, <3>2
    <3> QED
      BY <2>2, <3>3
  <2> QED
    BY <2>1, <2>2 DEF Keeps
<1>5. Keeps(L, live)
  BY <1>1 DEF Keeps
<1>6. B \subseteq live /\ x \in B /\ Keeps(L, B)
  BY <1>1, <1>5, BelowIs
<1> HIDE DEF pairs
<1>7. W \subseteq B
  <2>1. B \in Closed
    BY <1>4, <1>6
  <2> QED
    BY <2>1
<1>8. B \subseteq W
  <2> SUFFICES ASSUME NEW S \in Closed PROVE B \subseteq S
    BY <1>6
  <2>1. S \in SUBSET Nodes /\ x \in S /\ Keeps(L, S)
    BY <1>1, <1>4
  <2> QED
    BY <1>1, <2>1, BelowIs
<1> QED
  BY <1>2, <1>3, <1>6, <1>7, <1>8 DEF L

\* What get_object_item finds is in the list, whatever names there are.
LEMMA FoundByName ==
  ASSUME NEW L, Shape(heap, L), NEW a \in Nodes, NEW k, NEW cs,
         get_object_item(heap, a, k, cs) # NULL
  PROVE  \E i \in DOMAIN L[a] : get_object_item(heap, a, k, cs) = L[a][i]
<1> DEFINE s == L[a]
           Hit(i) == IF cs THEN name[s[i]] \in {k, "none"} ELSE name[s[i]] # "none"
           hits == {i \in DOMAIN s : Hit(i)}
           first == CHOOSE i \in hits : \A j \in hits : i <= j
<1>1. DOMAIN s = 1 .. Len(s) /\ Len(s) \in Nat
  BY ListFacts
<1>2. ListOf(heap, a) = s
  BY ListIs
<1> HIDE DEF s
<1>3. get_object_item(heap, a, k, cs) = IF hits = {} \/ name[s[first]] = "none" THEN NULL ELSE s[first]
  BY <1>2 DEF get_object_item
<1>4. hits # {}
  BY <1>3
<1>5. hits \in SUBSET Nat /\ hits \subseteq 1 .. Len(s)
  BY <1>1
<1> HIDE DEF hits
<1>6. first \in hits
  <2>1. \E m \in hits : \A j \in hits : m <= j
    BY <1>4, <1>5, LeastNumber
  <2> QED
    BY <2>1
<1> HIDE DEF first
<1> QED
  BY <1>3, <1>5, <1>6 DEF s

\* What is found by number or by name is in the list.
LEMMA TargetIs ==
  ASSUME NEW L, Shape(heap, L), NEW a \in Nodes, NEW x \in Targets(a) \ {NULL}
  PROVE  \E i \in DOMAIN L[a] : x = L[a][i]
<1>1. DOMAIN L[a] = 1 .. Len(L[a]) /\ ListOf(heap, a) = L[a]
  BY ListFacts, ListIs
<1>2. CASE \E which \in Indices : x = get_array_item(heap, a, which)
  BY <1>1, <1>2 DEF get_array_item
<1>3. CASE \E k \in {"k", "K"}, cs \in BOOLEAN : x = get_object_item(heap, a, k, cs)
  BY <1>3, FoundByName
<1> QED
  BY <1>2, <1>3 DEF Targets

-----------------------------------------------------------------------------
(* Every call keeps the invariant and is a step of ItemLists *)

\* What the items of a changed list are.
LEMMA ItemsOfChanged ==
  ASSUME NEW s \in Seq(Nodes), NEW x \in Nodes
  PROVE  /\ ToSet(Append(s, x)) \subseteq ToSet(s) \cup {x}
         /\ \A k \in 1 .. Len(s) + 1 : ToSet(InsertAt(s, k, x)) \subseteq ToSet(s) \cup {x}
         /\ \A k \in 1 .. Len(s) : ToSet(ReplaceAt(s, k, x)) \subseteq ToSet(s) \cup {x}
         /\ \A k \in 1 .. Len(s) : ToSet(RemoveAt(s, k)) \subseteq ToSet(s)
<1>1. DOMAIN s = 1 .. Len(s) /\ Len(s) \in Nat
  OBVIOUS
<1>2. \A i \in 1 .. Len(s) : s[i] \in ToSet(s)
  BY <1>1 DEF ToSet
<1>3. ToSet(Append(s, x)) \subseteq ToSet(s) \cup {x}
  <2>1. \A i \in DOMAIN Append(s, x) : i \in 1 .. Len(s) + 1 /\ (i <= Len(s) => i \in 1 .. Len(s))
    BY <1>1, AppendIs
  <2>2. \A i \in DOMAIN Append(s, x) : Append(s, x)[i] \in ToSet(s) \cup {x}
    BY <1>2, <2>1, AppendIs
  <2> QED
    BY <2>2 DEF ToSet
<1>4. ASSUME NEW k \in 1 .. Len(s) + 1
      PROVE  ToSet(InsertAt(s, k, x)) \subseteq ToSet(s) \cup {x}
  <2> DEFINE t == InsertAt(s, k, x)
  <2>1. /\ DOMAIN t = 1 .. Len(s) + 1
        /\ \A i \in 1 .. Len(s) + 1 : t[i] = IF i < k THEN s[i] ELSE IF i = k THEN x ELSE s[i - 1]
    BY InsertIs
  <2> HIDE DEF t
  <2>2. \A i \in 1 .. Len(s) + 1 : (i < k => i \in 1 .. Len(s)) /\ (i < k \/ i = k \/ i - 1 \in 1 .. Len(s))
    BY <1>1
  <2>3. \A i \in DOMAIN t : t[i] \in ToSet(s) \cup {x}
    BY <1>2, <2>1, <2>2
  <2> QED
    BY <2>3 DEF ToSet, t
<1>5. ASSUME NEW k \in 1 .. Len(s) PROVE ToSet(ReplaceAt(s, k, x)) \subseteq ToSet(s) \cup {x}
  <2> DEFINE t == ReplaceAt(s, k, x)
  <2>1. DOMAIN t = 1 .. Len(s) /\ \A i \in 1 .. Len(s) : t[i] = IF i = k THEN x ELSE s[i]
    BY ReplaceIs
  <2> HIDE DEF t
  <2>3. \A i \in DOMAIN t : t[i] \in ToSet(s) \cup {x}
    BY <1>2, <2>1
  <2> QED
    BY <2>3 DEF ToSet, t
<1>6. ASSUME NEW k \in 1 .. Len(s) PROVE ToSet(RemoveAt(s, k)) \subseteq ToSet(s)
  <2> DEFINE t == RemoveAt(s, k)
  <2>1. /\ DOMAIN t = 1 .. Len(s) - 1
        /\ \A i \in 1 .. Len(s) - 1 : t[i] = IF i < k THEN s[i] ELSE s[i + 1]
    BY RemoveIs
  <2> HIDE DEF t
  <2>2. \A i \in 1 .. Len(s) - 1 : i \in 1 .. Len(s) /\ i + 1 \in 1 .. Len(s)
    BY <1>1
  <2>3. \A i \in DOMAIN t : t[i] \in ToSet(s)
    BY <1>2, <2>1, <2>2
  <2> QED
    BY <2>3 DEF ToSet, t
<1> QED
  BY <1>3, <1>4, <1>5, <1>6

\* Appending is inserting behind the last.
LEMMA AppendInserts ==
  ASSUME NEW s \in Seq(Nodes), NEW x \in Nodes
  PROVE  Append(s, x) = InsertAt(s, Len(s) + 1, x)
<1> DEFINE n == Len(s)
           t == Append(s, x)
           u == InsertAt(s, n + 1, x)
<1>1. n \in Nat /\ n + 1 \in 1 .. n + 1
  OBVIOUS
<1>2. /\ t \in Seq(Nodes) /\ Len(t) = n + 1
      /\ \A i \in 1 .. n + 1 : t[i] = IF i <= n THEN s[i] ELSE x
  BY AppendIs
<1>3. /\ u \in Seq(Nodes) /\ Len(u) = n + 1
      /\ \A i \in 1 .. n + 1 : u[i] = IF i < n + 1 THEN s[i] ELSE IF i = n + 1 THEN x ELSE s[i - 1]
  BY <1>1, InsertIs
<1> HIDE DEF t, u, n
<1>4. \A i \in 1 .. n + 1 : i <= n \/ i = n + 1
  BY <1>1
<1>5. \A i \in 1 .. n + 1 : t[i] = u[i]
  BY <1>1, <1>2, <1>3, <1>4
<1>6. t = u
  BY <1>2, <1>3, <1>5, SeqEqual
<1> QED
  BY <1>6 DEF t, u, n

\* The heap after a step determines the sequences after it.
LEMMA NextForest ==
  ASSUME NEW M, Forest(live', heap', M), name' \in [Nodes -> {"none", "k", "K"}]
  PROVE  Children' = M /\ IInv'
<1>1. Children' = M
  BY ChildrenIs DEF Forest, Children
<1> QED
  BY <1>1 DEF IInv

\* The empty memory is a forest without items.
LEMMA Start ==
  ASSUME Init
  PROVE  IInv /\ Lists!Init
<1> DEFINE L == [a \in Nodes |-> <<>>]
<1>1. \A a \in Nodes : ListOf(heap, a) = <<>>
  BY DEF Init, Nothing, ListOf
<1>2. Children = L
  BY <1>1 DEF Children
<1>3. heap \in Heaps /\ L \in [Nodes -> Seq(Nodes)] /\ \A x \in Nodes : Loose(heap, x)
  BY DEF Init, Nothing, Heaps, Pointers, Loose
<1>4. \A a \in Nodes : Linked(heap, a, L[a])
  BY DEF Init, Nothing, Linked
<1>5. Shape(heap, L)
  BY <1>3, <1>4 DEF Shape, Apart
<1>6. \A a \in Nodes : ToSet(L[a]) = {}
  BY DEF ToSet
<1>7. Ranked(L)
  <2> DEFINE rank == [a \in Nodes |-> 0]
  <2>1. rank \in [Nodes -> Nat] /\ Ranks(rank, L)
    BY <1>6 DEF Ranks
  <2> HIDE DEF rank
  <2> QED
    BY <2>1 DEF Ranked
<1>8. Forest(live, heap, L)
  BY <1>5, <1>6, <1>7 DEF Init, Forest
<1>9. IInv
  BY <1>2, <1>8 DEF Init, IInv
<1>10. Lists!Init
  BY <1>2 DEF Init, Lists!Init
<1> QED
  BY <1>9, <1>10

\* A new item is a forest of its own.
LEMMA CreateItemStep ==
  ASSUME IInv, CreateItem
  PROVE  IInv' /\ Lists!Create
<1> DEFINE L == Children
<1>1. PICK x \in Nodes \ live : live' = live \cup {x} /\ UNCHANGED <<heap, name>>
  BY DEF CreateItem
<1>2. Forest(live, heap, L) /\ name \in [Nodes -> {"none", "k", "K"}]
  BY DEF IInv
<1>3. L \in [Nodes -> Seq(Nodes)] /\ L[x] = <<>>
  BY <1>2, ForestFacts
<1> HIDE DEF L
<1>4. Forest(live', heap', L)
  BY <1>1, <1>2 DEF Forest
<1>5. Children' = L /\ IInv'
  BY <1>1, <1>2, <1>4, NextForest
<1>6. Children' = [L EXCEPT ![x] = <<>>]
  BY <1>3, <1>5
<1>7. <<>> \in Lists!BoundedSeq(Nodes \ (live \cup {x}), MaxNew) /\ Lists!IsInjective(<<>>) /\ Lists!ToSet(<<>>) = {}
  <2>1. <<>> \in [1 .. 0 -> Nodes \ (live \cup {x})] /\ 0 \in 0 .. MaxNew
    BY BoundsAssumption
  <2> QED
    BY <2>1 DEF Lists!BoundedSeq, Lists!SeqOf, Lists!IsInjective, Lists!ToSet
<1>8. live' = live \cup {x} \cup Lists!ToSet(<<>>)
  BY <1>1, <1>7
<1>9. Lists!Create
  BY <1>1, <1>6, <1>7, <1>8 DEF Lists!Create, L
<1> QED
  BY <1>5, <1>9

\* A root comes to the end of a list.
LEMMA AddRoot ==
  ASSUME IInv, NEW x \in Roots, NEW a \in live \ Tree(x)
  PROVE  LET s == Children[a] IN
         /\ x \in Lists!Roots /\ a \in live \ Lists!Within(x)
         /\ s \in Seq(Nodes) /\ Len(s) \in Nat
         /\ Forest(live, add_item_to_array(heap, a, x),
                   [Children EXCEPT ![a] = InsertAt(s, Len(s) + 1, x)])
<1> DEFINE L == Children
           s == L[a]
           t == InsertAt(s, Len(s) + 1, x)
<1>1. /\ L \in [Nodes -> Seq(Nodes)] /\ live \subseteq Nodes /\ Shape(heap, L)
      /\ Forest(live, heap, L)
  BY ForestFacts DEF IInv
<1>2. x \in live /\ ~Listed(L, x) /\ x \in Lists!Roots
  BY RootsAre
<1>3. a \in live \ Lists!Within(x) /\ a \notin Below(L, x)
  BY <1>2, TreesAre
<1>4. a \in Nodes /\ x \in Nodes
  BY <1>1, <1>2
<1>5. s \in Seq(Nodes) /\ Len(s) \in Nat /\ Len(s) + 1 \in 1 .. Len(s) + 1
  BY <1>1, <1>4
<1> HIDE DEF L, s
<1>6. t = Append(s, x) /\ t \in Seq(Nodes) /\ ToSet(t) \subseteq ToSet(s) \cup {x}
  <2>1. t = Append(s, x)
    BY <1>4, <1>5, AppendInserts
  <2>2. ToSet(t) \subseteq ToSet(s) \cup {x}
    BY <1>4, <1>5, ItemsOfChanged
  <2> QED
    BY <1>4, <1>5, <2>1, <2>2, AppendIs
<1> HIDE DEF t
<1>7. Shape(add_item_to_array(heap, a, x), [L EXCEPT ![a] = t])
  BY <1>1, <1>2, <1>4, <1>6, AddLinks DEF s
<1>8. Forest(live, add_item_to_array(heap, a, x), [L EXCEPT ![a] = t])
  BY <1>1, <1>2, <1>3, <1>6, <1>7, PutForest DEF s
<1> QED
  BY <1>2, <1>3, <1>5, <1>8 DEF L, s, t

\* cJSON_AddItemToArray and cJSON_AddItemToObject put a root at the end.
LEMMA AddStep ==
  ASSUME IInv, Add
  PROVE  IInv' /\ Lists!Put
<1> DEFINE L == Children
<1>1. PICK x \in Roots : \E a \in live \ Tree(x) :
        /\ heap' = add_item_to_array(heap, a, x)
        /\ \E k \in {"k", "K", name[x]} : name' = [name EXCEPT ![x] = k]
        /\ UNCHANGED live
  BY DEF Add
<1>2. PICK a \in live \ Tree(x) :
        /\ heap' = add_item_to_array(heap, a, x)
        /\ \E k \in {"k", "K", name[x]} : name' = [name EXCEPT ![x] = k]
        /\ UNCHANGED live
  BY <1>1
<1> DEFINE s == L[a]
           t == InsertAt(s, Len(s) + 1, x)
           M == [L EXCEPT ![a] = t]
<1>3. /\ x \in Lists!Roots /\ a \in live \ Lists!Within(x) /\ Len(s) + 1 \in 1 .. Len(s) + 1
      /\ Forest(live, add_item_to_array(heap, a, x), M)
  BY AddRoot
<1>4. name' \in [Nodes -> {"none", "k", "K"}]
  <2>1. x \in Nodes /\ name \in [Nodes -> {"none", "k", "K"}]
    BY RootsAre, ForestFacts DEF IInv
  <2> QED
    BY <1>2, <2>1
<1>5. Children' = M /\ IInv'
  BY <1>2, <1>3, <1>4, NextForest
<1>6. Lists!Put
  BY <1>2, <1>3, <1>5 DEF Lists!Put, Lists!InsertAt, InsertAt
<1> QED
  BY <1>5, <1>6

\* cJSON_AddNullToObject and the others put a new item at the end.
LEMMA AddNewStep ==
  ASSUME IInv, AddNew
  PROVE  IInv' /\ Lists!PutNew
<1> DEFINE L == Children
<1>1. PICK a \in live, x \in Nodes \ live, k \in {"k", "K"} :
        /\ live' = live \cup {x}
        /\ name' = [name EXCEPT ![x] = k]
        /\ heap' = add_item_to_array(heap, a, x)
  BY DEF AddNew
<1> DEFINE s == L[a]
           t == Append(s, x)
           M == [L EXCEPT ![a] = t]
<1>2. /\ L \in [Nodes -> Seq(Nodes)] /\ live \subseteq Nodes /\ Shape(heap, L)
      /\ Forest(live, heap, L) /\ L[x] = <<>> /\ ~Listed(L, x)
  BY ForestFacts DEF IInv
<1>3. a \in Nodes /\ x \in Nodes /\ a # x
  BY <1>1, <1>2
<1>4. s \in Seq(Nodes)
  BY <1>2, <1>3
<1> HIDE DEF L, s
<1>5. t \in Seq(Nodes) /\ ToSet(t) \subseteq ToSet(s) \cup {x}
  BY <1>3, <1>4, AppendIs, ItemsOfChanged
<1> HIDE DEF t
<1>6. Shape(heap', M)
  BY <1>1, <1>2, <1>3, AddLinks DEF s, t
<1>7. Forest(live \cup {x}, heap, L)
  BY <1>2, <1>3 DEF Forest
<1>8. a \notin Below(L, x)
  <2>1. Keeps(L, {x})
    BY <1>2 DEF Keeps, ToSet
  <2>2. {x} \in SUBSET Nodes /\ x \in {x}
    BY <1>3
  <2>3. Below(L, x) \subseteq {x}
    BY <1>2, <1>3, <2>1, <2>2, BelowIs
  <2> QED
    BY <1>3, <2>3
<1>9. Forest(live \cup {x}, heap', M)
  <2> DEFINE l == live \cup {x}
  <2>1. Forest(l, heap, L) /\ a \in l /\ x \in l
    BY <1>7
  <2> HIDE DEF l
  <2>2. Forest(l, heap', M)
    BY <1>2, <1>5, <1>6, <1>8, <2>1, PutForest DEF s
  <2> QED
    BY <2>2 DEF l
<1>10. name' \in [Nodes -> {"none", "k", "K"}]
  BY <1>1, <1>3 DEF IInv
<1>11. Children' = M /\ IInv'
  BY <1>1, <1>9, <1>10, NextForest
<1>12. Lists!PutNew
  BY <1>1, <1>11 DEF Lists!PutNew, L, s, t
<1> QED
  BY <1>11, <1>12

\* A root comes before the item with a number, or to the end.
LEMMA InsertItemStep ==
  ASSUME IInv, InsertItem
  PROVE  IInv' /\ Lists!Put
<1> DEFINE L == Children
<1>1. PICK x \in Roots : \E a \in live \ Tree(x), which \in Indices :
        heap' = Insert(heap, a, which, x) /\ UNCHANGED <<live, name>>
  BY DEF InsertItem
<1>2. PICK a \in live \ Tree(x), which \in Indices :
        heap' = Insert(heap, a, which, x) /\ UNCHANGED <<live, name>>
  BY <1>1
<1> DEFINE s == L[a]
<1>3. /\ L \in [Nodes -> Seq(Nodes)] /\ live \subseteq Nodes /\ Shape(heap, L)
      /\ Forest(live, heap, L) /\ name \in [Nodes -> {"none", "k", "K"}]
  BY ForestFacts DEF IInv
<1>4. x \in live /\ ~Listed(L, x) /\ x \in Lists!Roots /\ x \in Nodes /\ a \in Nodes
  BY <1>3, RootsAre
<1>5. a \in live \ Lists!Within(x) /\ a \notin Below(L, x)
  BY <1>4, TreesAre
<1>6. /\ s \in Seq(Nodes) /\ Len(s) \in Nat /\ DOMAIN s = 1 .. Len(s)
      /\ \A i \in 1 .. Len(s) : s[i] # NULL
      /\ ListOf(heap, a) = s
  BY <1>3, <1>4, ListFacts, ListIs
<1>7. \E i \in 1 .. Len(s) + 1 : Forest(live, heap', [L EXCEPT ![a] = InsertAt(s, i, x)])
  <2>1. CASE which + 1 \in 1 .. Len(s)
    <3> DEFINE i == which + 1
               t == InsertAt(s, i, x)
    <3>1. i \in 1 .. Len(s) + 1 /\ which \in Nat
      BY <1>6, <2>1, BoundsAssumption
    <3>2. t \in Seq(Nodes) /\ ToSet(t) \subseteq ToSet(s) \cup {x}
      <4> HIDE DEF i, s
      <4> QED
        BY <1>4, <1>6, <3>1, InsertIs, ItemsOfChanged
    <3>3. Shape(heap', [L EXCEPT ![a] = t])
      <4> HIDE DEF L
      <4> QED
        BY <1>2, <1>3, <1>4, <2>1, <3>1, InsertLinks
    <3> HIDE DEF t, L, i
    <3>4. Forest(live, heap', [L EXCEPT ![a] = t])
      BY <1>3, <1>4, <1>5, <3>2, <3>3, PutForest
    <3> QED
      BY <3>1, <3>4 DEF t
  <2>2. CASE which + 1 \notin 1 .. Len(s)
    <3>1. get_array_item(heap, a, which) = NULL
      BY <1>6, <2>2 DEF get_array_item
    <3>2. heap' = add_item_to_array(heap, a, x)
      BY <1>2, <3>1 DEF Insert
    <3> HIDE DEF s
    <3>3. Forest(live, heap', [L EXCEPT ![a] = InsertAt(s, Len(s) + 1, x)])
      BY <3>2, AddRoot DEF s
    <3>4. Len(s) + 1 \in 1 .. Len(s) + 1
      BY <1>6
    <3> QED
      BY <3>3, <3>4
  <2> QED
    BY <2>1, <2>2
<1>8. PICK i \in 1 .. Len(s) + 1 : Forest(live, heap', [L EXCEPT ![a] = InsertAt(s, i, x)])
  BY <1>7
<1>9. Children' = [L EXCEPT ![a] = InsertAt(s, i, x)] /\ IInv'
  BY <1>2, <1>3, <1>8, NextForest
<1>10. name' = [name EXCEPT ![x] = name[x]]
  BY <1>2, <1>3
<1>11. Lists!Put
  BY <1>2, <1>4, <1>5, <1>9, <1>10 DEF Lists!Put, Lists!InsertAt, InsertAt
<1> QED
  BY <1>9, <1>11

\* A listed item can be taken out: it is in no list then, with the same below it.
LEMMA DetachChild ==
  ASSUME IInv, NEW a \in live, NEW i \in DOMAIN Children[a]
  PROVE  LET L == Children
             x == L[a][i]
             M == [L EXCEPT ![a] = RemoveAt(L[a], i)]
         IN /\ Forest(live, Detach(heap, a, x), M) /\ ~Listed(M, x)
            /\ x \in live /\ x \in Nodes /\ i \in DOMAIN L[a]
            /\ Below(M, x) = Below(L, x) /\ Lists!Within(x) = Below(L, x)
<1> DEFINE L == Children
           s == L[a]
           x == s[i]
           t == RemoveAt(s, i)
           M == [L EXCEPT ![a] = t]
<1>1. /\ L \in [Nodes -> Seq(Nodes)] /\ live \subseteq Nodes /\ Shape(heap, L) /\ Ranked(L) /\ Apart(L)
      /\ \A b \in Nodes : \A y \in ToSet(L[b]) : b \in live /\ y \in live
      /\ a \in Nodes
  BY ForestFacts DEF IInv
<1> HIDE DEF L
<1>2. /\ s \in Seq(Nodes) /\ Len(s) \in Nat /\ DOMAIN s = 1 .. Len(s)
      /\ \A p, q \in 1 .. Len(s) : s[p] = s[q] => p = q
  BY <1>1, ListFacts
<1>3. /\ t \in Seq(Nodes) /\ DOMAIN t = 1 .. Len(s) - 1 /\ ToSet(t) \subseteq ToSet(s)
      /\ \A j \in 1 .. Len(s) - 1 : t[j] = IF j < i THEN s[j] ELSE s[j + 1]
  <2>1. i \in 1 .. Len(s)
    BY <1>2 DEF L
  <2>2. a \in Nodes
    BY <1>1
  <2> HIDE DEF s
  <2> QED
    BY <1>2, <2>1, <2>2, RemoveIs, ItemsOfChanged
<1>4. i \in 1 .. Len(s) /\ x \in ToSet(s)
  BY <1>2 DEF L, ToSet
<1>5. x \in live /\ x \in Nodes
  BY <1>1, <1>4
<1> HIDE DEF t
<1>6. M \in [Nodes -> Seq(Nodes)] /\ M[a] = t /\ \A b \in Nodes \ {a} : M[b] = L[b]
  BY <1>1, <1>3
<1>7. \A b \in Nodes : ToSet(M[b]) \subseteq ToSet(L[b])
  BY <1>3, <1>6
<1>8. Shape(Detach(heap, a, x), M)
  BY <1>1, <1>4, DetachLinks DEF t
<1> HIDE DEF M
<1>9. Ranked(M)
  BY <1>1, <1>7, RankedFewer
<1>10. Forest(live, Detach(heap, a, x), M)
  BY <1>1, <1>7, <1>8, <1>9 DEF Forest
<1>11. ~Listed(M, x)
  <2> SUFFICES ASSUME NEW b \in Nodes, NEW j \in DOMAIN M[b], M[b][j] = x PROVE FALSE
    BY DEF Listed
  <2>1. CASE b = a
    <3>1. j \in 1 .. Len(s) - 1 /\ x = IF j < i THEN s[j] ELSE s[j + 1]
      BY <1>3, <1>6, <2>1
    <3>2. j \in 1 .. Len(s) /\ j + 1 \in 1 .. Len(s) /\ (j < i => j # i) /\ (~(j < i) => j + 1 # i)
      BY <1>2, <1>4, <3>1
    <3> QED
      BY <1>2, <1>4, <3>1, <3>2
  <2>2. CASE b # a
    BY <1>1, <1>2, <1>4, <1>6, <2>2 DEF Apart
  <2> QED
    BY <2>1, <2>2
<1>12. Below(M, x) = Below(L, x)
  <2>1. a \notin Below(L, x)
    BY <1>1, <1>4, NotBelowOwn
  <2>2. \A p \in Below(L, x) : M[p] = L[p]
    BY <1>1, <1>5, <1>6, <2>1, BelowIs
  <2> QED
    BY <1>1, <1>5, <1>6, <2>2, BelowSame
<1>13. Lists!Within(x) = Below(L, x)
  BY <1>5, TreesAre DEF L
<1> QED
  BY <1>2, <1>4, <1>5, <1>10, <1>11, <1>12, <1>13 DEF L, M, t

\* cJSON_DetachItemFromArray and cJSON_DetachItemFromObject take an item out.
LEMMA DetachItemStep ==
  ASSUME IInv, DetachItem
  PROVE  IInv' /\ Lists!Take
<1> DEFINE L == Children
<1>1. PICK a \in live : \E x \in Targets(a) \ {NULL} :
        heap' = Detach(heap, a, x) /\ UNCHANGED <<live, name>>
  BY DEF DetachItem
<1>2. PICK x \in Targets(a) \ {NULL} : heap' = Detach(heap, a, x) /\ UNCHANGED <<live, name>>
  BY <1>1
<1>3. live \subseteq Nodes /\ Shape(heap, L) /\ name \in [Nodes -> {"none", "k", "K"}]
  BY ForestFacts DEF IInv
<1>4. PICK i \in DOMAIN L[a] : x = L[a][i]
  BY <1>3, TargetIs
<1> DEFINE M == [L EXCEPT ![a] = RemoveAt(L[a], i)]
<1>5. Forest(live, Detach(heap, a, x), M) /\ i \in DOMAIN L[a]
  BY <1>4, DetachChild
<1>6. Children' = M /\ IInv'
  BY <1>2, <1>3, <1>5, NextForest
<1>7. Lists!Take
  BY <1>2, <1>5, <1>6 DEF Lists!Take, Lists!RemoveAt, RemoveAt
<1> QED
  BY <1>6, <1>7

\* cJSON_Delete of a root frees the root and all below it.
LEMMA DeleteRootStep ==
  ASSUME IInv, NEW x \in Roots, Became(cJSON_Delete(heap, x))
  PROVE  IInv' /\ Lists!DeleteRoot
<1> DEFINE L == Children
           gone == Below(L, x)
           M == Without(gone, L)
<1>1. /\ live \subseteq Nodes /\ Forest(live, heap, L) /\ name \in [Nodes -> {"none", "k", "K"}]
  BY ForestFacts DEF IInv
<1>2. x \in live /\ ~Listed(L, x) /\ x \in Lists!Roots /\ x \in Nodes
  BY <1>1, RootsAre
<1>3. Lists!Within(x) = gone
  BY <1>2, TreesAre
<1>g. gone = Below(L, x)
  OBVIOUS
<1> HIDE DEF L, gone
<1> DEFINE d == cJSON_Delete(heap, x)
<1>d. /\ Forest(live \ gone, d.heap, M) /\ d.live = live \ gone
      /\ d.name = Unnamed(gone, name)
  BY <1>1, <1>2, <1>g, DeleteForest
<1>4. /\ Forest(live \ gone, heap', M) /\ live' = live \ gone
      /\ name' = Unnamed(gone, name)
  <2> HIDE DEF M
  <2> QED
    BY <1>d DEF Became
<1>5. name' \in [Nodes -> {"none", "k", "K"}]
  BY <1>1, <1>4 DEF Unnamed
<1>6. Children' = M /\ IInv'
  BY <1>4, <1>5, NextForest
<1>7. Lists!DeleteRoot
  BY <1>2, <1>3, <1>4, <1>6 DEF Lists!DeleteRoot, Lists!Drop, Without, Unnamed, L
<1> QED
  BY <1>6, <1>7

\* cJSON_DeleteItemFromArray frees the item and all below it, not its neighbours.
LEMMA DeleteChildStep ==
  ASSUME IInv, NEW a \in live, NEW x \in Targets(a) \ {NULL},
         Became(cJSON_Delete(Detach(heap, a, x), x))
  PROVE  IInv' /\ Lists!DeleteChild
<1> DEFINE L == Children
<1>1. /\ live \subseteq Nodes /\ Shape(heap, L) /\ name \in [Nodes -> {"none", "k", "K"}]
  BY ForestFacts DEF IInv
<1>2. PICK i \in DOMAIN L[a] : x = L[a][i]
  BY <1>1, TargetIs
<1> DEFINE K == [L EXCEPT ![a] = RemoveAt(L[a], i)]
           gone == Below(L, x)
           M == Without(gone, K)
<1>3. /\ Forest(live, Detach(heap, a, x), K) /\ ~Listed(K, x) /\ x \in Nodes /\ i \in DOMAIN L[a]
      /\ Below(K, x) = gone /\ Lists!Within(x) = gone
  BY <1>2, DetachChild
<1> DEFINE g == Detach(heap, a, x)
           d == cJSON_Delete(g, x)
<1>b. Became(d)
  OBVIOUS
<1>e. Forest(live, g, K) /\ ~Listed(K, x) /\ x \in Nodes /\ gone = Below(K, x)
  BY <1>3
<1> HIDE DEF L, gone, K, g
<1>d. /\ Forest(live \ gone, d.heap, M) /\ d.live = live \ gone
      /\ d.name = Unnamed(gone, name)
  BY <1>e, DeleteForest
<1>4. /\ Forest(live \ gone, heap', M) /\ live' = live \ gone
      /\ name' = Unnamed(gone, name)
  <2> HIDE DEF M, d
  <2> QED
    BY <1>b, <1>d DEF Became
<1>5. name' \in [Nodes -> {"none", "k", "K"}]
  BY <1>1, <1>4 DEF Unnamed
<1>6. Children' = M /\ IInv'
  BY <1>4, <1>5, NextForest
<1>7. Lists!Drop(gone, [Children EXCEPT ![a] = Lists!RemoveAt(Children[a], i)])
  BY <1>4, <1>6 DEF Lists!Drop, Without, Lists!RemoveAt, RemoveAt, L, K
<1>8. Lists!Within(Children[a][i]) = gone /\ i \in DOMAIN Children[a]
  BY <1>2, <1>3 DEF L
<1>9. Lists!DeleteChild
  BY <1>4, <1>7, <1>8 DEF Lists!DeleteChild, Unnamed
<1> QED
  BY <1>6, <1>9

\* The two kinds of Delete.
LEMMA DeleteStep ==
  ASSUME IInv, Delete
  PROVE  IInv' /\ (Lists!DeleteRoot \/ Lists!DeleteChild)
<1>1. CASE \E x \in Roots : Became(cJSON_Delete(heap, x))
  BY <1>1, DeleteRootStep
<1>2. CASE \E a \in live : \E x \in Targets(a) \ {NULL} : Became(cJSON_Delete(Detach(heap, a, x), x))
  BY <1>2, DeleteChildStep
<1> QED
  BY <1>1, <1>2 DEF Delete

\* A root takes the place of a listed item, which is deleted.
LEMMA ReplaceChild ==
  ASSUME IInv, NEW r \in Roots, NEW a \in live \ Tree(r), NEW i \in DOMAIN Children[a],
         NEW x, x = Children[a][i], NEW d, d = cJSON_Delete(Relink(heap, a, x, r), x),
         NEW gone, gone = Lists!Within(x)
  PROVE  /\ r \in Lists!Roots /\ a \in live \ Lists!Within(r)
         /\ r \in Nodes /\ r \notin gone
         /\ Forest(live \ gone, d.heap,
                   Without(gone, [Children EXCEPT ![a] = ReplaceAt(Children[a], i, r)]))
         /\ d.live = live \ gone
         /\ d.name = Unnamed(gone, name)
<1> DEFINE L == Children
           s == L[a]
           t == ReplaceAt(s, i, r)
           K == [L EXCEPT ![a] = t]
           g == Relink(heap, a, x, r)
<1>1. /\ L \in [Nodes -> Seq(Nodes)] /\ live \subseteq Nodes /\ Shape(heap, L) /\ Ranked(L) /\ Apart(L)
      /\ \A b \in Nodes : \A y \in ToSet(L[b]) : b \in live /\ y \in live /\ Listed(L, y)
      /\ a \in Nodes /\ Forest(live, heap, L)
  BY ForestFacts DEF IInv
<1>2. r \in live /\ ~Listed(L, r) /\ r \in Lists!Roots /\ r \in Nodes
  BY <1>1, RootsAre
<1>3. a \in live \ Lists!Within(r) /\ a \notin Below(L, r)
  BY <1>2, TreesAre
<1>d. x = s[i] /\ i \in DOMAIN s /\ d = cJSON_Delete(g, x)
  OBVIOUS
<1> HIDE DEF L
<1>5. /\ s \in Seq(Nodes) /\ Len(s) \in Nat /\ DOMAIN s = 1 .. Len(s)
      /\ \A p, q \in 1 .. Len(s) : s[p] = s[q] => p = q
  BY <1>1, ListFacts
<1>4. i \in 1 .. Len(s)
  BY <1>5, <1>d
<1>6. x \in ToSet(s) /\ x \in live /\ x \in Nodes /\ Listed(L, x) /\ x # r
  BY <1>1, <1>2, <1>4, <1>5, <1>d DEF ToSet
<1>7. gone = Below(L, x)
  BY <1>6, TreesAre DEF L
<1>8. r \notin gone
  <2> SUFFICES ASSUME r \in gone PROVE FALSE
    OBVIOUS
  <2>1. PICK p \in gone : r \in ToSet(L[p])
    BY <1>1, <1>2, <1>6, <1>7, BelowUp
  <2>2. p \in Nodes
    BY <1>1, <1>6, <1>7, BelowIs
  <2> QED
    BY <1>1, <1>2, <2>1, <2>2
<1>9. a \notin gone
  BY <1>1, <1>6, <1>7, NotBelowOwn
<1>10. /\ t \in Seq(Nodes) /\ DOMAIN t = 1 .. Len(s) /\ ToSet(t) \subseteq ToSet(s) \cup {r}
       /\ \A j \in 1 .. Len(s) : t[j] = IF j = i THEN r ELSE s[j]
  <2> HIDE DEF s
  <2>1. /\ t \in Seq(Nodes) /\ DOMAIN t = 1 .. Len(s)
        /\ \A j \in 1 .. Len(s) : t[j] = IF j = i THEN r ELSE s[j]
    <3>1. s \in Seq(Nodes) /\ i \in 1 .. Len(s) /\ r \in Nodes
      BY <1>2, <1>4, <1>5
    <3> QED
      BY <3>1, ReplaceIs
  <2>2. ToSet(t) \subseteq ToSet(s) \cup {r}
    BY <1>2, <1>4, <1>5, ItemsOfChanged
  <2> QED
    BY <2>1, <2>2
<1>11. Shape(g, K)
  BY <1>1, <1>2, <1>4, <1>d, RelinkLinks
<1> HIDE DEF t, g, s
<1>12. K \in [Nodes -> Seq(Nodes)] /\ K[a] = t /\ \A b \in Nodes \ {a} : K[b] = L[b]
  BY <1>1, <1>10
<1>13. Forest(live, g, K)
  BY <1>1, <1>2, <1>3, <1>10, <1>11, PutForest DEF s
<1> HIDE DEF K
<1>14. ~Listed(K, x)
  <2> SUFFICES ASSUME NEW b \in Nodes, NEW j \in DOMAIN K[b], K[b][j] = x PROVE FALSE
    BY DEF Listed
  <2>1. CASE b = a
    <3>1. j \in 1 .. Len(s) /\ x = IF j = i THEN r ELSE s[j]
      BY <1>10, <1>12, <2>1
    <3> QED
      BY <1>4, <1>5, <1>6, <1>d, <3>1
  <2>2. CASE b # a
    <3>1. L[b][j] = L[a][i] /\ j \in DOMAIN L[b] /\ i \in DOMAIN L[a]
      BY <1>4, <1>5, <1>12, <1>d, <2>2 DEF s
    <3> QED
      BY <1>1, <2>2, <3>1 DEF Apart
  <2> QED
    BY <2>1, <2>2
<1>15. Below(K, x) = gone
  <2>1. \A p \in Below(L, x) : K[p] = L[p]
    BY <1>1, <1>6, <1>7, <1>9, <1>12, BelowIs
  <2> QED
    BY <1>1, <1>6, <1>7, <1>12, <2>1, BelowSame
<1>e. gone = Below(K, x)
  BY <1>15
<1>16. /\ Forest(live \ gone, cJSON_Delete(g, x).heap, Without(gone, K))
       /\ cJSON_Delete(g, x).live = live \ gone
       /\ cJSON_Delete(g, x).name = Unnamed(gone, name)
  BY <1>6, <1>13, <1>14, <1>e, DeleteForest
<1> QED
  BY <1>2, <1>3, <1>8, <1>16, <1>d DEF K, t, s, L

\* A replacement, however the item that is replaced was found.
LEMMA ReplaceStep ==
  ASSUME IInv, NEW r \in Roots, NEW a \in live \ Tree(r), NEW i \in DOMAIN Children[a], NEW x,
         x = Children[a][i], NEW k \in {"k", "K", name[r]}, NEW d,
         d = cJSON_Delete(Relink(heap, a, x, r), x),
         live' = d.live, heap' = d.heap,
         name' = [d.name EXCEPT ![r] = k] \/ (k = name[r] /\ name' = d.name)
  PROVE  IInv' /\ Lists!Replace
<1> DEFINE gone == Lists!Within(Children[a][i])
           K == [Children EXCEPT ![a] = ReplaceAt(Children[a], i, r)]
           M == Without(gone, K)
<1>1. /\ r \in Lists!Roots /\ a \in live \ Lists!Within(r)
      /\ r \in Nodes /\ r \notin gone
      /\ Forest(live \ gone, d.heap, M) /\ d.live = live \ gone
      /\ d.name = Unnamed(gone, name)
  BY ReplaceChild
<1>2. name \in [Nodes -> {"none", "k", "K"}]
  BY DEF IInv
<1> HIDE DEF gone, K
<1>3. live' = live \ gone /\ Forest(live', heap', M)
  BY <1>1
<1>4. name' = [y \in Nodes |-> IF y \in gone THEN "none" ELSE IF y = r THEN k ELSE name[y]]
  BY <1>1 DEF Unnamed
<1>5. name' \in [Nodes -> {"none", "k", "K"}]
  BY <1>1, <1>2, <1>4
<1>6. Children' = M /\ IInv'
  BY <1>3, <1>5, NextForest
<1>7. Lists!Drop(gone, [Children EXCEPT ![a] = Lists!ReplaceAt(Children[a], i, r)])
  BY <1>3, <1>6 DEF Lists!Drop, Without, Lists!ReplaceAt, ReplaceAt, K
<1>9. Lists!Replace
  <2>1. /\ r \in Lists!Roots /\ a \in live \ Lists!Within(r) /\ i \in DOMAIN Children[a]
        /\ k \in {"k", "K", name[r]}
    BY <1>1
  <2>2. \E n \in {"k", "K", name[r]} :
          name' = [y \in Nodes |-> IF y \in gone THEN "none" ELSE IF y = r THEN n ELSE name[y]]
    BY <1>4
  <2> QED
    <3> USE <1>7, <2>1, <2>2 DEF Lists!Replace, gone
    <3> WITNESS r \in Lists!Roots
    <3> WITNESS a \in live \ Lists!Within(r)
    <3> WITNESS i \in DOMAIN Children[a]
    <3> QED
      OBVIOUS
<1> QED
  BY <1>6, <1>9

\* cJSON_ReplaceItemInArray
LEMMA ReplaceInArrayStep ==
  ASSUME IInv, ReplaceInArray
  PROVE  IInv' /\ Lists!Replace
<1>1. PICK r \in Roots : \E a \in live \ Tree(r), which \in Indices :
        LET x == get_array_item(heap, a, which) IN
          x # NULL /\ Became(cJSON_Delete(Relink(heap, a, x, r), x))
  BY DEF ReplaceInArray
<1>2. PICK a \in live \ Tree(r) : \E which \in Indices :
        LET x == get_array_item(heap, a, which) IN
          x # NULL /\ Became(cJSON_Delete(Relink(heap, a, x, r), x))
  BY <1>1
<1>3. PICK x \in Targets(a) \ {NULL} : Became(cJSON_Delete(Relink(heap, a, x, r), x))
  BY <1>2 DEF Targets
<1>4. live \subseteq Nodes /\ Shape(heap, Children)
  BY ForestFacts DEF IInv
<1>5. PICK i \in DOMAIN Children[a] : x = Children[a][i]
  BY <1>4, TargetIs
<1> DEFINE d == cJSON_Delete(Relink(heap, a, x, r), x)
<1>6. live' = d.live /\ heap' = d.heap /\ name' = d.name
  BY <1>3 DEF Became
<1>7. name[r] \in {"k", "K", name[r]}
  OBVIOUS
<1>8. d = cJSON_Delete(Relink(heap, a, x, r), x)
  OBVIOUS
<1> HIDE DEF d
<1> QED
  BY <1>5, <1>6, <1>7, <1>8, ReplaceStep

\* replace_item_in_object, which gives the new name even when it finds nothing.
LEMMA ReplaceInObjectStep ==
  ASSUME IInv, ReplaceInObject
  PROVE  IInv' /\ (Lists!Replace \/ Lists!Rename)
<1>1. PICK r \in Roots : \E a \in live \ Tree(r), k \in {"k", "K"}, cs \in BOOLEAN :
        LET x == get_object_item(heap, a, k, cs)
            d == cJSON_Delete(Relink(heap, a, x, r), x)
        IN IF x = NULL THEN name' = [name EXCEPT ![r] = k] /\ UNCHANGED <<live, heap>>
                       ELSE Became([d EXCEPT !.name[r] = k])
  BY DEF ReplaceInObject
<1>2. PICK a \in live \ Tree(r), k \in {"k", "K"}, cs \in BOOLEAN :
        LET x == get_object_item(heap, a, k, cs)
            d == cJSON_Delete(Relink(heap, a, x, r), x)
        IN IF x = NULL THEN name' = [name EXCEPT ![r] = k] /\ UNCHANGED <<live, heap>>
                       ELSE Became([d EXCEPT !.name[r] = k])
  BY <1>1
<1>3. live \subseteq Nodes /\ Shape(heap, Children) /\ name \in [Nodes -> {"none", "k", "K"}]
  BY ForestFacts DEF IInv
<1>4. r \in Nodes /\ r \in Lists!Roots
  BY <1>3, RootsAre
<1> DEFINE x == get_object_item(heap, a, k, cs)
           d == cJSON_Delete(Relink(heap, a, x, r), x)
<1>5. CASE x = NULL
  <2>1. name' = [name EXCEPT ![r] = k] /\ UNCHANGED <<live, heap>>
    BY <1>2, <1>5
  <2>2. name' \in [Nodes -> {"none", "k", "K"}] /\ Forest(live', heap', Children)
    BY <1>3, <1>4, <2>1 DEF IInv
  <2>3. Children' = Children /\ IInv'
    BY <2>2, NextForest
  <2>4. Lists!Rename
    BY <1>4, <2>1, <2>3 DEF Lists!Rename
  <2> QED
    BY <2>3, <2>4
<1>6. CASE x # NULL
  <2>1. PICK i \in DOMAIN Children[a] : x = Children[a][i]
    BY <1>3, <1>6, FoundByName
  <2>2. Became([d EXCEPT !.name[r] = k])
    BY <1>2, <1>6
  <2>3. d = [live |-> d.live, heap |-> d.heap, name |-> d.name]
    BY DEF cJSON_Delete
  <2> HIDE DEF d
  <2>4. /\ live' = d.live /\ heap' = d.heap /\ name' = [d.name EXCEPT ![r] = k]
    BY <2>2, <2>3 DEF Became
  <2>5. d = cJSON_Delete(Relink(heap, a, x, r), x) /\ k \in {"k", "K", name[r]}
    BY DEF d
  <2> HIDE DEF x
  <2> QED
    BY <2>1, <2>4, <2>5, ReplaceStep
<1> QED
  BY <1>5, <1>6

\* cJSON_CreateIntArray and the others link the items one after the other.
LEMMA CreateFilledStep ==
  ASSUME IInv, CreateFilled
  PROVE  IInv' /\ Lists!Create
<1> DEFINE L == Children
<1>1. PICK x \in Nodes \ live : \E s \in BoundedSeq(Nodes \ (live \cup {x}), MaxNew) \ {<<>>} :
        /\ IsInjective(s)
        /\ live' = live \cup {x} \cup ToSet(s)
        /\ LET At(y) == CHOOSE i \in DOMAIN s : s[i] = y
               After(y) == IF At(y) < Len(s) THEN s[At(y) + 1] ELSE NULL
               Before(y) == IF At(y) = 1 THEN Last(s) ELSE s[At(y) - 1]
           IN heap' = [child |-> [heap.child EXCEPT ![x] = s[1]],
                       next |-> [y \in Nodes |-> IF y \in ToSet(s) THEN After(y) ELSE heap.next[y]],
                       prev |-> [y \in Nodes |-> IF y \in ToSet(s) THEN Before(y) ELSE heap.prev[y]]]
        /\ UNCHANGED name
  BY DEF CreateFilled
<1>2. PICK s \in BoundedSeq(Nodes \ (live \cup {x}), MaxNew) \ {<<>>} :
        /\ IsInjective(s)
        /\ live' = live \cup {x} \cup ToSet(s)
        /\ LET At(y) == CHOOSE i \in DOMAIN s : s[i] = y
               After(y) == IF At(y) < Len(s) THEN s[At(y) + 1] ELSE NULL
               Before(y) == IF At(y) = 1 THEN Last(s) ELSE s[At(y) - 1]
           IN heap' = [child |-> [heap.child EXCEPT ![x] = s[1]],
                       next |-> [y \in Nodes |-> IF y \in ToSet(s) THEN After(y) ELSE heap.next[y]],
                       prev |-> [y \in Nodes |-> IF y \in ToSet(s) THEN Before(y) ELSE heap.prev[y]]]
        /\ UNCHANGED name
  BY <1>1
<1> DEFINE n == Len(s)
           At(y) == CHOOSE i \in DOMAIN s : s[i] = y
           After(y) == IF At(y) < n THEN s[At(y) + 1] ELSE NULL
           Before(y) == IF At(y) = 1 THEN s[n] ELSE s[At(y) - 1]
           M == [L EXCEPT ![x] = s]
           g == heap'
<1>3. /\ L \in [Nodes -> Seq(Nodes)] /\ Shape(heap, L) /\ live \subseteq Nodes /\ Forest(live, heap, L)
      /\ heap \in Heaps
      /\ \A a \in Nodes \ live : L[a] = <<>> /\ ~Listed(L, a)
      /\ \A a \in Nodes : \A y \in ToSet(L[a]) : a \in live /\ y \in live
      /\ name \in [Nodes -> {"none", "k", "K"}] /\ Ranked(L)
  BY ForestFacts DEF IInv
<1> HIDE DEF L
<1>4. /\ s \in Seq(Nodes) /\ n \in Nat /\ n # 0 /\ DOMAIN s = 1 .. n /\ s # <<>>
      /\ \A i \in 1 .. n : s[i] \in Nodes /\ s[i] \notin live /\ s[i] # x
      /\ \A i, j \in 1 .. n : s[i] = s[j] => i = j
  <2>1. PICK m \in 0 .. MaxNew : s \in [1 .. m -> Nodes \ (live \cup {x})]
    BY DEF BoundedSeq, SeqOf
  <2>2. s \in Seq(Nodes \ (live \cup {x})) /\ DOMAIN s = 1 .. m
    BY <2>1, BoundsAssumption
  <2>3. n = m /\ s \in Seq(Nodes)
    BY <2>2
  <2>4. s # <<>>
    OBVIOUS
  <2>5. n # 0
    BY <2>2, <2>4, EmptySeq
  <2>6. \A i, j \in DOMAIN s : s[i] = s[j] => i = j
    BY <1>2 DEF IsInjective
  <2> QED
    BY <2>1, <2>2, <2>3, <2>4, <2>5, <2>6
<1>5. \A i \in 1 .. n : At(s[i]) = i
  BY <1>4
<1>6. /\ g = [child |-> [heap.child EXCEPT ![x] = s[1]],
              next |-> [y \in Nodes |-> IF y \in ToSet(s) THEN After(y) ELSE heap.next[y]],
              prev |-> [y \in Nodes |-> IF y \in ToSet(s) THEN Before(y) ELSE heap.prev[y]]]
      /\ live' = live \cup {x} \cup ToSet(s) /\ UNCHANGED name
  BY <1>2, Zenon DEF Last
<1>7. ToSet(s) \subseteq Nodes \ (live \cup {x}) /\ \A i \in 1 .. n : s[i] \in ToSet(s)
  BY <1>4 DEF ToSet
<1> HIDE DEF At, g
<1>n. n \in Nat /\ n # 0
  BY <1>4
<1>8. ASSUME NEW i \in 1 .. n
      PROVE  /\ After(s[i]) = IF i = n THEN NULL ELSE s[i + 1]
             /\ Before(s[i]) = IF i = 1 THEN s[n] ELSE s[i - 1]
  <2>1. At(s[i]) = i
    BY <1>5
  <2>2. i < n <=> i # n
    <3> HIDE DEF n
    <3> QED
      BY <1>n
  <2> QED
    BY <2>1, <2>2
<1>9. \A y \in ToSet(s) : After(y) \in Nodes \cup {NULL} /\ Before(y) \in Nodes \cup {NULL}
  <2> SUFFICES ASSUME NEW y \in ToSet(s)
               PROVE  After(y) \in Nodes \cup {NULL} /\ Before(y) \in Nodes \cup {NULL}
    OBVIOUS
  <2>1. PICK i \in 1 .. n : y = s[i]
    BY <1>4 DEF ToSet
  <2>2. (i # n => s[i + 1] \in Nodes) /\ (i # 1 => s[i - 1] \in Nodes) /\ s[n] \in Nodes
    <3> HIDE DEF n
    <3>1. (i # n => i + 1 \in 1 .. n) /\ (i # 1 => i - 1 \in 1 .. n) /\ n \in 1 .. n
      BY <1>n
    <3> QED
      BY <1>4, <3>1
  <2> HIDE DEF After, Before
  <2> QED
    BY <1>8, <2>1, <2>2
<1> HIDE DEF After, Before, n
<1>10. /\ \A b \in Nodes : g.child[b] = IF b = x THEN s[1] ELSE heap.child[b]
       /\ \A y \in Nodes : g.next[y] = IF y \in ToSet(s) THEN After(y) ELSE heap.next[y]
       /\ \A y \in Nodes : g.prev[y] = IF y \in ToSet(s) THEN Before(y) ELSE heap.prev[y]
       /\ g \in Heaps
  <2>1. 1 \in 1 .. n /\ s[1] \in Nodes
    BY <1>4
  <2>2. heap.child \in Pointers /\ heap.next \in Pointers /\ heap.prev \in Pointers
    BY <1>3 DEF Heaps
  <2>3. [heap.child EXCEPT ![x] = s[1]] \in Pointers
    BY <2>1, <2>2 DEF Pointers
  <2>4. [y \in Nodes |-> IF y \in ToSet(s) THEN After(y) ELSE heap.next[y]] \in Pointers
    <3>1. \A y \in Nodes : (IF y \in ToSet(s) THEN After(y) ELSE heap.next[y]) \in Nodes \cup {NULL}
      BY <1>9, <2>2 DEF Pointers
    <3> QED
      BY <3>1 DEF Pointers
  <2>5. [y \in Nodes |-> IF y \in ToSet(s) THEN Before(y) ELSE heap.prev[y]] \in Pointers
    <3>1. \A y \in Nodes : (IF y \in ToSet(s) THEN Before(y) ELSE heap.prev[y]) \in Nodes \cup {NULL}
      BY <1>9, <2>2 DEF Pointers
    <3> QED
      BY <3>1 DEF Pointers
  <2>6. g \in Heaps
    BY <1>6, <2>3, <2>4, <2>5 DEF Heaps
  <2>7. \A b \in Nodes : g.child[b] = IF b = x THEN s[1] ELSE heap.child[b]
    BY <1>6, <2>2 DEF Pointers
  <2>8. /\ \A y \in Nodes : g.next[y] = IF y \in ToSet(s) THEN After(y) ELSE heap.next[y]
        /\ \A y \in Nodes : g.prev[y] = IF y \in ToSet(s) THEN Before(y) ELSE heap.prev[y]
    BY <1>6
  <2> QED
    BY <2>6, <2>7, <2>8
<1>11. Linked(g, x, s)
  BY <1>4, <1>7, <1>8, <1>10 DEF Linked, n
<1>12. Shape(g, M)
  <2>1. L[x] = <<>> /\ ToSet(L[x]) = {} /\ x \in Nodes
    BY <1>3 DEF ToSet
  <2>2. \A i, j \in DOMAIN s : s[i] = s[j] => i = j
    BY <1>4
  <2>3. \A y \in ToSet(s) : ~Listed(L, y)
    BY <1>3, <1>7
  <2>4. \A b \in Nodes \ {x} : g.child[b] = heap.child[b]
    BY <1>10
  <2>5. \A y \in Nodes : y \notin ToSet(L[x]) /\ y \notin ToSet(s) =>
          g.next[y] = heap.next[y] /\ g.prev[y] = heap.prev[y]
    BY <1>10
  <2>6. s \in Seq(Nodes) /\ g \in Heaps
    BY <1>4, <1>10
  <2> QED
    BY <1>3, <1>11, <2>1, <2>2, <2>3, <2>4, <2>5, <2>6, OneList
<1>13. M[x] = s /\ \A a \in Nodes \ {x} : M[a] = L[a]
  BY <1>3
<1> HIDE DEF M
<1>14. Ranked(M)
  <2>1. PICK rank \in [Nodes -> Nat] : Ranks(rank, L)
    BY <1>3 DEF Ranked
  <2> DEFINE new == [y \in Nodes |-> IF y \in ToSet(s) THEN 0 ELSE rank[y] + 1]
  <2>2. new \in [Nodes -> Nat]
    OBVIOUS
  <2>3. ASSUME NEW a \in Nodes, NEW y \in ToSet(M[a]) PROVE new[y] < new[a]
    <3>1. CASE a = x
      BY <1>7, <1>13, <2>3, <3>1
    <3>2. CASE a # x
      <4>1. y \in ToSet(L[a]) /\ a \in live /\ y \in live /\ y \in Nodes
        BY <1>3, <1>13, <2>3, <3>2
      <4>2. rank[y] < rank[a] /\ a \notin ToSet(s) /\ y \notin ToSet(s)
        BY <1>7, <2>1, <4>1 DEF Ranks
      <4>3. rank[y] \in Nat /\ rank[a] \in Nat
        BY <4>1
      <4> QED
        BY <4>1, <4>2, <4>3
    <3> QED
      BY <3>1, <3>2
  <2> HIDE DEF new
  <2> QED
    BY <2>2, <2>3 DEF Ranked, Ranks
<1>15. \A a \in Nodes : \A y \in ToSet(M[a]) : a \in live' /\ y \in live'
  BY <1>3, <1>6, <1>13
<1>16. Forest(live', g, M)
  BY <1>3, <1>6, <1>7, <1>12, <1>14, <1>15 DEF Forest
<1>17. Children' = M /\ IInv'
  BY <1>3, <1>6, <1>16, NextForest DEF g
<1>18. Lists!Create
  BY <1>2, <1>6, <1>17
  DEF Lists!Create, Lists!BoundedSeq, Lists!SeqOf, Lists!IsInjective, Lists!ToSet,
      BoundedSeq, SeqOf, IsInjective, ToSet, L, M
<1> QED
  BY <1>17, <1>18

\* A copy has the lists of what was copied.
LEMMA CopyStep ==
  ASSUME IInv, NEW x \in live, NEW recurse \in BOOLEAN, NEW old,
         old = IF recurse THEN Tree(x) ELSE {x},
         NEW f \in Injection(old, Nodes \ live), CopyTo(x, recurse, old, f)
  PROVE  IInv' /\ Lists!Copy
<1> DEFINE L == Children
           D(y) == IF recurse THEN L[y] ELSE <<>>
           R == Range(f)
           Old(n) == CHOOSE y \in old : f[y] = n
           New(y) == IF y = NULL THEN NULL ELSE f[y]
           Parent(y) == CHOOSE p \in old : Contains(ListOf(heap, p), y)
           Place(s, y) == CHOOSE i \in DOMAIN s : s[i] = y
           Before(s, i) == IF i = 1 THEN Last(s) ELSE s[i - 1]
           Sibling(y) == Before(ListOf(heap, Parent(y)), Place(ListOf(heap, Parent(y)), y))
           Child(y) == IF recurse THEN New(heap.child[y]) ELSE NULL
           After(y) == IF y = x THEN NULL ELSE New(heap.next[y])
           Prev(y) == IF y = x THEN NULL ELSE f[Sibling(y)]
           g == heap'
           M == [n \in Nodes |-> IF n \notin R THEN L[n]
                                 ELSE IF recurse THEN [i \in DOMAIN L[Old(n)] |-> f[L[Old(n)][i]]]
                                 ELSE <<>>]
<1>1. /\ live' = live \cup R
      /\ name' = [n \in Nodes |-> IF n \in R THEN name[Old(n)] ELSE name[n]]
      /\ g = [child |-> [n \in Nodes |-> IF n \in R THEN Child(Old(n)) ELSE heap.child[n]],
              next |-> [n \in Nodes |-> IF n \in R THEN After(Old(n)) ELSE heap.next[n]],
              prev |-> [n \in Nodes |-> IF n \in R THEN Prev(Old(n)) ELSE heap.prev[n]]]
  BY Zenon DEF CopyTo
<1>2. /\ L \in [Nodes -> Seq(Nodes)] /\ Shape(heap, L) /\ live \subseteq Nodes /\ Forest(live, heap, L)
      /\ heap \in Heaps /\ Apart(L) /\ Ranked(L)
      /\ \A y \in Nodes : Listed(L, y) \/ Loose(heap, y)
      /\ \A a \in Nodes \ live : L[a] = <<>> /\ ~Listed(L, a)
      /\ \A a \in Nodes : \A y \in ToSet(L[a]) : a \in live /\ y \in live
      /\ name \in [Nodes -> {"none", "k", "K"}]
  BY ForestFacts DEF IInv
<1>3. /\ old \subseteq live /\ x \in old
      /\ old = IF recurse THEN Lists!Within(x) ELSE {x}
      /\ recurse => old = Below(L, x)
  <2>1. x \in Nodes
    BY <1>2
  <2> QED
    BY <1>2, <2>1, TreesAre, BelowIs
<1> HIDE DEF L
<1>4. /\ f \in [old -> Nodes \ live] /\ R = {f[y] : y \in old} /\ R \subseteq Nodes \ live
      /\ \A y, z \in old : f[y] = f[z] => y = z
  <2>1. f \in [old -> Nodes \ live] /\ IsInjective(f)
    BY DEF Injection
  <2>2. \A y, z \in old : f[y] = f[z] => y = z
    BY <2>1 DEF IsInjective
  <2> QED
    BY <2>1, <2>2 DEF Range
<1>5. /\ \A y \in old : Old(f[y]) = y
      /\ \A n \in R : Old(n) \in old /\ f[Old(n)] = n
  <2>1. \A y \in old : Old(f[y]) = y
    BY <1>4
  <2> HIDE DEF Old
  <2> QED
    BY <1>4, <2>1
<1> HIDE DEF R, Old
\* The lists that are copied stay below x, and x is not in them.
<1>6. \A p \in old : ToSet(D(p)) \subseteq old \ {x}
  <2> SUFFICES ASSUME NEW p \in old, recurse PROVE ToSet(L[p]) \subseteq old \ {x}
    BY DEF ToSet
  <2>1. p \in Nodes /\ x \in Nodes /\ p \in Below(L, x) /\ old = Below(L, x)
    BY <1>2, <1>3
  <2>2. ToSet(L[p]) \subseteq old
    BY <1>2, <2>1, BelowIs DEF Keeps
  <2>3. x \notin ToSet(L[p])
    BY <1>2, <2>1, NotBelowOwn
  <2> QED
    BY <2>2, <2>3
<1>7. \A y \in old \ {x} : \E p \in old : y \in ToSet(D(p))
  <2> SUFFICES ASSUME NEW y \in old \ {x} PROVE \E p \in old : y \in ToSet(D(p))
    OBVIOUS
  <2>1. recurse /\ old = Below(L, x) /\ x \in Nodes
    BY <1>2, <1>3
  <2> QED
    BY <1>2, <2>1, BelowUp
<1>8. ASSUME NEW p \in old
      PROVE  /\ D(p) \in Seq(Nodes) /\ Len(D(p)) \in Nat /\ DOMAIN D(p) = 1 .. Len(D(p))
             /\ \A i \in 1 .. Len(D(p)) : D(p)[i] \in old /\ D(p)[i] # x
             /\ D(p) = <<>> <=> Len(D(p)) = 0
             /\ D(p) # <<>> => recurse /\ D(p) = L[p]
  <2>1. p \in Nodes
    BY <1>2, <1>3
  <2>2. D(p) \in Seq(Nodes)
    BY <1>2, <2>1
  <2>3. D(p) # <<>> => recurse /\ D(p) = L[p]
    OBVIOUS
  <2>4. ToSet(D(p)) \subseteq old \ {x}
    BY <1>6
  <2> HIDE DEF D
  <2>5. Len(D(p)) \in Nat /\ DOMAIN D(p) = 1 .. Len(D(p)) /\ (D(p) = <<>> <=> Len(D(p)) = 0)
    BY <2>2, EmptySeq
  <2>6. \A i \in DOMAIN D(p) : D(p)[i] \in old \ {x}
    BY <2>4 DEF ToSet
  <2> QED
    BY <2>2, <2>3, <2>5, <2>6
<1>9. \A y \in old : Child(y) = IF D(y) = <<>> THEN NULL ELSE f[D(y)[1]]
  <2> SUFFICES ASSUME NEW y \in old PROVE Child(y) = IF D(y) = <<>> THEN NULL ELSE f[D(y)[1]]
    OBVIOUS
  <2>1. y \in Nodes
    BY <1>2, <1>3
  <2>2. Linked(heap, y, L[y])
    BY <1>2, <2>1 DEF Shape
  <2>3. CASE ~recurse
    BY <2>3
  <2>4. CASE recurse /\ L[y] = <<>>
    BY <2>2, <2>4 DEF Linked
  <2>5. CASE recurse /\ L[y] # <<>>
    <3>1. D(y) = L[y] /\ D(y) # <<>>
      BY <2>5
    <3>2. 1 \in 1 .. Len(D(y))
      BY <1>8, <3>1
    <3>3. D(y)[1] \in old
      BY <1>8, <3>2
    <3>4. heap.child[y] = D(y)[1] /\ heap.child[y] # NULL
      BY <1>2, <1>3, <2>2, <3>1, <3>3 DEF Linked
    <3> HIDE DEF D
    <3> QED
      BY <2>5, <3>1, <3>4
  <2> QED
    BY <2>3, <2>4, <2>5
<1>10. ASSUME NEW p \in old, NEW i \in DOMAIN D(p), NEW y, y = D(p)[i]
       PROVE  /\ After(y) = IF i = Len(D(p)) THEN NULL ELSE f[D(p)[i + 1]]
              /\ Prev(y) = IF i = 1 THEN f[D(p)[Len(D(p))]] ELSE f[D(p)[i - 1]]
  <2>1. p \in Nodes
    BY <1>2, <1>3
  <2>2. /\ i \in 1 .. Len(D(p)) /\ Len(D(p)) \in Nat /\ DOMAIN D(p) = 1 .. Len(D(p))
        /\ \A j \in 1 .. Len(D(p)) : D(p)[j] \in old
        /\ y \in old /\ y # x
    BY <1>8, <1>10
  <2>3. D(p) = L[p]
    BY <1>8, <2>2
  <2>4. Linked(heap, p, L[p])
    BY <1>2, <2>1 DEF Shape
  <2> DEFINE s == D(p)
  <2>5. heap.next[y] = IF i = Len(s) THEN NULL ELSE s[i + 1]
    BY <1>10, <2>3, <2>4 DEF Linked
  <2>6. After(y) = IF i = Len(s) THEN NULL ELSE f[s[i + 1]]
    <3>1. CASE i = Len(s)
      BY <2>2, <2>5, <3>1
    <3>2. CASE i # Len(s)
      <4>1. i + 1 \in 1 .. Len(s)
        BY <2>2, <3>2
      <4>2. s[i + 1] \in old
        BY <2>2, <4>1
      <4> HIDE DEF s
      <4>3. s[i + 1] # NULL
        BY <1>2, <1>3, <4>2
      <4> QED
        BY <2>2, <2>5, <3>2, <4>2, <4>3
    <3> QED
      BY <3>1, <3>2
  <2>7. Parent(y) = p
    <3>0. \A q \in old : ListOf(heap, q) = L[q]
      BY <1>2, <1>3, ListIs
    <3>1. Contains(ListOf(heap, p), y)
      BY <1>10, <2>2, <2>3, <3>0 DEF Contains
    <3>2. ASSUME NEW q \in old, Contains(ListOf(heap, q), y) PROVE q = p
      <4>1. q \in Nodes /\ L[q] \in Seq(Nodes)
        BY <1>2, <1>3
      <4>2. PICK j \in 1 .. Len(L[q]) : L[q][j] = y
        BY <3>0, <3>2 DEF Contains
      <4>3. j \in DOMAIN L[q]
        BY <4>1, <4>2
      <4>4. i \in DOMAIN L[p] /\ L[p][i] = L[q][j]
        BY <1>10, <2>3, <4>2
      <4> QED
        BY <1>2, <2>1, <4>1, <4>3, <4>4 DEF Apart
    <3> QED
      BY <3>1, <3>2
  <2>8. ListOf(heap, Parent(y)) = s
    BY <1>2, <2>1, <2>3, <2>7, ListIs
  <2>9. Place(s, y) = i
    <3>1. \A j \in DOMAIN s : s[j] = y => j = i
      BY <1>2, <1>10, <2>1, <2>3 DEF Apart
    <3>2. i \in DOMAIN s /\ s[i] = y
      BY <1>10
    <3> HIDE DEF s
    <3> QED
      BY <3>1, <3>2
  <2> HIDE DEF Parent, Place, s
  <2>10. Sibling(y) = IF i = 1 THEN s[Len(s)] ELSE s[i - 1]
    BY <2>8, <2>9 DEF Last
  <2>11. Prev(y) = IF i = 1 THEN f[s[Len(s)]] ELSE f[s[i - 1]]
    <3> HIDE DEF Sibling
    <3> QED
      BY <2>2, <2>10
  <2> HIDE DEF After, Prev
  <2> QED
    BY <2>6, <2>11 DEF s
<1> HIDE DEF Child, After, Prev, g
\* The new lists.
<1>11. /\ \A n \in Nodes \ R : M[n] = L[n]
       /\ \A y \in old : M[f[y]] = [i \in DOMAIN D(y) |-> f[D(y)[i]]]
  <2>1. \A n \in Nodes \ R : M[n] = L[n]
    OBVIOUS
  <2>2. ASSUME NEW y \in old PROVE M[f[y]] = [i \in DOMAIN D(y) |-> f[D(y)[i]]]
    <3>1. f[y] \in R /\ f[y] \in Nodes /\ Old(f[y]) = y
      BY <1>4, <1>5
    <3>2. M[f[y]] = IF recurse THEN [i \in DOMAIN L[y] |-> f[L[y][i]]] ELSE <<>>
      BY <3>1
    <3>3. <<>> = [i \in DOMAIN <<>> |-> f[<<>>[i]]]
      OBVIOUS
    <3>4. CASE recurse
      BY <3>2, <3>4
    <3>5. CASE ~recurse
      <4>1. D(y) = <<>>
        BY <3>5
      <4> QED
        BY <3>2, <3>3, <3>5, <4>1
    <3> QED
      BY <3>4, <3>5
  <2> QED
    BY <2>1, <2>2
<1> HIDE DEF D
<1>12. ASSUME NEW y \in old
       PROVE  /\ M[f[y]] \in Seq(Nodes) /\ Len(M[f[y]]) = Len(D(y)) /\ DOMAIN M[f[y]] = 1 .. Len(D(y))
              /\ \A i \in 1 .. Len(D(y)) : M[f[y]][i] = f[D(y)[i]]
              /\ M[f[y]] = <<>> <=> D(y) = <<>>
  <2> DEFINE t == M[f[y]]
             n == Len(D(y))
  <2>1. /\ n \in Nat /\ DOMAIN D(y) = 1 .. n /\ \A i \in 1 .. n : D(y)[i] \in old
        /\ D(y) = <<>> <=> n = 0
    BY <1>8
  <2>2. t = [i \in 1 .. n |-> f[D(y)[i]]]
    BY <1>11, <2>1
  <2>3. \A i \in 1 .. n : f[D(y)[i]] \in Nodes
    BY <1>4, <2>1
  <2> HIDE DEF t, n
  <2>4. t \in Seq(Nodes) /\ Len(t) = n /\ DOMAIN t = 1 .. n /\ \A i \in 1 .. n : t[i] = f[D(y)[i]]
    BY <2>1, <2>2, <2>3
  <2>5. t = <<>> <=> n = 0
    BY <2>4, EmptySeq
  <2> QED
    BY <2>1, <2>4, <2>5 DEF t, n
<1>m. DOMAIN M = Nodes /\ M = [n \in Nodes |-> M[n]]
  OBVIOUS
<1> HIDE DEF M
<1>13. M \in [Nodes -> Seq(Nodes)]
  <2>1. ASSUME NEW n \in Nodes PROVE M[n] \in Seq(Nodes)
    <3>1. CASE n \in R
      <4>1. PICK y \in old : n = f[y]
        BY <1>4, <3>1
      <4> QED
        BY <1>12, <4>1
    <3>2. CASE n \notin R
      BY <1>2, <1>11, <3>2
    <3> QED
      BY <3>1, <3>2
  <2> QED
    BY <1>m, <2>1
\* The new pointers.
<1>14. /\ \A y \in old : /\ g.child[f[y]] = Child(y) /\ g.next[f[y]] = After(y)
                         /\ g.prev[f[y]] = Prev(y)
       /\ \A n \in Nodes \ R : /\ g.child[n] = heap.child[n] /\ g.next[n] = heap.next[n]
                               /\ g.prev[n] = heap.prev[n]
  BY <1>1, <1>4, <1>5
<1>15. \A y \in old : /\ Child(y) \in Nodes \cup {NULL} /\ After(y) \in Nodes \cup {NULL}
                      /\ Prev(y) \in Nodes \cup {NULL}
  <2> SUFFICES ASSUME NEW y \in old
               PROVE  /\ Child(y) \in Nodes \cup {NULL} /\ After(y) \in Nodes \cup {NULL}
                      /\ Prev(y) \in Nodes \cup {NULL}
    OBVIOUS
  <2>0. \A z \in old : f[z] \in Nodes
    BY <1>4
  <2>1. Child(y) \in Nodes \cup {NULL}
    <3>1. D(y) # <<>> => 1 \in 1 .. Len(D(y))
      BY <1>8
    <3>2. D(y) # <<>> => D(y)[1] \in old
      BY <1>8, <3>1
    <3> QED
      BY <1>9, <2>0, <3>2
  <2>2. CASE y = x
    BY <2>1, <2>2 DEF After, Prev
  <2>3. CASE y # x
    <3>1. PICK p \in old : y \in ToSet(D(p))
      BY <1>7, <2>3
    <3>2. PICK i \in DOMAIN D(p) : y = D(p)[i]
      BY <3>1 DEF ToSet
    <3>3. i \in 1 .. Len(D(p)) /\ Len(D(p)) \in Nat /\ \A j \in 1 .. Len(D(p)) : D(p)[j] \in old
      BY <1>8
    <3>4. /\ i # Len(D(p)) => i + 1 \in 1 .. Len(D(p))
          /\ i # 1 => i - 1 \in 1 .. Len(D(p))
          /\ Len(D(p)) \in 1 .. Len(D(p))
      BY <3>3
    <3>5. /\ i # Len(D(p)) => D(p)[i + 1] \in old
          /\ i # 1 => D(p)[i - 1] \in old
          /\ D(p)[Len(D(p))] \in old
      BY <3>3, <3>4
    <3>6. /\ After(y) = IF i = Len(D(p)) THEN NULL ELSE f[D(p)[i + 1]]
          /\ Prev(y) = IF i = 1 THEN f[D(p)[Len(D(p))]] ELSE f[D(p)[i - 1]]
      BY <1>10, <3>2
    <3> QED
      BY <2>0, <2>1, <3>5, <3>6
  <2> QED
    BY <2>2, <2>3
<1>16. g \in Heaps
  <2>1. heap.child \in Pointers /\ heap.next \in Pointers /\ heap.prev \in Pointers
    BY <1>2 DEF Heaps
  <2>2. /\ [n \in Nodes |-> IF n \in R THEN Child(Old(n)) ELSE heap.child[n]] \in Pointers
        /\ [n \in Nodes |-> IF n \in R THEN After(Old(n)) ELSE heap.next[n]] \in Pointers
        /\ [n \in Nodes |-> IF n \in R THEN Prev(Old(n)) ELSE heap.prev[n]] \in Pointers
    BY <1>5, <1>15, <2>1 DEF Pointers
  <2> QED
    BY <1>1, <2>2 DEF Heaps
<1>17. ASSUME NEW a \in Nodes PROVE Linked(g, a, M[a])
  <2>1. CASE a \in R
    <3>1. PICK y \in old : a = f[y]
      BY <1>4, <2>1
    <3> DEFINE t == M[a]
               n == Len(D(y))
    <3>2. /\ t \in Seq(Nodes) /\ Len(t) = n /\ DOMAIN t = 1 .. n
          /\ \A i \in 1 .. n : t[i] = f[D(y)[i]]
          /\ t = <<>> <=> D(y) = <<>>
      BY <1>12, <3>1
    <3>3. /\ n \in Nat /\ DOMAIN D(y) = 1 .. n /\ \A i \in 1 .. n : D(y)[i] \in old
          /\ D(y) = <<>> <=> n = 0
      BY <1>8
    <3> HIDE DEF t, n
    <3>4. g.child[a] = IF t = <<>> THEN NULL ELSE t[1]
      <4>1. g.child[a] = IF D(y) = <<>> THEN NULL ELSE f[D(y)[1]]
        BY <1>9, <1>14, <3>1
      <4>2. D(y) # <<>> => 1 \in 1 .. n
        BY <3>3
      <4> QED
        BY <3>2, <4>1, <4>2
    <3>5. ASSUME NEW i \in DOMAIN t
          PROVE  /\ g.next[t[i]] = IF i = Len(t) THEN NULL ELSE t[i + 1]
                 /\ g.prev[t[i]] = IF i = 1 THEN t[Len(t)] ELSE t[i - 1]
      <4>1. i \in 1 .. n /\ i \in DOMAIN D(y) /\ t[i] = f[D(y)[i]] /\ D(y)[i] \in old
        BY <3>2, <3>3
      <4>2. /\ After(D(y)[i]) = IF i = n THEN NULL ELSE f[D(y)[i + 1]]
            /\ Prev(D(y)[i]) = IF i = 1 THEN f[D(y)[n]] ELSE f[D(y)[i - 1]]
        BY <1>10, <4>1 DEF n
      <4>3. /\ i # n => i + 1 \in 1 .. n
            /\ i # 1 => i - 1 \in 1 .. n
            /\ n \in 1 .. n
        BY <3>3, <4>1
      <4>4. /\ i # n => t[i + 1] = f[D(y)[i + 1]]
            /\ i # 1 => t[i - 1] = f[D(y)[i - 1]]
            /\ t[n] = f[D(y)[n]]
        BY <3>2, <4>3
      <4>5. g.next[t[i]] = After(D(y)[i]) /\ g.prev[t[i]] = Prev(D(y)[i]) /\ Len(t) = n
        BY <1>14, <3>2, <4>1
      <4> QED
        BY <4>2, <4>4, <4>5
    <3> QED
      BY <3>4, <3>5 DEF Linked, t
  <2>2. CASE a \notin R
    <3>1. M[a] = L[a] /\ Linked(heap, a, L[a]) /\ g.child[a] = heap.child[a]
      BY <1>2, <1>11, <1>14, <2>2 DEF Shape
    <3>2. \A i \in DOMAIN L[a] : L[a][i] \in Nodes \ R
      <4> TAKE i \in DOMAIN L[a]
      <4>1. L[a][i] \in ToSet(L[a])
        BY DEF ToSet
      <4> QED
        BY <1>2, <1>4, <4>1
    <3>3. \A i \in DOMAIN L[a] :
            g.next[L[a][i]] = heap.next[L[a][i]] /\ g.prev[L[a][i]] = heap.prev[L[a][i]]
      BY <1>14, <3>2
    <3>4. \A i \in DOMAIN L[a] :
            /\ heap.next[L[a][i]] = IF i = Len(L[a]) THEN NULL ELSE L[a][i + 1]
            /\ heap.prev[L[a][i]] = IF i = 1 THEN L[a][Len(L[a])] ELSE L[a][i - 1]
      BY <3>1 DEF Linked
    <3>5. g.child[a] = IF L[a] = <<>> THEN NULL ELSE L[a][1]
      BY <3>1 DEF Linked
    <3>6. \A i \in DOMAIN L[a] :
            /\ g.next[L[a][i]] = IF i = Len(L[a]) THEN NULL ELSE L[a][i + 1]
            /\ g.prev[L[a][i]] = IF i = 1 THEN L[a][Len(L[a])] ELSE L[a][i - 1]
      BY <3>3, <3>4
    <3>7. Linked(g, a, L[a])
      BY <3>5, <3>6 DEF Linked
    <3> QED
      BY <3>1, <3>7
  <2> QED
    BY <2>1, <2>2
\* Where the items of a list come from.
<1>18. ASSUME NEW a \in Nodes, NEW i \in DOMAIN M[a]
       PROVE  \/ a \notin R /\ M[a] = L[a] /\ M[a][i] \in live
              \/ \E y \in old : /\ a = f[y] /\ i \in DOMAIN D(y) /\ D(y) = L[y]
                                /\ M[a][i] = f[L[y][i]] /\ L[y][i] \in old
  <2>1. CASE a \in R
    <3>1. PICK y \in old : a = f[y]
      BY <1>4, <2>1
    <3>2. i \in 1 .. Len(D(y)) /\ M[a][i] = f[D(y)[i]]
      BY <1>12, <1>18, <3>1
    <3>3. i \in DOMAIN D(y) /\ D(y)[i] \in old
      BY <1>8, <3>2
    <3>4. D(y) = L[y]
      <4>1. Len(D(y)) # 0
        BY <1>8, <3>2
      <4> QED
        BY <1>8, <4>1
    <3> QED
      BY <3>1, <3>2, <3>3, <3>4
  <2>2. CASE a \notin R
    <3>1. M[a] = L[a]
      BY <1>11, <2>2
    <3>2. M[a][i] \in ToSet(L[a])
      BY <1>18, <3>1 DEF ToSet
    <3> QED
      BY <1>2, <2>2, <3>1, <3>2
  <2> QED
    BY <2>1, <2>2
<1>19. Apart(M)
  <2> SUFFICES ASSUME NEW a \in Nodes, NEW b \in Nodes, NEW i \in DOMAIN M[a], NEW j \in DOMAIN M[b],
                      M[a][i] = M[b][j]
               PROVE  a = b /\ i = j
    BY DEF Apart
  <2>1. CASE a \notin R
    <3>1. M[a] = L[a] /\ M[a][i] \in live
      BY <1>4, <1>18, <2>1
    <3>2. b \notin R /\ M[b] = L[b]
      BY <1>4, <1>18, <3>1
    <3> QED
      BY <1>2, <3>1, <3>2 DEF Apart
  <2>2. CASE a \in R
    <3>1. PICK y \in old : /\ a = f[y] /\ i \in DOMAIN L[y]
                           /\ M[a][i] = f[L[y][i]] /\ L[y][i] \in old
      BY <1>18, <2>2
    <3>2. M[b][j] \notin live
      BY <1>4, <3>1
    <3>3. PICK z \in old : /\ b = f[z] /\ j \in DOMAIN L[z]
                           /\ M[b][j] = f[L[z][j]] /\ L[z][j] \in old
      BY <1>18, <3>2
    <3>4. L[y][i] = L[z][j]
      BY <1>4, <3>1, <3>3
    <3>5. y \in Nodes /\ z \in Nodes
      BY <1>2, <1>3
    <3> QED
      BY <1>2, <3>1, <3>3, <3>4, <3>5 DEF Apart
  <2> QED
    BY <2>1, <2>2
<1>20. ASSUME NEW n \in Nodes PROVE Listed(M, n) \/ Loose(g, n)
  <2>1. CASE n \in R
    <3>1. PICK y \in old : n = f[y]
      BY <1>4, <2>1
    <3>2. CASE y = x
      BY <1>14, <3>1, <3>2 DEF Loose, After, Prev
    <3>3. CASE y # x
      <4>1. PICK p \in old : y \in ToSet(D(p))
        BY <1>7, <3>3
      <4>2. PICK i \in DOMAIN D(p) : y = D(p)[i]
        BY <4>1 DEF ToSet
      <4>3. f[p] \in Nodes /\ DOMAIN D(p) = 1 .. Len(D(p))
        BY <1>4, <1>8
      <4>4. DOMAIN M[f[p]] = DOMAIN D(p)
        BY <1>12, <4>3
      <4>5. M[f[p]][i] = f[D(p)[i]]
        BY <1>12, <4>3
      <4> QED
        BY <3>1, <4>2, <4>3, <4>4, <4>5 DEF Listed
    <3> QED
      BY <3>2, <3>3
  <2>2. CASE n \notin R /\ Listed(L, n)
    <3>1. PICK a \in Nodes : n \in ToSet(L[a])
      BY <2>2 DEF Listed, ToSet
    <3>2. a \notin R
      BY <1>2, <1>4, <3>1
    <3> QED
      BY <1>11, <3>1, <3>2 DEF Listed, ToSet
  <2>3. CASE n \notin R /\ ~Listed(L, n)
    BY <1>2, <1>14, <2>3 DEF Loose
  <2> QED
    BY <2>1, <2>2, <2>3
<1>21. Shape(g, M)
  BY <1>13, <1>16, <1>17, <1>19, <1>20 DEF Shape
<1>22. Ranked(M)
  <2>1. PICK rank \in [Nodes -> Nat] : Ranks(rank, L)
    BY <1>2 DEF Ranked
  <2> DEFINE new == [n \in Nodes |-> IF n \in R THEN rank[Old(n)] ELSE rank[n]]
  <2>2. new \in [Nodes -> Nat]
    BY <1>2, <1>3, <1>5
  <2>3. ASSUME NEW a \in Nodes, NEW z \in ToSet(M[a]) PROVE new[z] < new[a]
    <3>1. PICK i \in DOMAIN M[a] : z = M[a][i]
      BY <2>3 DEF ToSet
    <3>2. CASE a \notin R
      <4>1. M[a] = L[a] /\ z \in live
        BY <1>4, <1>18, <3>1, <3>2
      <4>2. z \in Nodes /\ z \notin R /\ z \in ToSet(L[a])
        BY <1>2, <1>4, <2>3, <4>1
      <4> QED
        BY <2>1, <3>2, <4>2 DEF Ranks
    <3>3. CASE a \in R
      <4>1. PICK y \in old : /\ a = f[y] /\ i \in DOMAIN L[y]
                             /\ z = f[L[y][i]] /\ L[y][i] \in old
        BY <1>18, <3>1, <3>3
      <4>2. Old(a) = y /\ Old(z) = L[y][i] /\ z \in R /\ z \in Nodes /\ y \in Nodes
        BY <1>2, <1>3, <1>4, <1>5, <4>1
      <4>3. L[y][i] \in ToSet(L[y])
        BY <4>1 DEF ToSet
      <4> QED
        BY <2>1, <3>3, <4>2, <4>3 DEF Ranks
    <3> QED
      BY <3>2, <3>3
  <2> HIDE DEF new
  <2> QED
    BY <2>2, <2>3 DEF Ranked, Ranks
<1>23. ASSUME NEW a \in Nodes, NEW z \in ToSet(M[a]) PROVE a \in live' /\ z \in live'
  <2>1. PICK i \in DOMAIN M[a] : z = M[a][i]
    BY <1>23 DEF ToSet
  <2>2. CASE a \notin R
    <3>1. M[a] = L[a] /\ z \in live
      BY <1>4, <1>18, <2>1, <2>2
    <3> QED
      BY <1>1, <1>2, <1>23, <3>1
  <2>3. CASE a \in R
    <3>1. z \in R
      BY <1>4, <1>18, <2>1, <2>3
    <3> QED
      BY <1>1, <2>3, <3>1
  <2> QED
    BY <2>2, <2>3
<1>24. Forest(live', g, M)
  BY <1>1, <1>2, <1>4, <1>21, <1>22, <1>23 DEF Forest
<1>25. name' \in [Nodes -> {"none", "k", "K"}]
  BY <1>1, <1>2, <1>3, <1>5
<1>26. Children' = M /\ IInv'
  BY <1>24, <1>25, NextForest DEF g
<1>27. Lists!Copy
  <2>1. f \in Lists!Injection(old, Nodes \ live) /\ R = Lists!Range(f)
    BY DEF Lists!Injection, Injection, Lists!IsInjective, IsInjective, Lists!Range, Range, R
  <2> DEFINE was == IF recurse THEN Lists!Within(x) ELSE {x}
             Was(n) == CHOOSE y \in was : f[y] = n
  <2>2. was = old
    BY <1>3
  <2>3. \A n \in Nodes : Was(n) = Old(n)
    BY <2>2 DEF Old
  <2>4. f \in Lists!Injection(was, Nodes \ live)
    BY <2>1, <2>2
  <2>5. live' = live \cup Lists!Range(f)
    BY <1>1, <2>1
  <2>6. name' = [n \in Nodes |-> IF n \in Lists!Range(f) THEN name[Was(n)] ELSE name[n]]
    BY <1>1, <2>1, <2>3
  <2>7. Children' = [n \in Nodes |->
                       IF n \notin Lists!Range(f) THEN Children[n]
                       ELSE IF recurse THEN [i \in DOMAIN Children[Was(n)] |-> f[Children[Was(n)][i]]]
                       ELSE <<>>]
    BY <1>26, <2>1, <2>3 DEF M, L
  <2> QED
    BY <2>4, <2>5, <2>6, <2>7 DEF Lists!Copy
<1> QED
  BY <1>26, <1>27

\* cJSON_Duplicate
LEMMA DuplicateStep ==
  ASSUME IInv, Duplicate
  PROVE  IInv' /\ Lists!Copy
<1>1. PICK x \in live, recurse \in BOOLEAN :
        \E f \in Injection(IF recurse THEN Tree(x) ELSE {x}, Nodes \ live) :
          CopyTo(x, recurse, IF recurse THEN Tree(x) ELSE {x}, f)
  BY DEF Duplicate
<1> DEFINE old == IF recurse THEN Tree(x) ELSE {x}
<1>2. PICK f \in Injection(old, Nodes \ live) : CopyTo(x, recurse, old, f)
  BY <1>1
<1>3. old = IF recurse THEN Tree(x) ELSE {x}
  OBVIOUS
<1> HIDE DEF old
<1> QED
  BY <1>2, <1>3, CopyStep

-----------------------------------------------------------------------------
(* The theorems *)

\* Every call keeps the invariant and is a call of ItemLists.
LEMMA NextStep ==
  ASSUME IInv, [Next]_vars
  PROVE  IInv' /\ [Lists!Next]_Lists!vars
<1>1. CASE CreateItem
  BY <1>1, CreateItemStep DEF Lists!Next
<1>2. CASE CreateFilled
  BY <1>2, CreateFilledStep DEF Lists!Next
<1>3. CASE Add
  BY <1>3, AddStep DEF Lists!Next
<1>4. CASE AddNew
  BY <1>4, AddNewStep DEF Lists!Next
<1>5. CASE InsertItem
  BY <1>5, InsertItemStep DEF Lists!Next
<1>6. CASE DetachItem
  BY <1>6, DetachItemStep DEF Lists!Next
<1>7. CASE Delete
  BY <1>7, DeleteStep DEF Lists!Next
<1>8. CASE ReplaceInArray
  BY <1>8, ReplaceInArrayStep DEF Lists!Next
<1>9. CASE ReplaceInObject
  BY <1>9, ReplaceInObjectStep DEF Lists!Next
<1>10. CASE Duplicate
  BY <1>10, DuplicateStep DEF Lists!Next
<1>11. CASE UNCHANGED vars
  <2>1. live' = live /\ heap' = heap /\ name' = name
    BY <1>11 DEF vars
  <2>2. Children' = Children
    BY <2>1 DEF Children
  <2>3. IInv'
    BY <2>1, <2>2 DEF IInv
  <2>4. Lists!vars' = Lists!vars
    BY <2>1, <2>2 DEF Lists!vars
  <2> QED
    BY <2>3, <2>4
<1> QED
  BY <1>1, <1>2, <1>3, <1>4, <1>5, <1>6, <1>7, <1>8, <1>9, <1>10, <1>11 DEF Next

\* After every sequence of calls of cJSON.c the pointers next, prev and child
\* of what is allocated are those of a forest of lists.
THEOREM Invariant == Spec => []IInv
<1>1. Init => IInv
  BY Start
<1>2. IInv /\ [Next]_vars => IInv'
  BY NextStep
<1> QED
  BY <1>1, <1>2, PTL DEF Spec

\* In every list prev leads to the item before, and from the first to the last,
\* where add_item_to_array appends.
THEOREM WellLinkedHolds == Spec => []WellLinked
<1>1. IInv => WellLinked
  <2> SUFFICES ASSUME IInv, NEW a \in live, NEW i \in DOMAIN ListOf(heap, a)
               PROVE  LET s == ListOf(heap, a) IN
                        heap.prev[s[i]] = IF i = 1 THEN Last(s) ELSE s[i - 1]
    BY DEF WellLinked
  <2> DEFINE s == Children[a]
  <2>1. a \in Nodes /\ Shape(heap, Children)
    BY DEF IInv, Forest
  <2>2. ListOf(heap, a) = s /\ Linked(heap, a, s)
    BY <2>1, ListIs DEF Shape
  <2> HIDE DEF s
  <2>3. heap.prev[s[i]] = IF i = 1 THEN s[Len(s)] ELSE s[i - 1]
    BY <2>2 DEF Linked
  <2> QED
    BY <2>2, <2>3 DEF Last
<1> QED
  BY <1>1, Invariant, PTL

\* No item is in two places, and no pointer leads to what was freed, whatever
\* was added, detached, replaced, copied and deleted: cJSON_Delete frees
\* nothing twice.
THEOREM EachItemOnceHolds == Spec => []EachItemOnce
<1>1. IInv => EachItemOnce
  <2> SUFFICES ASSUME IInv PROVE EachItemOnce
    OBVIOUS
  <2> DEFINE L == Children
  <2>1. /\ live \subseteq Nodes /\ Shape(heap, L) /\ L \in [Nodes -> Seq(Nodes)] /\ Apart(L)
        /\ \A x \in Nodes : Listed(L, x) \/ Loose(heap, x)
        /\ \A a \in Nodes : \A y \in ToSet(L[a]) : a \in live /\ y \in live
    BY ForestFacts DEF IInv
  <2>2. \A a \in live : ListOf(heap, a) = L[a]
    BY <2>1, ListIs
  <2> HIDE DEF L
  <2>3. ASSUME NEW a \in live, NEW b \in live,
               NEW i \in DOMAIN ListOf(heap, a), NEW j \in DOMAIN ListOf(heap, b),
               ListOf(heap, a)[i] = ListOf(heap, b)[j]
        PROVE  a = b /\ i = j
    BY <2>1, <2>2, <2>3 DEF Apart
  <2>4. ASSUME NEW a \in Nodes, NEW i \in DOMAIN L[a]
        PROVE  /\ L[a][i] \in live /\ heap.next[L[a][i]] \in live \cup {NULL}
               /\ heap.prev[L[a][i]] \in live \cup {NULL}
    <3> DEFINE s == L[a]
    <3>1. DOMAIN s = 1 .. Len(s) /\ Len(s) \in Nat /\ i \in 1 .. Len(s)
      BY <2>1, <2>4
    <3>2. \A j \in DOMAIN s : s[j] \in live
      BY <2>1 DEF ToSet
    <3>3. /\ heap.next[s[i]] = IF i = Len(s) THEN NULL ELSE s[i + 1]
          /\ heap.prev[s[i]] = IF i = 1 THEN s[Len(s)] ELSE s[i - 1]
      BY <2>1, <2>4 DEF Shape, Linked
    <3> HIDE DEF s
    <3>4. /\ i # Len(s) => i + 1 \in DOMAIN s
          /\ i # 1 => i - 1 \in DOMAIN s
          /\ Len(s) \in DOMAIN s /\ i \in DOMAIN s
      BY <3>1
    <3>5. /\ i # Len(s) => s[i + 1] \in live
          /\ i # 1 => s[i - 1] \in live
          /\ s[Len(s)] \in live /\ s[i] \in live
      BY <3>2, <3>4
    <3> QED
      BY <3>3, <3>5 DEF s
  <2>5. ASSUME NEW x \in live PROVE {heap.next[x], heap.prev[x], heap.child[x]} \subseteq live \cup {NULL}
    <3>1. heap.child[x] \in live \cup {NULL}
      <4>1. heap.child[x] = IF L[x] = <<>> THEN NULL ELSE L[x][1]
        BY <2>1 DEF Shape, Linked
      <4>2. L[x] # <<>> => 1 \in DOMAIN L[x]
        BY <2>1
      <4> QED
        BY <2>1, <2>4, <4>1, <4>2
    <3>2. heap.next[x] \in live \cup {NULL} /\ heap.prev[x] \in live \cup {NULL}
      BY <2>1, <2>4 DEF Listed, Loose
    <3> QED
      BY <3>1, <3>2
  <2> QED
    BY <2>3, <2>5 DEF EachItemOnce
<1> QED
  BY <1>1, Invariant, PTL

\* What cJSON_DetachItemViaPointer took out, and every other root, has no
\* neighbours: cJSON_Delete frees the item and what is below it, no more.
THEOREM DetachedPointsNowhereHolds == Spec => []DetachedPointsNowhere
<1>1. IInv => DetachedPointsNowhere
  <2> SUFFICES ASSUME IInv, NEW x \in Roots PROVE heap.next[x] = NULL /\ heap.prev[x] = NULL
    BY DEF DetachedPointsNowhere
  <2>1. x \in Nodes /\ ~Listed(Children, x)
    BY RootsAre DEF IInv, Forest
  <2> QED
    BY <2>1 DEF IInv, Forest, Shape, Loose
<1> QED
  BY <1>1, Invariant, PTL

\* Every call does to the pointers what ItemLists says of the sequences of
\* items: the list is what JsonStore takes it for.
THEOREM RefinesHolds == Spec => Refines
<1>1. Init => Lists!Init
  BY Start
<1>2. IInv /\ [Next]_vars => [Lists!Next]_Lists!vars
  BY NextStep
<1> QED
  BY <1>1, <1>2, Invariant, PTL DEF Spec, Refines, Lists!Spec

=============================================================================
