-------------------------- MODULE JsonParserProofs --------------------------
(***************************************************************************)
(* What the parser of cJSON does on any text: it looks at no byte outside  *)
(* of it, writes no byte outside of the memory for a string, counts the    *)
(* nesting, and turns escapes into the UTF-8 of their code points.         *)
(***************************************************************************)
EXTENDS JsonParser, FiniteSetTheorems, SequenceTheorems, WellFoundedInduction,
        NaturalsInduction, TLAPS

TextByte == 0 .. 255

\* What strlen finds the end of.
IsText(t) == t \in Seq(TextByte) /\ t # <<>> /\ t[Len(t)] = 0

-----------------------------------------------------------------------------
(* Code points and their bytes *)

\* Quotients and remainders of the numbers that occur.
LEMMA Halves ==
  ASSUME NEW n \in Nat
  PROVE  /\ n \div 64 \in Nat /\ n % 64 \in 0 .. 63
         /\ n = ((n \div 64) * 64) + (n % 64)
  BY SMTT(60)

LEMMA Quotients ==
  ASSUME NEW n \in Nat
  PROVE  /\ n \div 4096 = (n \div 64) \div 64
         /\ n \div 262144 = ((n \div 64) \div 64) \div 64
  BY SMTT(60)

LEMMA LastUnits ==
  ASSUME NEW u \in Int
  PROVE  /\ u \in HighSurrogates => u % 1024 = u - 55296
         /\ u \in LowSurrogates => u % 1024 = u - 56320
  BY SMTT(60) DEF HighSurrogates, LowSurrogates

\* The encoding is UTF-8, in as few bytes as there can be.
LEMMA Utf8Decodes ==
  ASSUME NEW cp \in Nat, cp <= 1114111
  PROVE  /\ Utf8(cp) \in Seq(TextByte) /\ Len(Utf8(cp)) <= 4
         /\ cp < 65536 => Len(Utf8(cp)) <= 3
         /\ Decodes(Utf8(cp), cp)
<1> DEFINE a == cp \div 64
           b == a \div 64
           c == b \div 64
<1>1. /\ a \in 0 .. 17407 /\ cp % 64 \in 0 .. 63 /\ cp = (a * 64) + (cp % 64)
  BY Halves, SMTT(60)
<1>2. /\ b \in 0 .. 271 /\ a % 64 \in 0 .. 63 /\ a = (b * 64) + (a % 64)
  BY <1>1, Halves, SMTT(60)
<1>3. /\ c \in 0 .. 4 /\ b % 64 \in 0 .. 63 /\ b = (c * 64) + (b % 64)
  BY <1>2, Halves, SMTT(60)
<1>4. cp \div 4096 = b /\ cp \div 262144 = c
  BY Quotients, SMTT(60)
<1> HIDE DEF a, b, c
<1>5. CASE cp < 128
  BY <1>5, SMTT(60) DEF Utf8, Decodes, TextByte
<1>6. CASE cp >= 128 /\ cp < 2048
  <2>1. Utf8(cp) = <<192 + a, 128 + (cp % 64)>> /\ a \in 2 .. 31
    BY <1>1, <1>6, SMTT(60) DEF Utf8, a
  <2>2. cp = ((192 + a) - 192) * 64 + ((128 + (cp % 64)) - 128)
    BY <1>1, SMTT(60)
  <2> QED
    BY <1>1, <1>6, <2>1, <2>2, SMTT(60) DEF Decodes, TextByte
<1>7. CASE cp >= 2048 /\ cp < 65536
  <2>1. Utf8(cp) = <<224 + b, 128 + (a % 64), 128 + (cp % 64)>> /\ b \in 0 .. 15
    BY <1>1, <1>2, <1>4, <1>7, SMTT(60) DEF Utf8, a
  <2>2. cp = ((224 + b) - 224) * 4096 + ((128 + (a % 64)) - 128) * 64 + ((128 + (cp % 64)) - 128)
    BY <1>1, <1>2, SMTT(60)
  <2>3. 128 + (a % 64) \in 128 .. 191 /\ 128 + (cp % 64) \in 128 .. 191 /\ 224 + b \in 224 .. 239
    BY <1>1, <1>2, <2>1, SMTT(60)
  <2>4. Decodes(Utf8(cp), cp)
    <3>1. /\ Len(Utf8(cp)) = 3 /\ Utf8(cp)[1] = 224 + b
          /\ Utf8(cp)[2] = 128 + (a % 64) /\ Utf8(cp)[3] = 128 + (cp % 64)
      BY <2>1, SMTT(60)
    <3>2. \A i \in 2 .. 3 : Utf8(cp)[i] \in 128 .. 191
      BY <2>3, <3>1, SMTT(60)
    <3>3. cp = (Utf8(cp)[1] - 224) * 4096 + (Utf8(cp)[2] - 128) * 64 + (Utf8(cp)[3] - 128)
      BY <2>2, <3>1, SMTT(60)
    <3>4. Utf8(cp)[1] \in 224 .. 239
      BY <2>3, <3>1, SMTT(60)
    <3> HIDE DEF b
    <3> QED
      BY <1>7, <3>1, <3>2, <3>3, <3>4, SMTT(60) DEF Decodes
  <2> QED
    BY <1>7, <2>1, <2>3, <2>4, SMTT(60) DEF TextByte
<1>8. CASE cp >= 65536
  <2>1. Utf8(cp) = <<240 + c, 128 + (b % 64), 128 + (a % 64), 128 + (cp % 64)>>
    BY <1>4, <1>8, SMTT(60) DEF Utf8, a
  <2>2. cp = ((240 + c) - 240) * 262144 + ((128 + (b % 64)) - 128) * 4096
             + ((128 + (a % 64)) - 128) * 64 + ((128 + (cp % 64)) - 128)
    BY <1>1, <1>2, <1>3, SMTT(60)
  <2> QED
    BY <1>1, <1>2, <1>3, <1>8, <2>1, <2>2, SMTT(60) DEF Decodes, TextByte
<1> QED
  BY <1>5, <1>6, <1>7, <1>8, SMTT(60)


-----------------------------------------------------------------------------
(* Places of the text *)

LEMMA TextFacts ==
  ASSUME IsText(text)
  PROVE  /\ text \in Seq(TextByte) /\ Length \in Nat \ {0}
         /\ At(Length - 1) = 0
         /\ \A i \in Int : At(i) \in TextByte
<1>1. text \in Seq(TextByte) /\ text # <<>> /\ text[Len(text)] = 0
  BY DEF IsText
<1>2. Length \in Nat /\ Length # 0
  BY <1>1, EmptySeq DEF Length
<1>3. At(Length - 1) = 0
  BY <1>1, <1>2 DEF At, Length
<1>4. ASSUME NEW i \in Int PROVE At(i) \in TextByte
  <2>1. CASE i \in 0 .. Length - 1
    <3>1. i + 1 \in 1 .. Len(text)
      BY <1>2, <2>1 DEF Length
    <3>2. text[i + 1] \in TextByte
      BY <1>1, <3>1, ElementOfSeq
    <3> QED
      BY <2>1, <3>2 DEF At
  <2>2. CASE i \notin 0 .. Length - 1
    BY <2>2 DEF At, TextByte
  <2> QED
    BY <2>1, <2>2
<1> QED
  BY <1>1, <1>2, <1>3, <1>4

\* Skipping stays within the text and does not go back.
LEMMA SkipStays ==
  ASSUME IsText(text), NEW o \in Nat, o < Length
  PROVE  Skip(o) \in o .. Length - 1
<1> DEFINE black == {i \in o .. Length - 1 : At(i) > 32}
<1>1. Length \in Nat
  BY TextFacts
<1>2. can_access(o)
  BY DEF can_access
<1>3. CASE black = {}
  BY <1>1, <1>2, <1>3 DEF Skip
<1>4. CASE black # {}
  <2>1. PICK i \in black : \A j \in black : ~(<<j, i>> \in OpToRel(<, Nat))
    <3>1. black \subseteq Nat
      BY <1>1
    <3> QED
      BY <1>4, <3>1, NatLessThanWellFounded, WFMin
  <2>2. \A j \in black : i <= j
    <3> SUFFICES ASSUME NEW j \in black PROVE i <= j
      OBVIOUS
    <3>1. i \in Nat /\ j \in Nat
      BY <1>1
    <3>2. ~(j < i)
      BY <2>1, <3>1 DEF OpToRel
    <3> QED
      BY <3>1, <3>2
  <2>3. (CHOOSE k \in black : \A j \in black : k <= j) \in black
    BY <2>2
  <2>4. Skip(o) = CHOOSE k \in black : \A j \in black : k <= j
    BY <1>2, <1>4 DEF Skip
  <2> HIDE DEF black
  <2>5. Skip(o) \in black
    BY <2>3, <2>4
  <2> QED
    BY <2>5 DEF black
<1> QED
  BY <1>3, <1>4

\* A byte that is not the terminator has another one behind it.
LEMMA NotLast ==
  ASSUME IsText(text), NEW i \in Nat, i < Length, At(i) # 0
  PROVE  i + 1 < Length
<1>1. Length \in Nat /\ At(Length - 1) = 0
  BY TextFacts
<1>2. i # Length - 1
  BY <1>1
<1> QED
  BY <1>1, <1>2

-----------------------------------------------------------------------------
(* How many backslashes of a set lie before a place *)

Below(S, q) == Cardinality({s \in S : s < q})
Spaced(S) == S \in SUBSET Nat /\ IsFiniteSet(S) /\ \A s \in S : s + 1 \notin S

LEMMA BelowNat ==
  ASSUME NEW S, Spaced(S), NEW q \in Nat
  PROVE  IsFiniteSet({s \in S : s < q}) /\ Below(S, q) \in Nat
<1>1. IsFiniteSet({s \in S : s < q})
  BY FS_Subset, {s \in S : s < q} \in SUBSET S DEF Spaced
<1> QED
  BY <1>1, FS_CardinalityType DEF Below

LEMMA BelowNext ==
  ASSUME NEW S, Spaced(S), NEW q \in Nat
  PROVE  Below(S, q + 1) = Below(S, q) + (IF q \in S THEN 1 ELSE 0)
<1> DEFINE L == {s \in S : s < q}
<1>0. \A s \in S : s < q + 1 <=> s < q \/ s = q
  BY DEF Spaced
<1>1. IsFiniteSet(L) /\ q \notin L /\ Cardinality(L) = Below(S, q) /\ Cardinality(L) \in Nat
  BY BelowNat DEF Below
<1>2. CASE q \in S
  <2>1. {s \in S : s < q + 1} = L \union {q}
    BY <1>0, <1>2
  <2> HIDE DEF L
  <2>2. Cardinality(L \union {q}) = Cardinality(L) + 1
    BY <1>1, FS_AddElement
  <2> QED
    BY <1>1, <1>2, <2>1, <2>2 DEF Below
<1>3. CASE q \notin S
  <2>1. {s \in S : s < q + 1} = L
    BY <1>0, <1>3
  <2> QED
    BY <1>1, <1>3, <2>1 DEF Below
<1> QED
  BY <1>2, <1>3

\* Of two places side by side at most one is in the set.
LEMMA BelowTwo ==
  ASSUME NEW S, Spaced(S), NEW q \in Nat
  PROVE  /\ Below(S, q) \in Nat /\ Below(S, q + 2) \in Nat
         /\ Below(S, q + 2) <= Below(S, q) + 1
<1>1. Below(S, q) \in Nat
  BY BelowNat
<1>2. Below(S, q + 1) = Below(S, q) + (IF q \in S THEN 1 ELSE 0)
  BY BelowNext
<1>3. Below(S, (q + 1) + 1) = Below(S, q + 1) + (IF q + 1 \in S THEN 1 ELSE 0)
  BY BelowNext, q + 1 \in Nat
<1>4. (q + 1) + 1 = q + 2
  OBVIOUS
<1>5. ~(q \in S /\ q + 1 \in S)
  BY DEF Spaced
<1> QED
  BY <1>1, <1>2, <1>3, <1>4, <1>5

LEMMA BelowSix ==
  ASSUME NEW S, Spaced(S), NEW q \in Nat
  PROVE  /\ Below(S, q + 6) \in Nat
         /\ Below(S, q + 6) <= Below(S, q) + 3
<1>1. Below(S, q) \in Nat /\ Below(S, q + 2) \in Nat /\ Below(S, q + 2) <= Below(S, q) + 1
  BY BelowTwo
<1>2. Below(S, (q + 2) + 2) \in Nat /\ Below(S, (q + 2) + 2) <= Below(S, q + 2) + 1
  BY BelowTwo, q + 2 \in Nat
<1>3. Below(S, (q + 4) + 2) \in Nat /\ Below(S, (q + 4) + 2) <= Below(S, q + 4) + 1
  BY BelowTwo, q + 4 \in Nat
<1>4. (q + 2) + 2 = q + 4 /\ (q + 4) + 2 = q + 6
  OBVIOUS
<1> QED
  BY <1>1, <1>2, <1>3, <1>4

\* The rest of the set fits between a place and the end.
LEMMA BelowRest ==
  ASSUME NEW S, Spaced(S), NEW q \in Nat, NEW e \in Nat, q <= e, \A s \in S : s < e
  PROVE  Cardinality(S) \in Nat /\ Cardinality(S) <= Below(S, q) + (e - q)
<1> DEFINE L == {s \in S : s < q}
           R == {s \in S : q <= s}
<1>1. IsFiniteSet(S) /\ Cardinality(S) \in Nat
  BY FS_CardinalityType DEF Spaced
<1>2. IsFiniteSet(L) /\ Cardinality(L) = Below(S, q) /\ Cardinality(L) \in Nat
  BY BelowNat DEF Below
<1>3. IsFiniteSet(R) /\ Cardinality(R) <= e - q /\ Cardinality(R) \in Nat
  <2>1. R \in SUBSET (q .. e - 1)
    <3> SUFFICES ASSUME NEW s \in S, q <= s PROVE s \in q .. e - 1
      OBVIOUS
    <3>1. s \in Nat /\ s < e
      BY DEF Spaced
    <3> QED
      BY <3>1
  <2>2. IsFiniteSet(q .. e - 1) /\ Cardinality(q .. e - 1) = e - q
    <3>1. /\ IsFiniteSet(q .. e - 1)
          /\ Cardinality(q .. e - 1) = IF q > e - 1 THEN 0 ELSE (e - 1) - q + 1
      BY FS_Interval, q \in Int, e - 1 \in Int
    <3> QED
      BY <3>1
  <2> HIDE DEF R
  <2> QED
    BY <2>1, <2>2, FS_Subset, FS_CardinalityType
<1>4. S = L \union R /\ L \cap R = {}
  <2>1. \A s \in S : (s < q \/ q <= s) /\ ~(s < q /\ q <= s)
    BY DEF Spaced
  <2> QED
    BY <2>1
<1> HIDE DEF L, R
<1>5. Cardinality(S) = Cardinality(L) + Cardinality(R) - Cardinality(L \cap R)
  BY <1>2, <1>3, <1>4, FS_Union
<1>6. Cardinality(L \cap R) = 0
  BY <1>4, FS_EmptySet
<1> QED
  BY <1>1, <1>2, <1>3, <1>5, <1>6

\* All of the set is below a place that is behind it.
LEMMA BelowAll ==
  ASSUME NEW S, NEW q, \A s \in S : s < q
  PROVE  Below(S, q) = Cardinality(S)
  BY {s \in S : s < q} = S DEF Below

-----------------------------------------------------------------------------
(* The inductive invariant *)

\* parse_string is at the quote at offset, and the backslashes counted so far
\* lie behind it, each with its own byte behind it before input_end.
InString ==
  /\ At(offset) = Quote /\ offset + 1 <= input_pointer
  /\ Spaced(skipped) /\ \A p \in skipped : offset + 1 <= p /\ p + 2 <= input_end
  /\ \A p \in skipped : At(p) = Backslash

MeasureInv ==
  /\ input_pointer = offset + 1 /\ offset + 1 <= input_end /\ input_end <= Length
  /\ output = <<>>

Nearer(i, e) == IF i <= e THEN i ELSE e

\* What is copied so far, and the backslashes on the way, fit between the quote
\* and input_pointer, or input_end if the last escape went beyond it.
CopyInv ==
  /\ offset + 1 <= input_end /\ input_end < Length /\ At(input_end) = Quote
  /\ input_pointer <= input_end + 1
  /\ allocated = input_end - offset - Cardinality(skipped) + 1
  /\ Len(output) + Below(skipped, input_pointer)
       <= Nearer(input_pointer, input_end) - offset - 1

InMember == pc \in {"name", "colon", "next", "measure name", "copy name"}

Inside == outside = FALSE

IInv ==
  /\ TypeOK
  /\ IsText(text)
  /\ Inside
  /\ pc # "failed" => offset < Length /\ depth = Len(calls)
  /\ InMember => calls # <<>>
  /\ Measuring \/ Copying => InString
  /\ Measuring => MeasureInv
  /\ Copying => CopyInv
  /\ Len(output) <= allocated

\* The start of cJSON_Parse on any text.
Begun ==
  /\ IsText(text)
  /\ pc = "value" /\ offset = Skip(0)
  /\ depth = 0 /\ calls = <<>>
  /\ input_pointer = 0 /\ input_end = 0 /\ skipped = {} /\ allocated = 0 /\ output = <<>>
  /\ outside = FALSE

LEMMA BegunIInv == ASSUME Begun PROVE IInv
<1>1. text \in Seq(TextByte) /\ Length \in Nat \ {0} /\ Skip(0) \in 0 .. Length - 1
  BY TextFacts, SkipStays DEF Begun
<1>2. TypeOK
  <2>1. text \in Seq(0 .. 255) /\ offset \in Nat
    BY <1>1 DEF Begun, TextByte
  <2>4. outside \in BOOLEAN
    BY DEF Begun
  <2>2. depth \in 0 .. Limit /\ calls \in Seq({"array", "object"}) /\ output \in Seq(0 .. 255)
    BY LimitAssumption DEF Begun
  <2>3. skipped \subseteq Nat /\ IsFiniteSet(skipped)
    BY FS_EmptySet DEF Begun
  <2> QED
    BY <2>1, <2>2, <2>3, <2>4 DEF Begun, TypeOK
<1>3. offset < Length /\ depth = Len(calls) /\ Len(output) <= allocated
  BY <1>1 DEF Begun
<1> QED
  BY <1>2, <1>3 DEF Begun, IInv, InMember, Measuring, Copying, Inside

LEMMA InitIInv == ASSUME Init PROVE IInv
<1>1. \A t \in Texts : IsText(t)
  BY TextsAssumption DEF IsText, TextByte
<1> QED
  BY <1>1, BegunIInv DEF Init, Begun

\* A step to where no string is being read.
LEMMA ReturnedKeeps ==
  ASSUME IInv, UNCHANGED <<text, input_pointer, input_end, skipped, allocated>>,
         output' \in Seq(TextByte), Len(output') <= allocated, Inside',
         pc' \in {"value", "name", "colon", "next", "done", "failed"},
         offset' \in Nat, depth' \in 0 .. Limit, calls' \in Seq({"array", "object"}),
         pc' # "failed" => offset' < Length /\ depth' = Len(calls'),
         pc' \in {"name", "colon", "next"} => calls' # <<>>
  PROVE  IInv'
<1>1. TypeOK'
  BY DEF IInv, TypeOK, Inside, TextByte
<1>2. ~InMember' \/ calls' # <<>>
  BY DEF InMember
<1>3. ~Measuring' /\ ~Copying'
  BY DEF Measuring, Copying
<1>4. IsText(text)' /\ (Len(output) <= allocated)' /\ Length' = Length
  BY DEF IInv, Length
<1> QED
  BY <1>1, <1>2, <1>3, <1>4 DEF IInv

\* The same if the strings are left alone.
LEMMA Elsewhere ==
  ASSUME IInv, UNCHANGED <<text, strings>>, Inside',
         pc' \in {"value", "name", "colon", "next", "done", "failed"},
         offset' \in Nat, depth' \in 0 .. Limit, calls' \in Seq({"array", "object"}),
         pc' # "failed" => offset' < Length /\ depth' = Len(calls'),
         pc' \in {"name", "colon", "next"} => calls' # <<>>
  PROVE  IInv'
<1>1. /\ UNCHANGED <<text, input_pointer, input_end, skipped, allocated>>
      /\ output' \in Seq(TextByte) /\ Len(output') <= allocated
  BY DEF strings, IInv, TypeOK, TextByte
<1> QED
  BY <1>1, ReturnedKeeps

LEMMA FailKeeps ==
  ASSUME IInv, NEW o \in Nat, Fail(o), Inside'
  PROVE  IInv'
<1>1. depth' \in 0 .. Limit /\ calls' \in Seq({"array", "object"})
  BY DEF Fail, IInv, TypeOK
<1> QED
  BY <1>1, Elsewhere DEF Fail

LEMMA ReturnKeeps ==
  ASSUME IInv, pc # "failed", NEW v, NEW o \in Nat, o < Length, Return(v, o), UNCHANGED strings, Inside'
  PROVE  IInv'
<1>1. depth' \in 0 .. Limit /\ calls' \in Seq({"array", "object"}) /\ depth' = Len(calls')
  BY DEF Return, IInv, TypeOK
<1>2. UNCHANGED <<text, strings>>
  BY DEF Return
<1> QED
  BY <1>1, <1>2, Elsewhere DEF Return

\* What the invariant says of the place in the text.
LEMMA AtHand ==
  ASSUME IInv
  PROVE  /\ IsText(text) /\ text \in Seq(TextByte) /\ Length \in Nat \ {0}
         /\ offset \in Nat /\ Inside
         /\ pc # "failed" => offset < Length
         /\ pc # "failed" /\ At(offset) # 0 => offset + 1 < Length
  BY TextFacts, NotLast DEF IInv, TypeOK

LEMMA LiteralStep == ASSUME IInv, ParseLiteral PROVE IInv'
<1>1. PICK w \in DOMAIN Literals : IsLiteral(w) /\ Return([t |-> w], offset + Len(Literals[w]))
  BY DEF ParseLiteral
<1> DEFINE word == Literals[w]
           end == offset + Len(word)
<1>2. Len(word) \in 4 .. 5 /\ word[Len(word)] # 0
  <2>1. w \in {"null", "false", "true"}
    BY DEF Literals
  <2>2. Literals["null"] = <<110, 117, 108, 108>> /\ Literals["false"] = <<102, 97, 108, 115, 101>>
        /\ Literals["true"] = <<116, 114, 117, 101>>
    BY DEF Literals
  <2>3. CASE w = "null"
    <3>1. word = <<110, 117, 108, 108>>
      BY <2>2, <2>3
    <3> HIDE DEF word
    <3> QED
      BY <3>1
  <2>4. CASE w = "false"
    <3>1. word = <<102, 97, 108, 115, 101>>
      BY <2>2, <2>4
    <3> HIDE DEF word
    <3> QED
      BY <3>1
  <2>5. CASE w = "true"
    <3>1. word = <<116, 114, 117, 101>>
      BY <2>2, <2>5
    <3> HIDE DEF word
    <3> QED
      BY <3>1
  <2> QED
    BY <2>1, <2>3, <2>4, <2>5
<1> HIDE DEF word
<1>3. end \in Nat /\ end <= Length /\ SubSeq(text, offset + 1, end) = word
  BY <1>1, <1>2, AtHand DEF IsLiteral, word
<1>4. end < Length
  <2> HIDE DEF end
  <2>0. Len(word) = end - offset
    BY <1>2, AtHand DEF end
  <2>1. end - 1 \in 0 .. Length - 1 /\ end - 1 \in Nat
    BY <1>2, <1>3, <2>0, AtHand
  <2>2. text[end] = word[Len(word)]
    BY <1>2, <1>3, <2>0, AtHand DEF Length
  <2>3. At(end - 1) # 0
    <3>1. At(end - 1) = text[end]
      BY <1>3, <2>1 DEF At
    <3> QED
      BY <1>2, <2>2, <3>1
  <2>4. (end - 1) + 1 < Length
    BY <2>1, <2>3, NotLast, AtHand
  <2> QED
    BY <1>3, <2>4
<1>5. pc # "failed" /\ UNCHANGED strings /\ Inside'
  BY AtHand DEF ParseLiteral, Inside
<1> QED
  BY <1>1, <1>3, <1>4, <1>5, ReturnKeeps DEF word

\* The longest number that strtod takes is one of those that it takes.
LEMMA LongestTaken ==
  ASSUME NEW taken, taken \subseteq 0 .. NumberMax, taken # {}
  PROVE  (CHOOSE n \in taken : \A m \in taken : m <= n) \in taken
<1> DEFINE left == {NumberMax - n : n \in taken}
<1>1. left # {} /\ left \subseteq Nat
  <2>1. \A n \in taken : NumberMax - n \in Nat
    BY NumberAssumption
  <2> QED
    BY <2>1
<1>2. PICK l \in left : \A k \in left : ~(<<k, l>> \in OpToRel(<, Nat))
  BY <1>1, NatLessThanWellFounded, WFMin
<1>3. PICK n \in taken : l = NumberMax - n
  OBVIOUS
<1>4. \A m \in taken : m <= n
  <2> SUFFICES ASSUME NEW m \in taken PROVE m <= n
    OBVIOUS
  <2>1. NumberMax - m \in left /\ NumberMax - m \in Nat /\ l \in Nat
    BY <1>1
  <2>2. ~(NumberMax - m < l)
    BY <1>2, <2>1 DEF OpToRel
  <2> QED
    BY <1>3, <2>2, NumberAssumption
<1> QED
  BY <1>4

LEMMA NumberStep == ASSUME IInv, ParseNumber PROVE IInv'
<1> DEFINE copied == {n \in 0 .. NumberMax :
                        /\ offset + n <= Length
                        /\ \A i \in offset .. offset + n - 1 : At(i) \in NumberBytes}
           taken == {n \in copied : n > 0 /\ SubSeq(text, offset + 1, offset + n) \in NumberTexts}
           Longest == CHOOSE n \in taken : \A m \in taken : m <= n
<1>1. Inside' /\ pc # "failed"
  BY AtHand DEF ParseNumber, Inside
<1>2. CASE taken = {}
  BY <1>1, <1>2, FailKeeps, AtHand DEF ParseNumber
<1>3. CASE taken # {}
  <2>1. Longest \in taken
    BY <1>3, LongestTaken
  <2>2. Return([t |-> "number", n |-> SubSeq(text, offset + 1, offset + Longest)], offset + Longest)
        /\ UNCHANGED strings
    BY <1>3 DEF ParseNumber
  <2> HIDE DEF Longest
  <2>3. Longest \in Nat /\ Longest > 0 /\ offset + Longest <= Length
        /\ \A i \in offset .. offset + Longest - 1 : At(i) \in NumberBytes
    BY <2>1, NumberAssumption
  <2> DEFINE last == offset + Longest - 1
  <2>4. last \in Nat /\ last < Length /\ At(last) # 0
    <3>1. last \in Nat /\ last < Length /\ last \in offset .. last
      BY <2>3, AtHand
    <3>2. At(last) \in NumberBytes /\ 0 \notin NumberBytes
      BY <2>3, <3>1 DEF NumberBytes
    <3> QED
      BY <3>1, <3>2
  <2>5. offset + Longest < Length
    <3> HIDE DEF last
    <3>1. last + 1 < Length
      BY <2>4, NotLast, AtHand
    <3> QED
      BY <2>3, <3>1, AtHand DEF last
  <2> QED
    BY <1>1, <2>2, <2>3, <2>5, ReturnKeeps, AtHand
<1> QED
  BY <1>2, <1>3

LEMMA ContainerStep == ASSUME IInv, ParseContainer PROVE IInv'
<1> DEFINE first == Skip(offset + 1)
<1>1. pc # "failed" /\ Inside'
  BY AtHand DEF ParseContainer, Inside
<1>2. PICK type \in {"array", "object"} :
        /\ At(offset) = Open(type)
        /\ IF depth >= Limit THEN Fail(offset)
           ELSE IF can_access(first) /\ At(first) = Close(type)
           THEN Return([t |-> type, child |-> <<>>], first + 1) /\ UNCHANGED strings
           ELSE IF ~can_access(first)
           THEN /\ pc' = "failed" /\ offset' = first - 1 /\ depth' = depth + 1
                /\ UNCHANGED <<text, calls, built, strings>>
           ELSE /\ Call(type, first)
                /\ depth' = depth + 1
                /\ calls' = Append(calls, type)
                /\ built' = Append(built, [k |-> <<>>, child |-> <<>>])
                /\ UNCHANGED <<text, strings>>
  BY DEF ParseContainer, TooDeep
<1>3. first \in offset + 1 .. Length - 1 /\ can_access(first) /\ first \in Nat
  <2>1. offset + 1 < Length
    BY <1>1, <1>2, AtHand DEF Open
  <2> QED
    BY <2>1, SkipStays, AtHand DEF can_access
<1> HIDE DEF first
<1>4. CASE depth >= Limit
  BY <1>1, <1>2, <1>4, FailKeeps, AtHand
<1>5. CASE ~(depth >= Limit) /\ At(first) = Close(type)
  <2>1. first + 1 < Length
    BY <1>3, <1>5, NotLast, AtHand DEF Close
  <2>2. Return([t |-> type, child |-> <<>>], first + 1) /\ UNCHANGED strings
    BY <1>2, <1>3, <1>5
  <2> QED
    BY <1>1, <1>3, <2>1, <2>2, ReturnKeeps
<1>6. CASE ~(depth >= Limit) /\ At(first) # Close(type)
  <2>1. /\ Call(type, first) /\ depth' = depth + 1 /\ calls' = Append(calls, type)
        /\ UNCHANGED <<text, strings>>
    BY <1>2, <1>3, <1>6
  <2>2. depth \in 0 .. Limit /\ calls \in Seq({"array", "object"}) /\ depth = Len(calls)
    BY <1>1 DEF IInv, TypeOK
  <2>3. depth' \in 0 .. Limit /\ calls' \in Seq({"array", "object"}) /\ depth' = Len(calls') /\ calls' # <<>>
    BY <1>6, <2>1, <2>2, LimitAssumption
  <2>4. pc' \in {"value", "name"} /\ offset' = first
    BY <2>1 DEF Call
  <2> QED
    BY <1>1, <1>3, <2>1, <2>3, <2>4, Elsewhere, AtHand
<1> QED
  BY <1>4, <1>5, <1>6

LEMMA NothingStep == ASSUME IInv, ParseNothing PROVE IInv'
  BY FailKeeps, AtHand DEF ParseNothing, Inside

LEMMA NextStep == ASSUME IInv, ParseNext PROVE IInv'
<1> DEFINE type == calls[Len(calls)]
           o == Skip(offset)
           below == SubSeq(calls, 1, Len(calls) - 1)
<1>1. pc = "next" /\ Inside' /\ calls # <<>>
  BY AtHand DEF ParseNext, IInv, InMember, Inside
<1>2. o \in offset .. Length - 1 /\ o \in Nat /\ can_access(o)
  BY <1>1, SkipStays, AtHand DEF can_access
<1>3. /\ calls \in Seq({"array", "object"}) /\ Len(calls) \in Nat /\ Len(calls) > 0
      /\ type \in {"array", "object"} /\ depth \in 0 .. Limit /\ depth = Len(calls)
  BY <1>1 DEF IInv, TypeOK
<1>4. IF can_access(o) /\ At(o) = Comma
      THEN Call(type, Skip(o + 1)) /\ UNCHANGED <<text, depth, calls, built, strings>>
      ELSE IF ~can_access(o) \/ At(o) # Close(type) THEN Fail(o)
      ELSE /\ pc' = IF below = <<>> THEN "done" ELSE "next"
           /\ offset' = o + 1 /\ depth' = depth - 1 /\ calls' = below
           /\ UNCHANGED <<text, strings>>
  BY DEF ParseNext, EndCall, Callers
<1> HIDE DEF o
<1>5. CASE At(o) = Comma
  <2>1. o + 1 < Length
    BY <1>2, <1>5, NotLast, AtHand DEF Comma
  <2>2. Skip(o + 1) \in o + 1 .. Length - 1
    BY <1>2, <2>1, SkipStays, AtHand
  <2>3. pc' \in {"value", "name"} /\ offset' = Skip(o + 1) /\ UNCHANGED <<text, depth, calls, built, strings>>
    BY <1>2, <1>4, <1>5 DEF Call
  <2> QED
    BY <1>1, <1>2, <1>3, <2>2, <2>3, Elsewhere, AtHand
<1>6. CASE At(o) # Comma /\ At(o) # Close(type)
  BY <1>1, <1>2, <1>4, <1>6, FailKeeps
<1>7. CASE At(o) # Comma /\ At(o) = Close(type)
  <2>1. o + 1 < Length
    BY <1>2, <1>7, NotLast, AtHand DEF Close
  <2>2. /\ pc' = (IF below = <<>> THEN "done" ELSE "next")
        /\ offset' = o + 1 /\ depth' = depth - 1 /\ calls' = below
        /\ UNCHANGED <<text, strings>>
    BY <1>2, <1>4, <1>7
  <2>3. below \in Seq({"array", "object"}) /\ Len(below) = Len(calls) - 1
    BY <1>3
  <2>4. depth' \in 0 .. Limit
    BY <1>3, <2>2, LimitAssumption
  <2> HIDE DEF below
  <2> QED
    BY <1>1, <1>2, <1>3, <2>1, <2>2, <2>3, <2>4, Elsewhere
<1> QED
  BY <1>5, <1>6, <1>7

LEMMA ColonStep == ASSUME IInv, ParseColon PROVE IInv'
<1> DEFINE o == Skip(offset)
<1>1. pc = "colon" /\ Inside'
  BY AtHand DEF ParseColon, Inside
<1>2. o \in offset .. Length - 1 /\ o \in Nat /\ can_access(o)
  BY <1>1, SkipStays, AtHand DEF can_access
<1>3. calls \in Seq({"array", "object"}) /\ depth \in 0 .. Limit /\ depth = Len(calls)
  BY <1>1 DEF IInv, TypeOK
<1>4. IF can_access(o) /\ At(o) = Colon
      THEN Call("array", Skip(o + 1)) /\ UNCHANGED <<text, depth, calls, built, strings>>
      ELSE Fail(o)
  BY DEF ParseColon
<1> HIDE DEF o
<1>5. CASE At(o) = Colon
  <2>1. o + 1 < Length
    BY <1>2, <1>5, NotLast, AtHand DEF Colon
  <2>2. Skip(o + 1) \in o + 1 .. Length - 1
    BY <1>2, <2>1, SkipStays, AtHand
  <2>3. pc' = "value" /\ offset' = Skip(o + 1) /\ UNCHANGED <<text, depth, calls, built, strings>>
    BY <1>2, <1>4, <1>5 DEF Call
  <2> QED
    BY <1>1, <1>2, <1>3, <2>2, <2>3, Elsewhere, AtHand
<1>6. CASE At(o) # Colon
  BY <1>1, <1>2, <1>4, <1>6, FailKeeps
<1> QED
  BY <1>5, <1>6
\* A step that begins or continues a string.
LEMMA OnString ==
  ASSUME IInv, UNCHANGED <<text, cursor>>, Inside', pc # "failed",
         pc' \in {"measure", "measure name", "copy", "copy name"},
         pc' \in {"measure name", "copy name"} => calls # <<>>,
         input_pointer' \in Nat, input_end' \in Nat, allocated' \in Nat,
         skipped' \subseteq Nat, output' \in Seq(TextByte), Len(output') <= allocated',
         InString', pc' \in {"measure", "measure name"} => MeasureInv',
         pc' \in {"copy", "copy name"} => CopyInv'
  PROVE  IInv'
<1>1. UNCHANGED <<text, offset, depth, calls>>
  BY DEF cursor
<1>2. IsFiniteSet(skipped')
  BY DEF InString, Spaced
<1>3. TypeOK'
  BY <1>1, <1>2 DEF IInv, TypeOK, Inside, TextByte
<1>4. InMember' => calls' # <<>>
  BY <1>1 DEF InMember
<1>5. IsText(text)' /\ Length' = Length /\ (offset < Length)' /\ (depth = Len(calls))'
  BY <1>1 DEF IInv, Length
<1>6. (Measuring => MeasureInv)' /\ (Copying => CopyInv)'
  BY DEF Measuring, Copying
<1> QED
  BY <1>3, <1>4, <1>5, <1>6 DEF IInv

LEMMA BeginStep == ASSUME IInv, StringBegin PROVE IInv'
<1>1. pc \in {"value", "name"} /\ pc # "failed" /\ Inside'
  <2>1. pc \in {"value", "name"} /\ Look({offset})
    BY DEF StringBegin
  <2>2. offset \in 0 .. Length - 1
    BY <2>1, AtHand
  <2> QED
    BY <2>1, <2>2, AtHand DEF Look, Inside
<1>2. CASE At(offset) # Quote
  <2>1. Fail(offset + 1) /\ offset + 1 \in Nat
    BY <1>2, AtHand DEF StringBegin
  <2> QED
    BY <1>1, <2>1, FailKeeps
<1>3. CASE At(offset) = Quote
  <2>1. /\ pc' = (IF pc = "value" THEN "measure" ELSE "measure name")
        /\ input_pointer' = offset + 1 /\ input_end' = offset + 1
        /\ skipped' = {} /\ allocated' = 0 /\ output' = <<>>
        /\ UNCHANGED <<text, cursor>>
    BY <1>3 DEF StringBegin
  <2>a. input_pointer' = offset + 1 /\ input_end' = offset + 1 /\ skipped' = {}
    BY <2>1
  <2>b. allocated' = 0 /\ output' = <<>>
    BY <2>1
  <2>2. offset + 1 < Length
    BY <1>1, <1>3, AtHand DEF Quote
  <2>3. (At(offset) = Quote)' /\ Length' = Length /\ offset' = offset
    BY <1>3, <2>1 DEF At, Length, cursor
  <2>4. InString'
    <3>1. Spaced({})
      BY FS_EmptySet DEF Spaced
    <3> QED
      BY <2>a, <2>3, <3>1, AtHand DEF InString
  <2>5. MeasureInv'
    BY <2>a, <2>b, <2>2, <2>3, AtHand DEF MeasureInv
  <2>6. output' \in Seq(TextByte) /\ Len(output') <= allocated' /\ offset + 1 \in Nat
    BY <2>a, <2>b, AtHand
  <2>7. pc = "name" => calls # <<>>
    BY DEF IInv, InMember
  <2> QED
    BY <1>1, <2>1, <2>4, <2>5, <2>6, <2>7, OnString
<1> QED
  BY <1>2, <1>3

\* What the invariant says while a string is measured or copied.
LEMMA OnWay ==
  ASSUME IInv, Measuring \/ Copying
  PROVE  /\ pc # "failed" /\ InString
         /\ pc \in {"measure name", "copy name"} => calls # <<>>
         /\ input_pointer \in Nat /\ input_end \in Nat /\ allocated \in Nat
         /\ skipped \subseteq Nat /\ output \in Seq(TextByte) /\ Len(output) <= allocated
  BY DEF IInv, TypeOK, Measuring, Copying, InMember, TextByte

LEMMA MeasureStep == ASSUME IInv, Measure PROVE IInv'
<1>1. /\ Measuring /\ input_end < Length /\ InString /\ MeasureInv /\ Inside'
      /\ input_pointer \in Nat /\ input_end \in Nat
  BY OnWay, AtHand DEF Measure, IInv, Inside
<1>2. CASE At(input_end) = Backslash /\ input_end + 1 >= Length
  <2>1. Fail(input_pointer)
    BY <1>2 DEF Measure
  <2> QED
    BY <1>1, <2>1, FailKeeps
<1>3. CASE ~(At(input_end) = Backslash /\ input_end + 1 >= Length)
  <2>1. /\ UNCHANGED <<text, pc, cursor, input_pointer, allocated, output>>
        /\ \/ input_end' = input_end + 1 /\ skipped' = skipped
           \/ /\ input_end + 1 < Length /\ input_end' = input_end + 2
              /\ skipped' = skipped \union {input_end}
    BY <1>1, <1>3, AtHand DEF Measure
  <2>2. /\ offset' = offset /\ Length' = Length /\ At(offset)' = At(offset)
        /\ \A p \in Nat : At(p)' = At(p)
    BY <2>1 DEF cursor, Length, At
  <2>3. MeasureInv' /\ input_end' \in Nat /\ input_end < input_end'
    BY <1>1, <2>1, <2>2, AtHand DEF MeasureInv
  <2>4. InString'
    <3>1. /\ At(offset) = Quote /\ offset + 1 <= input_pointer
          /\ skipped \in SUBSET Nat /\ IsFiniteSet(skipped) /\ \A s \in skipped : s + 1 \notin skipped
          /\ \A p \in skipped : offset + 1 <= p /\ p + 2 <= input_end
          /\ \A p \in skipped : At(p) = Backslash
      BY <1>1 DEF InString, Spaced
    <3>2. \A p \in skipped : p + 2 <= input_end'
      BY <1>1, <2>3, <3>1
    <3>3. CASE skipped' = skipped
      BY <2>1, <2>2, <3>1, <3>2, <3>3 DEF InString, Spaced
    <3>4. CASE input_end' = input_end + 2 /\ skipped' = skipped \union {input_end}
      <4>0. At(input_end) = Backslash
        BY <1>1, <2>1, <3>4 DEF Measure
      <4>1. IsFiniteSet(skipped')
        BY <3>1, <3>4, FS_AddElement
      <4>2. skipped' \in SUBSET Nat
        BY <1>1, <3>1, <3>4
      <4>3. \A s \in skipped' : s + 1 \notin skipped'
        <5>1. \A s \in skipped : s \in Nat /\ s + 1 # input_end /\ s # input_end + 1
          BY <1>1, <3>1
        <5>2. input_end + 1 # input_end
          BY <1>1
        <5> QED
          BY <3>1, <3>4, <5>1, <5>2
      <4>4. \A p \in skipped' : offset + 1 <= p /\ p + 2 <= input_end'
        BY <1>1, <3>1, <3>2, <3>4, AtHand DEF MeasureInv
      <4>5. \A p \in skipped' : (At(p) = Backslash)'
        BY <1>1, <2>1, <2>2, <3>1, <3>4, <4>0
      <4> QED
        BY <2>1, <2>2, <3>1, <4>1, <4>2, <4>3, <4>4, <4>5 DEF InString, Spaced
    <3> QED
      BY <2>1, <3>3, <3>4
  <2>5. skipped' \subseteq Nat
    BY <2>4 DEF InString, Spaced
  <2>6. pc' \in {"measure", "measure name"}
    BY <1>1, <2>1 DEF Measuring
  <2> QED
    BY <1>1, <2>1, <2>3, <2>4, <2>5, <2>6, OnString, OnWay
<1> QED
  BY <1>2, <1>3

LEMMA AllocateStep == ASSUME IInv, Allocate PROVE IInv'
<1>1. /\ Measuring /\ InString /\ MeasureInv /\ Inside'
      /\ input_pointer \in Nat /\ input_end \in Nat
  BY OnWay, AtHand DEF Allocate, IInv, Inside
<1>2. CASE input_end >= Length
  <2>1. Fail(input_pointer)
    BY <1>2 DEF Allocate
  <2> QED
    BY <1>1, <2>1, FailKeeps
<1>3. CASE ~(input_end >= Length)
  <2>1. /\ At(input_end) = Quote
        /\ allocated' = input_end - offset - Cardinality(skipped) + 1
        /\ UNCHANGED <<text, cursor, input_pointer, input_end, skipped, output>>
    BY <1>3 DEF Allocate
  <2>p. pc' = IF pc = "measure" THEN "copy" ELSE "copy name"
    BY <1>3 DEF Allocate
  <2>2. /\ offset' = offset /\ Length' = Length /\ At(offset)' = At(offset) /\ At(input_end)' = At(input_end)
        /\ \A p \in Nat : At(p)' = At(p)
    BY <2>1 DEF cursor, Length, At
  <2>3. InString'
    BY <1>1, <2>1, <2>2 DEF InString, Spaced
  <2>4. Below(skipped, input_pointer) = 0
    <3>1. {s \in skipped : s < input_pointer} = {}
      <4> SUFFICES ASSUME NEW s \in skipped PROVE ~(s < input_pointer)
        OBVIOUS
      <4>1. s \in Nat /\ input_pointer <= s
        BY <1>1 DEF InString, MeasureInv, Spaced
      <4> QED
        BY <1>1, <4>1
    <3> QED
      BY <3>1, FS_EmptySet DEF Below
  <2>5. Cardinality(skipped) \in Nat /\ Cardinality(skipped) <= input_end - (offset + 1)
    <3>1. Spaced(skipped) /\ \A s \in skipped : s < input_end
      BY <1>1 DEF InString, Spaced
    <3>2. input_pointer <= input_end
      BY <1>1 DEF MeasureInv
    <3>3. Cardinality(skipped) \in Nat
          /\ Cardinality(skipped) <= Below(skipped, input_pointer) + (input_end - input_pointer)
      BY <1>1, <3>1, <3>2, BelowRest
    <3> QED
      BY <1>1, <2>4, <3>3, AtHand DEF MeasureInv
  <2>6. allocated' \in Nat /\ output' = <<>> /\ Len(output') = 0
    BY <1>1, <2>1, <2>5, AtHand DEF MeasureInv
  <2>7. CopyInv'
    <3>1. (Below(skipped, input_pointer) = 0)'
      BY <2>1, <2>4 DEF Below
    <3>2. (Cardinality(skipped))' = Cardinality(skipped)
      BY <2>1
    <3> QED
      BY <1>1, <1>3, <2>1, <2>2, <2>6, <3>1, <3>2, AtHand DEF CopyInv, MeasureInv, Nearer
  <2>9. UNCHANGED <<text, cursor>> /\ input_pointer' \in Nat /\ input_end' \in Nat
        /\ skipped' \subseteq Nat /\ output' \in Seq(TextByte) /\ Len(output') <= allocated'
        /\ pc # "failed" /\ (pc = "measure name" => calls # <<>>)
    <3>1. UNCHANGED <<text, cursor, input_pointer, input_end, skipped, output>>
      BY <2>1
    <3>2. /\ pc # "failed" /\ (pc = "measure name" => calls # <<>>)
          /\ skipped \subseteq Nat /\ output \in Seq(TextByte)
      BY <1>1, OnWay
    <3>3. Len(output') <= allocated'
      BY <2>6
    <3> QED
      BY <1>1, <3>1, <3>2, <3>3
  <2>8. pc' \in {"copy", "copy name"} /\ (pc' = "copy name" => pc = "measure name")
    BY <1>1, <2>p DEF Measuring
  <2> QED
    BY <1>1, <2>3, <2>6, <2>7, <2>8, <2>9, OnString
<1> QED
  BY <1>2, <1>3
-----------------------------------------------------------------------------
(* The copying pass *)

\* What is copied so far and all the backslashes fit between the quotes.
LEMMA RoomLeft ==
  ASSUME NEW S, Spaced(S), NEW i \in Nat, NEW e \in Nat, NEW o \in Nat, NEW l \in Nat,
         \A p \in S : p + 2 <= e, i <= e + 1,
         l + Below(S, i) <= Nearer(i, e) - o - 1
  PROVE  Cardinality(S) \in Nat /\ l + Cardinality(S) <= e - o - 1
<1>1. Below(S, i) \in Nat /\ Cardinality(S) \in Nat
  BY BelowNat, FS_CardinalityType DEF Spaced
<1>2. \A s \in S : s \in Nat /\ s < e
  BY DEF Spaced
<1>3. CASE i <= e
  <2>1. Cardinality(S) <= Below(S, i) + (e - i)
    BY <1>2, <1>3, BelowRest
  <2> QED
    BY <1>1, <1>3, <2>1 DEF Nearer
<1>4. CASE ~(i <= e)
  <2>1. \A s \in S : s < i
    BY <1>2, <1>4
  <2>2. Below(S, i) = Cardinality(S)
    BY <2>1, BelowAll
  <2> QED
    BY <1>1, <1>4, <2>2 DEF Nearer
<1> QED
  BY <1>3, <1>4

\* The text that is taken makes room for the bytes that are written: n bytes of
\* text at i, and m of output.
Makes(S, i, e, n, m) ==
  \/ n = 1 /\ m = 1 /\ i \notin S
  \/ n = 2 /\ m = 1
  \/ n = 6 /\ m <= 3 /\ i + 6 <= e
  \/ n = 12 /\ m <= 4 /\ i + 12 <= e

LEMMA Makes1 ==
  ASSUME NEW S, Spaced(S), NEW i \in Nat, NEW e \in Nat, NEW o \in Nat, NEW l \in Nat,
         NEW n \in Nat, NEW m \in Nat, Makes(S, i, e, n, m),
         \A p \in S : p + 2 <= e, i < e, l + Below(S, i) <= i - o - 1
  PROVE  /\ i + n <= e + 1
         /\ l + m + Below(S, i + n) <= Nearer(i + n, e) - o - 1
<1>1. Below(S, i) \in Nat /\ Below(S, i + n) \in Nat
  BY BelowNat, i + n \in Nat
<1>2. CASE n = 1 /\ m = 1 /\ i \notin S
  <2>1. Below(S, i + 1) = Below(S, i)
    BY <1>1, <1>2, BelowNext
  <2> QED
    BY <1>1, <1>2, <2>1 DEF Nearer
<1>3. CASE n = 2 /\ m = 1 /\ i + 2 <= e
  <2>1. Below(S, i + 2) <= Below(S, i) + 1
    BY BelowTwo
  <2> QED
    BY <1>1, <1>3, <2>1 DEF Nearer
<1>4. CASE n = 2 /\ m = 1 /\ ~(i + 2 <= e)
  <2>1. e = i + 1
    BY <1>4
  <2>2. \A s \in S : s < i /\ s < i + 2
    BY <2>1 DEF Spaced
  <2>3. Below(S, i) = Cardinality(S) /\ Below(S, i + 2) = Cardinality(S)
    BY <2>2, BelowAll
  <2> QED
    BY <1>1, <1>4, <2>1, <2>3 DEF Nearer
<1>5. CASE n = 6 /\ m <= 3 /\ i + 6 <= e
  <2>1. Below(S, i + 6) <= Below(S, i) + 3
    BY BelowSix
  <2> QED
    BY <1>1, <1>5, <2>1 DEF Nearer
<1>6. CASE n = 12 /\ m <= 4 /\ i + 12 <= e
  <2>1. Below(S, i + 6) \in Nat /\ Below(S, i + 6) <= Below(S, i) + 3
    BY BelowSix
  <2>2. Below(S, (i + 6) + 6) <= Below(S, i + 6) + 3 /\ (i + 6) + 6 = i + 12
    BY BelowSix, i + 6 \in Nat
  <2> QED
    BY <1>1, <1>6, <2>1, <2>2 DEF Nearer
<1> QED
  BY <1>2, <1>3, <1>4, <1>5, <1>6 DEF Makes

\* A step of the copying pass that takes n bytes of the text and writes b.
LEMMA Advance ==
  ASSUME IInv, Copying, input_pointer < input_end, NEW n \in Nat, NEW b \in Seq(TextByte),
         Makes(skipped, input_pointer, input_end, n, Len(b)), Inside',
         output' = output \o b, input_pointer' = input_pointer + n,
         UNCHANGED <<text, pc, cursor, input_end, skipped, allocated>>
  PROVE  IInv'
<1>1. InString /\ CopyInv /\ offset \in Nat
  BY OnWay, AtHand DEF IInv
<1>2. /\ input_pointer \in Nat /\ input_end \in Nat /\ allocated \in Nat
      /\ skipped \subseteq Nat /\ output \in Seq(TextByte)
  BY OnWay
<1>3. /\ output' \in Seq(TextByte) /\ Len(output') = Len(output) + Len(b)
      /\ Len(output) \in Nat /\ Len(b) \in Nat
  BY <1>2
<1>4. /\ offset' = offset /\ Length' = Length
      /\ At(offset)' = At(offset) /\ At(input_end)' = At(input_end)
      /\ \A p \in Nat : At(p)' = At(p)
  BY DEF cursor, Length, At
<1>5. Spaced(skipped) /\ (\A p \in skipped : p + 2 <= input_end)
  BY <1>1 DEF InString
<1>6. Len(output) + Below(skipped, input_pointer) <= input_pointer - offset - 1
  BY <1>1, <1>2 DEF CopyInv, Nearer
<1>7. /\ input_pointer' <= input_end + 1
      /\ Len(output') + Below(skipped, input_pointer')
           <= Nearer(input_pointer', input_end) - offset - 1
  <2>1. /\ input_pointer + n <= input_end + 1
        /\ Len(output) + Len(b) + Below(skipped, input_pointer + n)
             <= Nearer(input_pointer + n, input_end) - offset - 1
    BY <1>1, <1>2, <1>3, <1>5, <1>6, Makes1
  <2> QED
    BY <1>3, <2>1
<1>8. input_pointer' \in Nat /\ offset + 1 <= input_pointer'
  BY <1>1, <1>2 DEF InString
<1>9. Len(output') <= allocated
  <2>1. /\ Cardinality(skipped) \in Nat
        /\ Len(output') + Cardinality(skipped) <= input_end - offset - 1
    <3>1. /\ Len(output') \in Nat /\ input_pointer' \in Nat /\ input_pointer' <= input_end + 1
          /\ Len(output') + Below(skipped, input_pointer') <= Nearer(input_pointer', input_end) - offset - 1
      BY <1>3, <1>7, <1>8
    <3> QED
      BY <1>1, <1>2, <1>5, <3>1, RoomLeft
  <2>2. allocated = input_end - offset - Cardinality(skipped) + 1
    BY <1>1 DEF CopyInv
  <2> QED
    BY <1>1, <1>2, <1>3, <2>1, <2>2
<1>10. InString'
  BY <1>1, <1>2, <1>4, <1>8 DEF InString, Spaced
<1>11. CopyInv'
  <2>1. Below(skipped, input_pointer)' = Below(skipped, input_pointer')
    BY DEF Below
  <2>2. Cardinality(skipped)' = Cardinality(skipped)
    OBVIOUS
  <2> QED
    BY <1>1, <1>4, <1>7, <2>1, <2>2 DEF CopyInv
<1>12. pc' \in {"copy", "copy name"}
  BY DEF Copying
<1>13. pc # "failed" /\ (pc' \in {"measure name", "copy name"} => calls # <<>>)
  BY OnWay
<1>14. UNCHANGED <<text, cursor>> /\ input_end' \in Nat /\ allocated' \in Nat /\ skipped' \subseteq Nat
  BY <1>2
<1> QED
  BY <1>3, <1>8, <1>9, <1>10, <1>11, <1>12, <1>13, <1>14, OnString

LEMMA CopyByteStep == ASSUME IInv, CopyByte PROVE IInv'
<1>1. /\ Copying /\ input_pointer < input_end /\ At(input_pointer) # Backslash
      /\ output' = Append(output, At(input_pointer)) /\ input_pointer' = input_pointer + 1
      /\ UNCHANGED <<text, pc, cursor, input_end, skipped, allocated>>
  BY DEF CopyByte
<1>2. Inside' /\ InString /\ input_pointer \in Nat /\ output \in Seq(TextByte)
  BY <1>1, OnWay, AtHand DEF CopyByte, Inside
<1>3. At(input_pointer) \in TextByte
  BY <1>2, TextFacts, AtHand
<1>4. /\ <<At(input_pointer)>> \in Seq(TextByte) /\ Len(<<At(input_pointer)>>) = 1
      /\ output' = output \o <<At(input_pointer)>>
  BY <1>1, <1>2, <1>3
<1>5. Makes(skipped, input_pointer, input_end, 1, 1)
  BY <1>1, <1>2 DEF Makes, InString
<1> QED
  BY <1>1, <1>2, <1>4, <1>5, Advance
\* The value of four digits.
LEMMA Hex4 ==
  ASSUME IsText(text), NEW i \in Nat
  PROVE  parse_hex4(i) \in Nat /\ parse_hex4(i) <= 65535
<1>1. CASE \E j \in i .. i + 3 : ~IsHex(At(j))
  BY <1>1 DEF parse_hex4
<1>2. CASE \A j \in i .. i + 3 : IsHex(At(j))
  <2>1. \A c \in Int : IsHex(c) => Digit(c) \in 0 .. 15
    BY DEF IsHex, Digit
  <2>2. \A j \in i .. i + 3 : Digit(At(j)) \in 0 .. 15
    <3> SUFFICES ASSUME NEW j \in i .. i + 3 PROVE Digit(At(j)) \in 0 .. 15
      OBVIOUS
    <3>1. j \in Int /\ At(j) \in TextByte
      BY TextFacts
    <3>2. At(j) \in Int
      BY <3>1 DEF TextByte
    <3> QED
      BY <1>2, <2>1, <3>2
  <2>3. /\ Digit(At(i)) \in 0 .. 15 /\ Digit(At(i + 1)) \in 0 .. 15
        /\ Digit(At(i + 2)) \in 0 .. 15 /\ Digit(At(i + 3)) \in 0 .. 15
    BY <2>2
  <2>4. parse_hex4(i) = 4096 * Digit(At(i)) + 256 * Digit(At(i + 1)) + 16 * Digit(At(i + 2)) + Digit(At(i + 3))
    BY <1>2 DEF parse_hex4
  <2> DEFINE a == Digit(At(i))
             b == Digit(At(i + 1))
             c == Digit(At(i + 2))
             d == Digit(At(i + 3))
  <2> HIDE DEF a, b, c, d
  <2>5. a \in 0 .. 15 /\ b \in 0 .. 15 /\ c \in 0 .. 15 /\ d \in 0 .. 15
    BY <2>3 DEF a, b, c, d
  <2>6. parse_hex4(i) = 4096 * a + 256 * b + 16 * c + d
    BY <2>4 DEF a, b, c, d
  <2> QED
    BY <2>5, <2>6, SMTT(60)
<1> QED
  BY <1>1, <1>2

\* What an escape by code units becomes.
LEMMA Converted ==
  ASSUME IsText(text), input_end \in Nat, NEW i \in Nat, NEW r \in utf16_literal_to_utf8(i)
  PROVE  /\ r.bytes \in Seq(TextByte)
         /\ LET cp == CodePoint(FirstUnit(i), BehindUnit(i)) IN
              /\ cp # -1 /\ Decodes(r.bytes, cp)
              /\ r.taken = IF cp > 65535 THEN 12 ELSE 6
         /\ \/ r.taken = 6 /\ Len(r.bytes) <= 3 /\ i + 6 <= input_end
            \/ r.taken = 12 /\ Len(r.bytes) <= 4 /\ i + 12 <= input_end
<1> DEFINE first == FirstUnit(i)
           second == BehindUnit(i)
           cp == CodePoint(first, second)
<1>1. first \in Nat /\ first <= 65535
  BY Hex4, i + 2 \in Nat DEF FirstUnit
<1>2. second \in LowSurrogates => input_end - i >= 12
  BY DEF BehindUnit, LowSurrogates
<1>3. CASE first \notin HighSurrogates
  <2>1. first \notin LowSurrogates /\ r = [taken |-> 6, bytes |-> Utf8(first)] /\ input_end - i >= 6
    BY <1>3 DEF utf16_literal_to_utf8
  <2>2. cp = first /\ cp # -1 /\ cp <= 65535
    BY <1>1, <1>3, <2>1 DEF CodePoint
  <2>3. /\ Utf8(first) \in Seq(TextByte) /\ Len(Utf8(first)) <= 3
        /\ Decodes(Utf8(first), first)
    <3>1. first <= 1114111 /\ first < 65536
      BY <1>1, SMTT(60)
    <3> QED
      BY <1>1, <3>1, Utf8Decodes
  <2> HIDE DEF first, second
  <2>4. r.taken = 6 /\ r.bytes = Utf8(first) /\ ~(cp > 65535) /\ i + 6 <= input_end
    BY <1>1, <2>1, <2>2, SMTT(60)
  <2> HIDE DEF cp
  <2> QED
    BY <2>2, <2>3, <2>4 DEF first, second, cp
<1>4. CASE first \in HighSurrogates
  <2>1. /\ second \in LowSurrogates
        /\ r = [taken |-> 12, bytes |-> Utf8(65536 + ((first % 1024) * 1024) + (second % 1024))]
    BY <1>4 DEF utf16_literal_to_utf8, HighSurrogates, LowSurrogates
  <2>2. first \in Int /\ second \in Int
    BY <1>1, <2>1 DEF LowSurrogates
  <2>3. first % 1024 = first - 55296 /\ second % 1024 = second - 56320
    BY <1>4, <2>1, <2>2, LastUnits
  <2>4. cp = ((first - 55296) * 1024) + (second - 56320) + 65536
    BY <1>4, <2>1 DEF CodePoint
  <2> HIDE DEF first, second, cp
  <2>5. cp = 65536 + ((first % 1024) * 1024) + (second % 1024)
    BY <2>2, <2>3, <2>4, SMTT(60)
  <2>6. cp \in Nat /\ cp >= 65536 /\ cp <= 1114111
    BY <1>4, <2>1, <2>2, <2>4, SMTT(60) DEF HighSurrogates, LowSurrogates
  <2>7. Utf8(cp) \in Seq(TextByte) /\ Len(Utf8(cp)) <= 4
    BY <2>6, Utf8Decodes
  <2>d. Decodes(Utf8(cp), cp)
    BY <2>6, Utf8Decodes
  <2>8. r.taken = 12 /\ r.bytes = Utf8(cp)
    BY <2>1, <2>5
  <2>9. cp # -1 /\ cp > 65535 /\ i + 12 <= input_end
    BY <1>2, <2>1, <2>6, SMTT(60)
  <2> QED
    <3>1. r.bytes \in Seq(TextByte) /\ Len(r.bytes) <= 4
      BY <2>7, <2>8, Zenon
    <3>2. Decodes(r.bytes, cp)
      BY <2>d, <2>8
    <3>3. r.taken = IF cp > 65535 THEN 12 ELSE 6
      BY <2>8, <2>9
    <3> QED
      BY <2>8, <2>9, <3>1, <3>2, <3>3 DEF cp, first, second
<1> QED
  BY <1>3, <1>4

\* Nothing is looked at behind the closing quote.
LEMMA UnitLooksInside ==
  ASSUME input_end \in Nat, NEW i \in Nat, NEW j \in UnitLooks(i)
  PROVE  j \in Nat /\ j < input_end
<1>1. input_end - i >= 6
  BY DEF UnitLooks
<1>2. \A k \in Nat : HexLooks(k) \subseteq k .. k + 3
  BY DEF HexLooks
<1>3. \/ j \in HexLooks(i + 2)
      \/ ~(input_end - i < 12) /\ j \in {i + 6, i + 7} \union HexLooks(i + 8)
  BY <1>1 DEF UnitLooks
<1>4. j \in i + 2 .. (i + 2) + 3 \/ (~(input_end - i < 12) /\ j \in {i + 6, i + 7} \union (i + 8 .. (i + 8) + 3))
  BY <1>2, <1>3, i + 2 \in Nat, i + 8 \in Nat
<1> QED
  BY <1>1, <1>4

LEMMA CopyEscapeStep == ASSUME IInv, CopyEscape PROVE IInv'
<1> DEFINE i == input_pointer
           unicode == At(i + 1) = 117
           result == IF unicode THEN utf16_literal_to_utf8(i) ELSE Letter(i)
<1>1. /\ Copying /\ i < input_end
      /\ Look({i + 1} \union (IF unicode THEN UnitLooks(i) ELSE {}))
      /\ IF result = {} THEN Fail(i)
         ELSE \E r \in result :
                /\ output' = output \o r.bytes
                /\ input_pointer' = i + r.taken
                /\ UNCHANGED <<text, pc, cursor, input_end, skipped, allocated>>
  BY DEF CopyEscape
<1>2. /\ input_end < Length /\ i \in Nat /\ input_end \in Nat
  BY <1>1, OnWay DEF IInv, CopyInv
<1>3. Inside'
  <2>1. \A p \in {i + 1} \union UnitLooks(i) : p \in 0 .. Length - 1
    <3> SUFFICES ASSUME NEW p \in {i + 1} \union UnitLooks(i) PROVE p \in 0 .. Length - 1
      OBVIOUS
    <3>1. p \in Nat /\ p <= input_end
      BY <1>1, <1>2, UnitLooksInside
    <3> QED
      BY <1>2, <3>1, AtHand
  <2> QED
    BY <1>1, <2>1, AtHand DEF Look, Inside
<1>4. CASE result = {}
  BY <1>1, <1>2, <1>3, <1>4, FailKeeps
<1>5. CASE result # {}
  <2>1. PICK r \in result :
          /\ output' = output \o r.bytes
          /\ input_pointer' = i + r.taken
          /\ UNCHANGED <<text, pc, cursor, input_end, skipped, allocated>>
    BY <1>1, <1>5
  <2>2. CASE unicode
    <3>1. r \in utf16_literal_to_utf8(i)
      BY <2>2
    <3>2. /\ r.bytes \in Seq(TextByte) /\ r.taken \in Nat
          /\ \/ r.taken = 6 /\ Len(r.bytes) <= 3 /\ i + 6 <= input_end
             \/ r.taken = 12 /\ Len(r.bytes) <= 4 /\ i + 12 <= input_end
      BY <1>2, <3>1, Converted, AtHand
    <3>3. Makes(skipped, i, input_end, r.taken, Len(r.bytes))
      BY <3>2 DEF Makes
    <3> QED
      BY <1>1, <1>3, <2>1, <3>2, <3>3, Advance
  <2>3. CASE ~unicode
    <3>1. PICK n \in Named : r = [taken |-> 2, bytes |-> <<n[2]>>]
      BY <2>3 DEF Letter
    <3>2. n[2] \in TextByte
      BY DEF Named, TextByte
    <3>3. r.taken = 2 /\ r.bytes \in Seq(TextByte) /\ Len(r.bytes) = 1
      BY <3>1, <3>2
    <3>4. Makes(skipped, i, input_end, r.taken, Len(r.bytes))
      BY <3>3 DEF Makes
    <3> QED
      BY <1>1, <1>3, <2>1, <3>3, <3>4, Advance
  <2> QED
    BY <2>2, <2>3
<1> QED
  BY <1>4, <1>5

LEMMA EndStep == ASSUME IInv, StringEnd PROVE IInv'
<1>1. /\ Copying /\ input_pointer >= input_end
      /\ output' = Append(output, 0)
      /\ UNCHANGED <<input_pointer, input_end, skipped, allocated, outside>>
  BY DEF StringEnd
<1>2. /\ InString /\ CopyInv /\ Inside' /\ offset \in Nat /\ pc # "failed"
      /\ input_pointer \in Nat /\ input_end \in Nat /\ allocated \in Nat /\ output \in Seq(TextByte)
  BY <1>1, OnWay, AtHand DEF IInv, Inside
<1>3. output' \in Seq(TextByte) /\ Len(output') = Len(output) + 1 /\ Len(output) \in Nat
  BY <1>1, <1>2 DEF TextByte
<1>4. Len(output') <= allocated
  <2>1. /\ Spaced(skipped) /\ (\A p \in skipped : p + 2 <= input_end) /\ input_pointer <= input_end + 1
        /\ Len(output) + Below(skipped, input_pointer) <= Nearer(input_pointer, input_end) - offset - 1
        /\ allocated = input_end - offset - Cardinality(skipped) + 1
    BY <1>2 DEF InString, CopyInv
  <2>2. Cardinality(skipped) \in Nat /\ Len(output) + Cardinality(skipped) <= input_end - offset - 1
    BY <1>2, <1>3, <2>1, RoomLeft
  <2> QED
    BY <1>2, <1>3, <2>1, <2>2
<1>5. input_end + 1 < Length /\ input_end + 1 \in Nat
  <2>1. input_end < Length /\ At(input_end) # 0
    BY <1>2 DEF CopyInv, Quote
  <2> QED
    BY <1>2, <2>1, NotLast, AtHand
<1>6. /\ depth \in 0 .. Limit /\ calls \in Seq({"array", "object"}) /\ depth = Len(calls)
      /\ (pc = "copy name" => calls # <<>>)
  BY <1>1, <1>2, OnWay DEF IInv, TypeOK
<1>7. /\ UNCHANGED <<text, depth, calls>> /\ offset' = input_end + 1
      /\ pc' \in {"done", "next", "colon"}
      /\ pc' \in {"colon", "next"} => calls # <<>>
  <2>1. CASE pc = "copy"
    <3>1. Return([t |-> "string", s |-> output], input_end + 1)
      BY <2>1 DEF StringEnd
    <3>2. pc' = IF calls = <<>> THEN "done" ELSE "next"
      BY <3>1 DEF Return
    <3> QED
      BY <3>1, <3>2 DEF Return
  <2>2. CASE pc = "copy name"
    BY <1>6, <2>2 DEF StringEnd
  <2> QED
    BY <1>1, <2>1, <2>2 DEF Copying
<1>8. UNCHANGED <<text, input_pointer, input_end, skipped, allocated>> /\ depth' = Len(calls')
      /\ depth' \in 0 .. Limit /\ calls' \in Seq({"array", "object"})
  BY <1>1, <1>6, <1>7
<1> QED
  BY <1>2, <1>3, <1>4, <1>5, <1>7, <1>8, ReturnedKeeps
-----------------------------------------------------------------------------
(* The theorems *)

LEMMA NextIInv == ASSUME IInv, [Next]_vars PROVE IInv'
<1>1. CASE Next
  BY <1>1, LiteralStep, NumberStep, ContainerStep, NothingStep, NextStep, ColonStep, BeginStep,
     MeasureStep, AllocateStep, CopyByteStep, CopyEscapeStep, EndStep DEF Next
<1>2. CASE UNCHANGED vars
  <2>1. UNCHANGED <<text, pc, offset, depth, calls, input_pointer, input_end, skipped, allocated, output, outside>>
    BY <1>2 DEF vars, cursor, strings
  <2>2. Length' = Length /\ \A p : At(p)' = At(p)
    BY <2>1 DEF Length, At
  <2>3. TypeOK' /\ Inside'
    BY <2>1 DEF IInv, TypeOK, Inside
  <2>4. (Measuring <=> Measuring') /\ (Copying <=> Copying') /\ (InMember <=> InMember')
    BY <2>1 DEF Measuring, Copying, InMember
  <2>5. InString => InString'
    BY <2>1, <2>2 DEF InString, Spaced
  <2>6. MeasureInv => MeasureInv'
    BY <2>1, <2>2 DEF MeasureInv
  <2>7. CopyInv => CopyInv'
    BY <2>1, <2>2 DEF CopyInv, Below
  <2> QED
    BY <2>1, <2>2, <2>3, <2>4, <2>5, <2>6, <2>7 DEF IInv
<1> QED
  BY <1>1, <1>2

\* The cursor, the two passes over a string and the depth stay together as IInv
\* says, at every step of the parser.
THEOREM Inductive == Spec => []IInv
<1>1. Init => IInv
  BY InitIInv
<1>2. IInv /\ [Next]_vars => IInv'
  BY NextIInv
<1> QED
  BY <1>1, <1>2, PTL DEF Spec

\* The state of the parser keeps its types, the depth within the limit among them.
THEOREM TypeCorrect == Spec => []TypeOK
<1>1. IInv => TypeOK
  BY DEF IInv
<1> QED
  BY <1>1, Inductive, PTL

\* What the inductive invariant says of the memory and the depth.
LEMMA InvMeans == ASSUME IInv PROVE StaysInMemory /\ DepthIsNesting
<1>1. StaysInMemory
  BY DEF IInv, Inside, StaysInMemory
<1>2. depth \in 0 .. Limit => depth <= Limit
  BY LimitAssumption
<1>3. depth \in 0 .. Limit /\ (pc # "failed" => depth = Len(calls))
  BY DEF IInv, TypeOK
<1> QED
  BY <1>1, <1>2, <1>3 DEF DepthIsNesting

\* Whatever the text, parse_value, parse_string, parse_hex4 and
\* utf16_literal_to_utf8 look at no byte behind its terminator, and parse_string
\* writes within the memory that it asked for.
THEOREM StaysInMemoryHolds == Spec => []StaysInMemory
<1>1. IInv => StaysInMemory
  BY InvMeans
<1> QED
  BY <1>1, Inductive, PTL

\* The depth that is held against CJSON_NESTING_LIMIT is the nesting.
THEOREM DepthIsNestingHolds == Spec => []DepthIsNesting
<1>1. IInv => DepthIsNesting
  BY InvMeans
<1> QED
  BY <1>1, Inductive, PTL

\* What Utf16Agrees says of a step.
EscapeAgrees ==
  Copying /\ input_pointer < input_end /\ At(input_pointer) = Backslash
  /\ At(input_pointer + 1) = 117 /\ input_end - input_pointer >= 6
  => LET cp == CodePoint(FirstUnit(input_pointer), BehindUnit(input_pointer))
         more == SubSeq(output', Len(output) + 1, Len(output'))
     IN IF cp = -1 THEN pc' = "failed"
        ELSE /\ Decodes(more, cp)
             /\ SubSeq(output', 1, Len(output)) = output
             /\ input_pointer' = input_pointer + (IF cp > 65535 THEN 12 ELSE 6)

LEMMA EscapeStep == ASSUME IInv, Next PROVE EscapeAgrees
<1>1. ASSUME IInv, Next, Copying, input_pointer < input_end, At(input_pointer) = Backslash,
             At(input_pointer + 1) = 117, input_end - input_pointer >= 6
      PROVE  EscapeAgrees
  <2> DEFINE i == input_pointer
             cp == CodePoint(FirstUnit(i), BehindUnit(i))
  <2>1. CopyEscape
    <3>1. pc \in {"copy", "copy name"}
      BY <1>1 DEF Copying
    <3>2. ~ParseLiteral /\ ~ParseNumber /\ ~ParseContainer /\ ~ParseNothing
      BY <3>1 DEF ParseLiteral, ParseNumber, ParseContainer, ParseNothing
    <3>3. ~ParseNext /\ ~ParseColon /\ ~StringBegin
      BY <3>1 DEF ParseNext, ParseColon, StringBegin
    <3>4. ~Measure /\ ~Allocate
      BY <3>1 DEF Measure, Allocate, Measuring
    <3>5. ~CopyByte
      BY <1>1 DEF CopyByte
    <3>6. ~StringEnd
      <4>1. input_pointer \in Nat /\ input_end \in Nat
        BY <1>1, OnWay
      <4> QED
        BY <1>1, <4>1 DEF StringEnd
    <3> QED
      BY <1>1, <3>2, <3>3, <3>4, <3>5, <3>6 DEF Next
  <2>2. /\ IsText(text) /\ i \in Nat /\ input_end \in Nat /\ output \in Seq(TextByte)
    BY <1>1, OnWay, AtHand
  <2>3. IF utf16_literal_to_utf8(i) = {} THEN Fail(i)
        ELSE \E r \in utf16_literal_to_utf8(i) :
               output' = output \o r.bytes /\ input_pointer' = i + r.taken
    BY <1>1, <2>1 DEF CopyEscape
  <2>4. CASE utf16_literal_to_utf8(i) = {}
    <3>1. pc' = "failed"
      BY <2>3, <2>4 DEF Fail
    <3>2. cp = -1
      <4>1. \/ FirstUnit(i) \in LowSurrogates
            \/ FirstUnit(i) \in HighSurrogates /\ BehindUnit(i) \notin LowSurrogates
        <5> DEFINE u == FirstUnit(i)
                   w == BehindUnit(i)
                   one == [taken |-> 6, bytes |-> Utf8(u)]
                   two == [taken |-> 12, bytes |-> Utf8(65536 + (u % 1024) * 1024 + (w % 1024))]
        <5>1. ~(input_end - i < 6)
          BY <1>1, <2>2
        <5>2. utf16_literal_to_utf8(i) =
                IF input_end - i < 6 \/ u \in LowSurrogates THEN {}
                ELSE IF u \notin HighSurrogates THEN {one}
                ELSE IF w \notin LowSurrogates THEN {}
                ELSE {two}
          BY DEF utf16_literal_to_utf8
        <5> HIDE DEF u, w, one, two
        <5>3. u \in LowSurrogates \/ (u \in HighSurrogates /\ w \notin LowSurrogates)
          BY <2>4, <5>1, <5>2, one \in {one}, two \in {two}
        <5> QED
          BY <5>3 DEF u, w
      <4>2. LowSurrogates \cap HighSurrogates = {}
        BY DEF LowSurrogates, HighSurrogates
      <4> QED
        BY <4>1, <4>2 DEF CodePoint
    <3> QED
      BY <3>1, <3>2 DEF EscapeAgrees
  <2>5. CASE utf16_literal_to_utf8(i) # {}
    <3>1. PICK r \in utf16_literal_to_utf8(i) : output' = output \o r.bytes /\ input_pointer' = i + r.taken
      BY <2>3, <2>5
    <3>2. /\ r.bytes \in Seq(TextByte) /\ cp # -1 /\ Decodes(r.bytes, cp)
          /\ r.taken = IF cp > 65535 THEN 12 ELSE 6
      BY <2>2, Converted
    <3>3. /\ SubSeq(output', Len(output) + 1, Len(output')) = r.bytes
          /\ SubSeq(output', 1, Len(output)) = output
      BY <2>2, <3>1, <3>2
    <3> HIDE DEF cp
    <3>4. IF cp = -1 THEN pc' = "failed"
          ELSE /\ Decodes(SubSeq(output', Len(output) + 1, Len(output')), cp)
               /\ SubSeq(output', 1, Len(output)) = output
               /\ input_pointer' = input_pointer + (IF cp > 65535 THEN 12 ELSE 6)
      <4>1. Decodes(SubSeq(output', Len(output) + 1, Len(output')), cp)
        <5> DEFINE more == SubSeq(output', Len(output) + 1, Len(output'))
        <5>1. more = r.bytes /\ Decodes(r.bytes, cp)
          BY <3>2, <3>3
        <5> HIDE DEF more
        <5>2. Decodes(more, cp)
          BY <5>1
        <5> QED
          BY <5>2 DEF more
      <4>2. input_pointer' = input_pointer + (IF cp > 65535 THEN 12 ELSE 6)
        BY <3>1, <3>2
      <4> QED
        BY <3>2, <3>3, <4>1, <4>2
    <3> QED
      BY <3>4 DEF cp, EscapeAgrees
  <2> QED
    BY <2>4, <2>5
<1> QED
  BY <1>1 DEF EscapeAgrees

\* Of every pair of code units, the four hexadecimal digits of which may be
\* anything, the bytes written are the UTF-8 of the code point.
THEOREM Utf16AgreesHolds == Spec => Utf16Agrees
<1>1. IInv /\ [Next]_vars => [EscapeAgrees]_vars
  BY EscapeStep
<1> QED
  BY <1>1, Inductive, PTL DEF Spec, Utf16Agrees, EscapeAgrees

=============================================================================
