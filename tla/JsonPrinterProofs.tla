-------------------------- MODULE JsonPrinterProofs -------------------------
(***************************************************************************)
(* What the printer of cJSON does with any tree and any buffer: it writes  *)
(* nowhere but in the space it was granted, leaves no gap, and is refused  *)
(* only for want of space.                                                 *)
(***************************************************************************)
EXTENDS JsonPrinter, SequenceTheorems, TLAPS

PrintsInside == overrun = FALSE

Loops == {"value", "member", "name", "colon", "next", "close"}
Pcs == Loops \union {"named", "returned", "count", "count name", "copy", "copy name",
                     "done", "refused", "failed"}

\* The text is complete up to the offset.
InPlace ==
  /\ print_offset = wanted /\ Len(buffer) = wanted
  /\ print_offset < length \/ print_offset = 0

\* The text is complete, its last part behind the offset.
Whole == ended /\ Len(buffer) = wanted /\ wanted < length /\ print_offset <= wanted

\* The sums of the counting pass.
Summed ==
  /\ counts # <<>> /\ Len(counts) <= Len(input) + 1 /\ counts[1] = 0
  /\ \A i \in 1 .. Len(counts) - 1 : counts[i + 1] = counts[i] + Extra(input[i])
  /\ \A i \in 1 .. Len(counts) : counts[i] <= escape_characters

\* The copying pass is where the counting pass said that it would be.
Ahead ==
  /\ Len(counts) = Len(input) + 1
  /\ wanted = print_offset + output_length + 2 /\ wanted + 2 <= length
  /\ print_pointer \in 1 .. Len(input) + 1
  /\ output_pointer = print_offset + print_pointer + counts[print_pointer]
  /\ Len(buffer) = output_pointer

Within == {"member", "name", "named", "colon", "next", "close", "count name", "copy name"}
InContainer == printing \in Within => print_calls # <<>>

Places ==
  /\ printing \in Loops \/ Counting => InPlace
  /\ printing \in {"returned", "named", "done"} => Whole
  /\ Counting \/ PrintCopying => Summed
  /\ PrintCopying => Ahead

\* The inductive invariant.
PrinterInv == PrinterTypeOK /\ PrintsInside /\ Places /\ RoomMeansSuccess /\ PrintDepthIsNesting /\ InContainer

-----------------------------------------------------------------------------
(* Trees and bytes *)

LEMMA ItemFacts ==
  ASSUME tree \in DOMAIN Trees, item \in Items
  PROVE  IsItem(Here, Items)
  BY TreesAssumption DEF Here, Items

LEMMA RootFacts ==
  ASSUME NEW t \in DOMAIN Trees
  PROVE  Trees[t].root \in DOMAIN Trees[t].item
  BY TreesAssumption

LEMMA LiteralFacts ==
  ASSUME NEW t \in DOMAIN Literals
  PROVE  Literals[t] \in Seq(Byte)
<1>1. t \in {"null", "false", "true"}
  BY DEF Literals
<1>2. CASE t = "null"
  BY <1>2 DEF Literals, Byte
<1>3. CASE t = "false"
  BY <1>3 DEF Literals, Byte
<1>4. CASE t = "true"
  BY <1>4 DEF Literals, Byte
<1> QED
  BY <1>1, <1>2, <1>3, <1>4

LEMMA TabsFacts ==
  ASSUME NEW n \in Nat
  PROVE  Tabs(n) \in Seq(Byte) /\ Len(Tabs(n)) = n
  BY DEF Tabs, Byte

\* One byte, and maybe another one.
LEMMA PairFacts ==
  ASSUME NEW b \in Byte, NEW c \in Byte
  PROVE  <<b>> \o Fmt(<<c>>) \in Seq(Byte) /\ Fmt(<<c>>) \in Seq(Byte)
<1>1. <<b>> \in Seq(Byte) /\ <<c>> \in Seq(Byte) /\ <<>> \in Seq(Byte)
  OBVIOUS
<1>2. Fmt(<<c>>) \in Seq(Byte)
  BY <1>1 DEF Fmt
<1> HIDE DEF Fmt
<1> QED
  BY <1>1, <1>2, ConcatProperties

LEMMA EscapedFacts ==
  ASSUME NEW c \in Byte
  PROVE  /\ Extra(c) \in Nat
         /\ Escaped(c) \in Seq(Byte) /\ Len(Escaped(c)) = 1 + Extra(c)
<1>1. CASE c > 31 /\ c # 34 /\ c # 92
  <2>1. Escaped(c) = <<c>>
    BY <1>1 DEF Escaped, Quote, Backslash
  <2>2. Extra(c) = 0
    <3>1. c \notin DOMAIN Letters
      BY <1>1 DEF Letters
    <3>2. ~(c < 32)
      BY <1>1 DEF Byte
    <3> QED
      BY <3>1, <3>2 DEF Extra
  <2> QED
    BY <2>1, <2>2
<1>2. CASE c \in DOMAIN Letters
  <2>1. Letters[c] \in Byte
    BY <1>2 DEF Letters, Byte
  <2>2. Escaped(c) = <<Backslash, Letters[c]>> /\ Extra(c) = 1
    BY <1>2 DEF Escaped, Extra, Letters, Quote, Backslash
  <2> QED
    BY <2>1, <2>2 DEF Byte, Backslash
<1>3. CASE c <= 31 /\ c \notin DOMAIN Letters
  <2>1. /\ c \div 16 \in 0 .. 1 /\ c % 16 \in 0 .. 15
    BY <1>3 DEF Byte
  <2>2. HexDigit(c \div 16) \in Byte /\ HexDigit(c % 16) \in Byte
    BY <2>1 DEF HexDigit, Byte
  <2>3. Escaped(c) = <<Backslash, 117, 48, 48, HexDigit(c \div 16), HexDigit(c % 16)>>
    <3>1. ~(c > 31 /\ c \notin {Quote, Backslash})
      BY <1>3 DEF Byte
    <3> HIDE DEF Letters, HexDigit
    <3> QED
      BY <1>3, <3>1, Zenon DEF Escaped
  <2>4. Extra(c) = 5
    BY <1>3 DEF Extra, Byte
  <2> HIDE DEF HexDigit
  <2> QED
    BY <2>2, <2>3, <2>4 DEF Byte, Backslash
<1> QED
  BY <1>1, <1>2, <1>3 DEF Byte, Letters

-----------------------------------------------------------------------------
(* The printbuffer *)

LEMMA Granted ==
  ASSUME length \in 0 .. IntMax, print_offset \in Nat,
         NEW needed \in Nat, NEW more \in ensure(needed)
  PROVE  more \in 0 .. IntMax /\ more >= needed + print_offset + 1
  BY SizesAssumption DEF ensure

LEMMA Refused ==
  ASSUME length \in 0 .. IntMax, print_offset \in Nat, print_offset < length \/ print_offset = 0,
         NEW needed \in Nat, ensure(needed) = {}
  PROVE  needed + print_offset + 1 > Room
<1> DEFINE total == needed + print_offset + 1
<1>1. IntMax \in Nat /\ total \in Nat /\ length <= IntMax
  BY SizesAssumption
<1>2. ~(length > 0 /\ print_offset >= length)
  OBVIOUS
<1>3. CASE needed > IntMax
  BY <1>1, <1>3 DEF Room
<1>4. CASE needed <= IntMax
  <2>1. ~(needed > IntMax)
    BY <1>1, <1>4
  <2>2. /\ ~(total <= length)
        /\ noalloc \/ (total > IntMax \div 2 /\ ~(total <= IntMax))
    <3> HIDE DEF total, noalloc
    <3>1. ensure(needed) = IF total <= length THEN {length}
                           ELSE IF noalloc THEN {}
                           ELSE IF total > IntMax \div 2 THEN (IF total <= IntMax THEN {IntMax} ELSE {})
                           ELSE {2 * total}
      BY <1>2, <2>1, Zenon DEF ensure, total
    <3> QED
      BY <3>1, Zenon
  <2> QED
    BY <1>1, <2>2 DEF Room
<1> QED
  BY <1>1, <1>3, <1>4

\* What is written right behind the text makes it longer.
LEMMA Writing ==
  ASSUME buffer \in Seq(Byte), PrintsInside, length' \in Nat,
         NEW at, at = Len(buffer),
         NEW s \in Seq(Byte), NEW nul \in BOOLEAN, NEW more \in Nat,
         Write(at, s, nul, more),
         at + Len(s) + more <= length', nul => at + Len(s) + more < length'
  PROVE  /\ buffer' \in Seq(Byte) /\ Len(buffer') = Len(buffer) + Len(s)
         /\ ended' = nul /\ PrintsInside'
<1>1. Len(buffer) \in Nat /\ Len(s) \in Nat
  OBVIOUS
<1>2. Upto(at) \in Seq(Byte) /\ Len(Upto(at)) = Len(buffer)
  <2>1. \A i \in 1 .. at : i <= Len(buffer) /\ buffer[i] \in Byte
    OBVIOUS
  <2>2. Upto(at) = [i \in 1 .. at |-> buffer[i]]
    BY <2>1 DEF Upto
  <2> QED
    BY <1>1, <2>1, <2>2
<1>3. buffer' = Upto(at) \o s /\ ended' = nul
  BY DEF Write
<1>4. /\ buffer' \in Seq(Byte) /\ Len(buffer') = Len(buffer) + Len(s)
  <2> DEFINE u == Upto(at)
  <2>1. u \in Seq(Byte) /\ Len(u) = Len(buffer) /\ buffer' = u \o s
    BY <1>2, <1>3
  <2> HIDE DEF u
  <2>2. /\ u \o s \in Seq(Byte) /\ Len(u \o s) = Len(u) + Len(s)
    BY <2>1, ConcatProperties
  <2> QED
    BY <2>1, <2>2
<1>5. ~(at + Len(s) + more + (IF nul THEN 1 ELSE 0) > length')
  BY <1>1
<1>6. PrintsInside'
  BY <1>5 DEF Write, PrintsInside
<1> QED
  BY <1>3, <1>4, <1>6

\* A piece is written whole, or refused for want of space.
LEMMA Pieces ==
  ASSUME PrinterTypeOK, PrintsInside, InPlace,
         NEW needed \in Nat, NEW s \in Seq(Byte), NEW nul \in BOOLEAN, NEW moved \in Nat, NEW next,
         needed = Len(s) + 1 \/ (needed = Len(s) /\ ~nul),
         moved = 0 \/ moved = Len(s),
         Piece(needed, s, nul, moved, next)
  PROVE  /\ buffer' \in Seq(Byte) /\ ended' \in BOOLEAN /\ PrintsInside' /\ length' \in 0 .. IntMax
         /\ print_offset' \in Nat /\ wanted' \in Nat
         /\ \/ printing' = "refused" /\ wanted' + 2 > Room'
            \/ /\ printing' = next /\ ended' = nul /\ Len(buffer') = wanted' /\ wanted' < length'
               /\ print_offset' <= wanted' /\ (moved = Len(s) => print_offset' = wanted')
         /\ UNCHANGED <<tree, by, format, input, counts, print_pointer, output_pointer>>
<1> USE DEF InPlace
<1>1. /\ length \in 0 .. IntMax /\ print_offset \in Nat /\ buffer \in Seq(Byte) /\ ended \in BOOLEAN
      /\ IntMax \in Nat /\ wanted \in Nat /\ Len(s) \in Nat
  <2>1. /\ length \in 0 .. IntMax /\ print_offset \in Nat /\ buffer \in Seq(Byte) /\ ended \in BOOLEAN
        /\ wanted \in Nat
    BY Zenon DEF PrinterTypeOK
  <2> QED
    BY <2>1, SizesAssumption
<1>2. wanted' = wanted + Len(s)
  BY DEF Piece
<1>3. UNCHANGED <<tree, by, format, input, counts, print_pointer, output_pointer>>
  BY DEF Piece, print_strings
<1>4. CASE ensure(needed) = {} /\ printing' = "refused" /\ UNCHANGED <<length, print_offset, buffer, ended, overrun>>
  <2>1. needed + print_offset + 1 > Room
    BY <1>1, <1>4, Refused
  <2>2. Room' = Room
    BY <1>3, <1>4 DEF Room, noalloc
  <2>3. Room \in Nat
    BY <1>1 DEF Room
  <2>4. wanted' + 2 > Room'
    BY <1>1, <1>2, <2>1, <2>2, <2>3
  <2>5. PrintsInside'
    BY <1>4 DEF PrintsInside
  <2> QED
    BY <1>1, <1>2, <1>3, <1>4, <2>4, <2>5
<1>5. CASE /\ length' \in ensure(needed) /\ Write(print_offset, s, nul, 0)
           /\ print_offset' = print_offset + moved /\ printing' = next
  <2>1. length' \in 0 .. IntMax /\ length' >= needed + print_offset + 1
    BY <1>1, <1>5, Granted
  <2>2. print_offset + Len(s) + 0 <= length' /\ print_offset + Len(s) + 0 < length'
    BY <1>1, <2>1
  <2>3. /\ buffer' \in Seq(Byte) /\ Len(buffer') = Len(buffer) + Len(s)
        /\ ended' = nul /\ PrintsInside'
    <3>1. print_offset = Len(buffer) /\ length' \in Nat
      BY <1>1, <2>1
    <3> QED
      BY <1>1, <1>5, <2>2, <3>1, Writing
  <2> QED
    BY <1>1, <1>2, <1>3, <1>5, <2>1, <2>2, <2>3
<1> QED
  BY <1>4, <1>5 DEF Piece

\* So a piece keeps the invariant, whatever becomes of the item that is printed.
LEMMA PieceKeeps ==
  ASSUME PrinterInv, InPlace,
         NEW needed \in Nat, NEW s \in Seq(Byte), NEW nul \in BOOLEAN, NEW moved \in Nat, NEW next,
         needed = Len(s) + 1 \/ (needed = Len(s) /\ ~nul),
         moved = 0 \/ moved = Len(s),
         (next \in Loops /\ moved = Len(s)) \/ (next \in {"returned", "named"} /\ nul),
         Piece(needed, s, nul, moved, next),
         item' \in Items, print_calls' \in Seq(Items), print_depth' = Len(print_calls'),
         printing' \in Within => print_calls' # <<>>
  PROVE  PrinterInv'
<1>1. PrinterTypeOK /\ PrintsInside
  BY DEF PrinterInv
<1>2. /\ buffer' \in Seq(Byte) /\ ended' \in BOOLEAN /\ PrintsInside' /\ length' \in 0 .. IntMax
      /\ print_offset' \in Nat /\ wanted' \in Nat
      /\ \/ printing' = "refused" /\ wanted' + 2 > Room'
         \/ /\ printing' = next /\ ended' = nul /\ Len(buffer') = wanted' /\ wanted' < length'
            /\ print_offset' <= wanted' /\ (moved = Len(s) => print_offset' = wanted')
      /\ UNCHANGED <<tree, by, format, input, counts, print_pointer, output_pointer>>
  BY <1>1, Pieces
<1>3. printing' = "refused" \/ printing' \in Loops \/ printing' \in {"returned", "named"}
  BY <1>2
<1>4. Items' = Items
  BY <1>2 DEF Items
<1>5. overrun' \in BOOLEAN
  BY <1>2 DEF PrintsInside
<1>6. print_depth' \in Nat
  BY LenProperties
<1>7. printing' \in Pcs
  BY <1>3 DEF Pcs
<1>8. PrinterTypeOK'
  <2>1. /\ tree \in DOMAIN Trees /\ by \in {"Print", "PrintBuffered", "PrintPreallocated"}
        /\ format \in BOOLEAN /\ input \in Seq(Byte) /\ counts \in Seq(Nat)
        /\ print_pointer \in Nat /\ output_pointer \in Nat
    BY <1>1 DEF PrinterTypeOK
  <2>2. /\ tree' \in DOMAIN Trees /\ by' \in {"Print", "PrintBuffered", "PrintPreallocated"}
        /\ format' \in BOOLEAN /\ input' \in Seq(Byte) /\ counts' \in Seq(Nat)
        /\ print_pointer' \in Nat /\ output_pointer' \in Nat
    BY <1>2, <2>1
  <2>3. item' \in Items' /\ print_calls' \in Seq(Items')
    BY <1>4
  <2> QED
    BY <1>2, <1>5, <1>6, <1>7, <2>2, <2>3 DEF PrinterTypeOK, Pcs, Loops
<1>9. Places'
  <2>1. ~Counting' /\ ~PrintCopying'
    BY <1>3 DEF Counting, PrintCopying, Loops
  <2>2. ASSUME printing' \in Loops PROVE InPlace'
    <3>1. printing' = next /\ moved = Len(s) /\ Len(buffer') = wanted' /\ wanted' < length' /\ print_offset' = wanted'
      BY <1>2, <2>2 DEF Loops
    <3> QED
      BY <3>1 DEF InPlace
  <2>3. ASSUME printing' \in {"returned", "named", "done"} PROVE Whole'
    <3>1. printing' = next
      BY <1>2, <2>3
    <3>2. nul
      BY <3>1, <2>3 DEF Loops
    <3>3. ended' /\ Len(buffer') = wanted' /\ wanted' < length' /\ print_offset' <= wanted'
      BY <1>2, <2>3, <3>2
    <3> QED
      BY <3>3 DEF Whole
  <2> QED
    BY <2>1, <2>2, <2>3 DEF Places
<1>10. RoomMeansSuccess'
  <2>1. ASSUME printing' = "refused" PROVE wanted' + 2 > Room'
    BY <1>2, <2>1 DEF Loops
  <2> QED
    BY <2>1 DEF RoomMeansSuccess
<1>11. PrintDepthIsNesting' /\ InContainer'
  BY DEF PrintDepthIsNesting, InContainer
<1> QED
  BY <1>2, <1>8, <1>9, <1>10, <1>11 DEF PrinterInv

-----------------------------------------------------------------------------
(* print_value *)

\* The facts about a state in which a piece is printed.
LEMMA Facts ==
  ASSUME PrinterInv
  PROVE  /\ tree \in DOMAIN Trees /\ format \in BOOLEAN
         /\ item \in Items /\ print_calls \in Seq(Items) /\ print_depth \in Nat /\ print_depth = Len(print_calls)
         /\ length \in 0 .. IntMax /\ print_offset \in Nat /\ wanted \in Nat
         /\ buffer \in Seq(Byte) /\ ended \in BOOLEAN
         /\ input \in Seq(Byte) /\ counts \in Seq(Nat)
         /\ print_pointer \in Nat /\ output_pointer \in Nat
         /\ printing \in Loops => InPlace
         /\ printing \in Within => print_calls # <<>>
         /\ Here.child = NULL \/ Here.child \in Items
         /\ Here.next = NULL \/ Here.next \in Items
         /\ Here.string = NULL \/ Here.string \in Seq(Byte)
         /\ Here.valuestring = NULL \/ Here.valuestring \in Seq(Byte)
         /\ Here.number \in Seq(Byte)
<1>1. PrinterTypeOK /\ Places /\ PrintDepthIsNesting /\ InContainer
  BY DEF PrinterInv
<1>2. IsItem(Here, Items)
  BY <1>1, ItemFacts DEF PrinterTypeOK
<1>3. /\ Here.child = NULL \/ Here.child \in Items
      /\ Here.next = NULL \/ Here.next \in Items
      /\ Here.string = NULL \/ Here.string \in Seq(Byte)
      /\ Here.valuestring = NULL \/ Here.valuestring \in Seq(Byte)
      /\ Here.number \in Seq(Byte)
  BY <1>2 DEF IsItem
<1>4. /\ tree \in DOMAIN Trees /\ format \in BOOLEAN
      /\ item \in Items /\ print_calls \in Seq(Items) /\ print_depth \in Nat
      /\ length \in 0 .. IntMax /\ print_offset \in Nat /\ wanted \in Nat
      /\ buffer \in Seq(Byte) /\ ended \in BOOLEAN
      /\ input \in Seq(Byte) /\ counts \in Seq(Nat)
      /\ print_pointer \in Nat /\ output_pointer \in Nat
  BY <1>1, Zenon DEF PrinterTypeOK
<1>5. print_depth = Len(print_calls)
  BY <1>1, Zenon DEF PrintDepthIsNesting
<1>6. printing \in Loops => InPlace
  BY <1>1, Zenon DEF Places
<1>7. printing \in Within => print_calls # <<>>
  BY <1>1, Zenon DEF InContainer
<1> QED
  BY <1>3, <1>4, <1>5, <1>6, <1>7, Zenon

\* What is printed without going elsewhere.
LEMMA PieceInPlace ==
  ASSUME PrinterInv, printing \in Loops,
         NEW needed \in Nat, NEW s \in Seq(Byte), NEW nul \in BOOLEAN, NEW moved \in Nat, NEW next,
         needed = Len(s) + 1 \/ (needed = Len(s) /\ ~nul),
         moved = 0 \/ moved = Len(s),
         (next \in Loops /\ moved = Len(s)) \/ (next \in {"returned", "named"} /\ nul),
         next \in Within => printing \in Within,
         Piece(needed, s, nul, moved, next),
         UNCHANGED control
  PROVE  PrinterInv'
<1>1. InPlace
  BY Facts
<1>2. item' = item /\ print_calls' = print_calls /\ print_depth' = print_depth
  BY DEF control
<1>3. item' \in Items /\ print_calls' \in Seq(Items) /\ print_depth' = Len(print_calls')
  BY <1>2, Facts
<1>4. printing' = "refused" \/ printing' = next
  BY DEF Piece
<1>5. printing' \in Within => print_calls' # <<>>
  BY <1>2, <1>4, Facts DEF Within
<1> QED
  BY <1>1, <1>3, <1>5, PieceKeeps

LEMMA PrintLiteralStep ==
  ASSUME PrinterInv, PrintLiteral
  PROVE  PrinterInv'
<1> DEFINE word == Literals[Here.type]
<1>1. /\ printing = "value" /\ Here.type \in DOMAIN Literals
      /\ Piece(Len(word) + 1, word, TRUE, 0, "returned") /\ UNCHANGED control
  BY DEF PrintLiteral
<1>2. word \in Seq(Byte)
  BY <1>1, LiteralFacts
<1> HIDE DEF word
<1>3. Len(word) + 1 \in Nat /\ printing \in Loops /\ "returned" \notin Within
  BY <1>1, <1>2 DEF Loops, Within
<1> QED
  BY <1>1, <1>2, <1>3, PieceInPlace

LEMMA PrintNumberStep ==
  ASSUME PrinterInv, PrintNumber
  PROVE  PrinterInv'
<1> DEFINE word == Here.number
<1>1. /\ printing = "value"
      /\ Piece(Len(word) + 1, word, TRUE, Len(word), "returned") /\ UNCHANGED control
  BY DEF PrintNumber
<1>2. word \in Seq(Byte)
  BY Facts
<1> HIDE DEF word
<1>3. Len(word) + 1 \in Nat /\ Len(word) \in Nat /\ printing \in Loops /\ "returned" \notin Within
  BY <1>1, <1>2 DEF Loops, Within
<1> QED
  BY <1>1, <1>2, <1>3, PieceInPlace

LEMMA RawStep ==
  ASSUME PrinterInv, PrintRaw
  PROVE  PrinterInv'
<1> DEFINE word == Here.valuestring
<1>1. /\ printing = "value" /\ word # NULL
      /\ Piece(Len(word) + 1, word, TRUE, 0, "returned") /\ UNCHANGED control
  BY DEF PrintRaw
<1>2. word \in Seq(Byte)
  BY <1>1, Facts
<1> HIDE DEF word
<1>3. Len(word) + 1 \in Nat /\ printing \in Loops /\ "returned" \notin Within
  BY <1>1, <1>2 DEF Loops, Within
<1> QED
  BY <1>1, <1>2, <1>3, PieceInPlace

\* An item is entered, or its first piece was refused.
LEMMA Entered ==
  ASSUME PrinterInv, Enter
  PROVE  /\ item' \in Items /\ print_calls' \in Seq(Items) /\ print_depth' = Len(print_calls')
         /\ printing' # "refused" => print_calls' # <<>>
<1>1. CASE printing' = "refused"
  <2>1. item' = item /\ print_calls' = print_calls /\ print_depth' = print_depth
    BY <1>1 DEF Enter, control
  <2> QED
    BY <1>1, <2>1, Facts
<1>2. CASE printing' # "refused"
  <2>1. /\ item' = (IF Here.child = NULL THEN item ELSE Here.child)
        /\ print_calls' = Append(print_calls, item) /\ print_depth' = print_depth + 1
    BY <1>2 DEF Enter
  <2>2. /\ Append(print_calls, item) \in Seq(Items) /\ Len(Append(print_calls, item)) = Len(print_calls) + 1
        /\ Append(print_calls, item) # <<>>
    <3>1. item \in Items /\ print_calls \in Seq(Items)
      BY Facts
    <3> QED
      BY <3>1, AppendProperties
  <2>3. item' \in Items
    BY <2>1, Facts
  <2> QED
    BY <2>1, <2>2, <2>3, Facts
<1> QED
  BY <1>1, <1>2

LEMMA ArrayBeginStep ==
  ASSUME PrinterInv, ArrayBegin
  PROVE  PrinterInv'
<1> DEFINE next == IF Here.child = NULL THEN "close" ELSE "value"
<1>1. printing = "value" /\ Piece(1, <<91>>, FALSE, 1, next) /\ Enter
  BY DEF ArrayBegin
<1>2. <<91>> \in Seq(Byte) /\ Len(<<91>>) = 1
  BY DEF Byte
<1>3. next \in Loops
  BY DEF Loops
<1>4. InPlace
  BY <1>1, Facts DEF Loops
<1>5. "refused" \notin Within
  BY DEF Within
<1> HIDE DEF next
<1>6. /\ item' \in Items /\ print_calls' \in Seq(Items) /\ print_depth' = Len(print_calls')
      /\ printing' # "refused" => print_calls' # <<>>
  BY <1>1, Entered
<1>7. printing' \in Within => print_calls' # <<>>
  BY <1>5, <1>6
<1> QED
  BY <1>1, <1>2, <1>3, <1>4, <1>6, <1>7, PieceKeeps

LEMMA ObjectBeginStep ==
  ASSUME PrinterInv, ObjectBegin
  PROVE  PrinterInv'
<1> DEFINE next == IF Here.child = NULL THEN "close" ELSE "member"
           brace == <<123>> \o Fmt(<<10>>)
<1>1. printing = "value" /\ Piece(Len(brace) + 1, brace, FALSE, Len(brace), next) /\ Enter
  BY DEF ObjectBegin
<1>2. brace \in Seq(Byte)
  <2>1. 123 \in Byte /\ 10 \in Byte
    BY DEF Byte
  <2> QED
    BY <2>1, PairFacts
<1>3. next \in Loops
  BY DEF Loops
<1>4. InPlace
  BY <1>1, Facts DEF Loops
<1>5. "refused" \notin Within
  BY DEF Within
<1> HIDE DEF next, brace
<1>6. /\ item' \in Items /\ print_calls' \in Seq(Items) /\ print_depth' = Len(print_calls')
      /\ printing' # "refused" => print_calls' # <<>>
  BY <1>1, Entered
<1>7. printing' \in Within => print_calls' # <<>>
  BY <1>5, <1>6
<1>8. Len(brace) \in Nat /\ Len(brace) + 1 \in Nat
  BY <1>2
<1> QED
  BY <1>1, <1>2, <1>3, <1>4, <1>6, <1>7, <1>8, PieceKeeps

\* The types after a step.
LEMMA TypesKept ==
  ASSUME PrinterTypeOK, tree' = tree, by' = by, format' = format, printing' \in Pcs,
         item' \in Items, print_calls' \in Seq(Items), print_depth' \in Nat,
         length' \in 0 .. IntMax, print_offset' \in Nat, wanted' \in Nat,
         buffer' \in Seq(Byte), ended' \in BOOLEAN, PrintsInside',
         input' \in Seq(Byte), counts' \in Seq(Nat),
         print_pointer' \in Nat, output_pointer' \in Nat
  PROVE  PrinterTypeOK'
<1>1. /\ tree' \in DOMAIN Trees /\ by' \in {"Print", "PrintBuffered", "PrintPreallocated"}
      /\ format' \in BOOLEAN
  BY DEF PrinterTypeOK
<1>2. Items' = Items
  BY DEF Items
<1>3. item' \in Items' /\ print_calls' \in Seq(Items')
  BY <1>2
<1>4. overrun' \in BOOLEAN
  BY DEF PrintsInside
<1> QED
  BY <1>1, <1>3, <1>4 DEF PrinterTypeOK, Pcs, Loops

\* A step that only goes on within the text.
LEMMA Onwards ==
  ASSUME PrinterInv, UNCHANGED <<tree, by, format, bytes, print_strings>>,
         printing' \in Pcs, item' \in Items, print_calls' = print_calls, print_depth' = print_depth,
         printing' \in Loops => printing \in Loops,
         printing' \in Within => printing \in Within,
         printing' \in Loops \union {"failed"}
  PROVE  PrinterInv'
<1>1. PrinterTypeOK /\ PrintsInside
  BY DEF PrinterInv
<1>2. /\ length' = length /\ print_offset' = print_offset /\ buffer' = buffer /\ ended' = ended
      /\ wanted' = wanted /\ overrun' = overrun /\ input' = input /\ counts' = counts
      /\ print_pointer' = print_pointer /\ output_pointer' = output_pointer
      /\ tree' = tree /\ by' = by /\ format' = format
  BY DEF bytes, print_strings
<1>3. PrintsInside'
  BY <1>1, <1>2 DEF PrintsInside
<1>4. PrinterTypeOK'
  BY <1>1, <1>2, <1>3, Facts, TypesKept
<1>5. printing' \in Loops => InPlace'
  BY <1>2, Facts DEF InPlace
<1>6. Places'
  BY <1>5 DEF Places, Counting, PrintCopying, Loops
<1>7. RoomMeansSuccess'
  BY DEF RoomMeansSuccess, Loops
<1>8. PrintDepthIsNesting' /\ InContainer'
  BY Facts DEF PrintDepthIsNesting, InContainer
<1> QED
  BY <1>3, <1>4, <1>6, <1>7, <1>8 DEF PrinterInv

LEMMA PrintNothingStep ==
  ASSUME PrinterInv, PrintNothing
  PROVE  PrinterInv'
<1>1. printing' = "failed" /\ UNCHANGED <<tree, by, format, bytes, print_strings>> /\ UNCHANGED control
  BY DEF PrintNothing
<1>2. "failed" \in Pcs /\ "failed" \notin Loops /\ "failed" \notin Within
  BY DEF Pcs, Loops, Within
<1>3. item' = item /\ print_calls' = print_calls /\ print_depth' = print_depth
  BY <1>1 DEF control
<1> QED
  BY <1>1, <1>2, <1>3, Facts, Onwards

LEMMA IndentStep ==
  ASSUME PrinterInv, Indent
  PROVE  PrinterInv'
<1>1. printing = "member" /\ UNCHANGED control
  BY DEF Indent
<1>2. "name" \in Pcs /\ "name" \in Loops /\ printing \in Loops /\ printing \in Within
  BY <1>1 DEF Pcs, Loops, Within
<1>3. CASE format /\ Piece(print_depth, Tabs(print_depth), FALSE, print_depth, "name")
  BY <1>1, <1>2, <1>3, Facts, TabsFacts, PieceInPlace
<1>4. CASE printing' = "name" /\ UNCHANGED <<tree, by, format, bytes, print_strings>>
  <2>1. item' = item /\ print_calls' = print_calls /\ print_depth' = print_depth
    BY <1>1 DEF control
  <2> QED
    BY <1>2, <1>4, <2>1, Facts, Onwards
<1> QED
  BY <1>3, <1>4 DEF Indent

LEMMA PrintColonStep ==
  ASSUME PrinterInv, PrintColon
  PROVE  PrinterInv'
<1> DEFINE colon == <<58>> \o Fmt(<<9>>)
<1>1. /\ printing = "colon" /\ Piece(Len(colon), colon, FALSE, Len(colon), "value") /\ UNCHANGED control
  BY DEF PrintColon
<1>2. colon \in Seq(Byte)
  <2>1. 58 \in Byte /\ 9 \in Byte
    BY DEF Byte
  <2> QED
    BY <2>1, PairFacts
<1> HIDE DEF colon
<1>3. Len(colon) \in Nat /\ printing \in Loops /\ "value" \in Loops /\ "value" \notin Within
  BY <1>1, <1>2 DEF Loops, Within
<1> QED
  BY <1>1, <1>2, <1>3, PieceInPlace

LEMMA PrintNextStep ==
  ASSUME PrinterInv, PrintNext
  PROVE  PrinterInv'
<1> DEFINE array == Parent.type = "array"
           last == Here.next = NULL
           comma == IF last THEN <<>> ELSE <<44>>
           s == IF array THEN <<44>> \o Fmt(<<32>>) ELSE comma \o Fmt(<<10>>)
           next == IF last THEN "close" ELSE IF array THEN "value" ELSE "member"
<1>1. /\ printing = "next"
      /\ item' = (IF last THEN item ELSE Here.next)
      /\ print_calls' = print_calls /\ print_depth' = print_depth
      /\ IF array /\ last THEN printing' = next /\ UNCHANGED <<tree, by, format, bytes, print_strings>>
         ELSE Piece(Len(s) + 1, s, TRUE, Len(s), next)
  BY DEF PrintNext
<1>2. s \in Seq(Byte)
  <2>1. 44 \in Byte /\ 32 \in Byte /\ 10 \in Byte
    BY DEF Byte
  <2>2. <<44>> \o Fmt(<<32>>) \in Seq(Byte) /\ Fmt(<<10>>) \in Seq(Byte)
    BY <2>1, PairFacts
  <2>3. comma \in Seq(Byte)
    BY <2>1
  <2> HIDE DEF comma
  <2>4. comma \o Fmt(<<10>>) \in Seq(Byte)
    BY <2>2, <2>3, ConcatProperties
  <2> QED
    BY <2>2, <2>4
<1>3. next \in {"close", "value", "member"}
  OBVIOUS
<1>4. item' \in Items
  BY <1>1, Facts
<1> HIDE DEF array, last, s, next
<1>5. printing \in Loops /\ printing \in Within /\ next \in Loops /\ next \in Pcs
  BY <1>1, <1>3 DEF Loops, Within, Pcs
<1>6. CASE printing' = next /\ UNCHANGED <<tree, by, format, bytes, print_strings>>
  BY <1>1, <1>4, <1>5, <1>6, Onwards
<1>7. CASE Piece(Len(s) + 1, s, TRUE, Len(s), next)
  <2>1. Len(s) \in Nat /\ Len(s) + 1 \in Nat
    BY <1>2
  <2>2. print_calls' \in Seq(Items) /\ print_depth' = Len(print_calls') /\ print_calls' # <<>> /\ InPlace
    BY <1>1, <1>5, Facts
  <2> QED
    BY <1>2, <1>4, <1>5, <1>7, <2>1, <2>2, PieceKeeps
<1> QED
  BY <1>1, <1>6, <1>7

LEMMA CloseStep ==
  ASSUME PrinterInv, PrintClose
  PROVE  PrinterInv'
<1> DEFINE array == Parent.type = "array"
           s == IF array THEN <<93>> ELSE ClosingTabs \o <<125>>
           needed == IF array \/ ~format THEN 2 ELSE print_depth + 1
<1>1. printing = "close" /\ Piece(needed, s, TRUE, 0, "returned") /\ Leave
  BY DEF PrintClose
<1>2. printing \in Loops /\ printing \in Within /\ "returned" \notin Within /\ "refused" \notin Within
  BY <1>1 DEF Loops, Within
<1>3. /\ print_calls \in Seq(Items) /\ print_calls # <<>> /\ print_depth = Len(print_calls) /\ print_depth \in Nat /\ print_depth > 0
      /\ item \in Items /\ InPlace
  <2>1. /\ print_calls \in Seq(Items) /\ print_calls # <<>> /\ print_depth = Len(print_calls) /\ item \in Items /\ InPlace
    BY <1>2, Facts
  <2> QED
    BY <2>1, EmptySeq
<1>4. s \in Seq(Byte) /\ needed = Len(s) + 1
  <2>1. 93 \in Byte /\ 125 \in Byte
    BY DEF Byte
  <2>2. CASE array
    BY <2>1, <2>2
  <2>3. CASE ~array /\ ~format
    <3>1. ClosingTabs = <<>>
      BY <2>3 DEF ClosingTabs, Fmt
    <3>2. s = <<125>>
      BY <2>3, <3>1
    <3> HIDE DEF s
    <3> QED
      BY <2>1, <2>3, <3>2
  <2>4. CASE ~array /\ format
    <3>1. ClosingTabs = Tabs(print_depth - 1) /\ print_depth - 1 \in Nat
      BY <1>3, <2>4 DEF ClosingTabs, Fmt
    <3>2. ClosingTabs \in Seq(Byte) /\ Len(ClosingTabs) = print_depth - 1
      BY <3>1, TabsFacts
    <3>3. <<125>> \in Seq(Byte) /\ Len(<<125>>) = 1
      BY <2>1
    <3>4. s \in Seq(Byte) /\ Len(s) = (print_depth - 1) + 1
      BY <2>4, <3>2, <3>3, ConcatProperties
    <3> HIDE DEF s
    <3> QED
      BY <1>3, <2>4, <3>4
  <2> QED
    BY <2>2, <2>3, <2>4
<1> HIDE DEF array, s, needed
<1>5. needed \in Nat
  BY <1>4
<1>6. CASE printing' = "refused"
  <2>1. UNCHANGED control
    BY <1>1, <1>6 DEF Leave
  <2>2. item' = item /\ print_calls' = print_calls /\ print_depth' = print_depth
    BY <2>1 DEF control
  <2>3. item' \in Items /\ print_calls' \in Seq(Items) /\ print_depth' = Len(print_calls')
    BY <1>3, <2>2
  <2>4. printing' \in Within => print_calls' # <<>>
    BY <1>2, <1>6
  <2> QED
    BY <1>1, <1>3, <1>4, <1>5, <2>3, <2>4, PieceKeeps
<1>7. CASE printing' # "refused"
  <2>1. item' = print_calls[Len(print_calls)] /\ print_calls' = SubSeq(print_calls, 1, Len(print_calls) - 1) /\ print_depth' = print_depth - 1
    BY <1>1, <1>7 DEF Leave
  <2>2. item' \in Items
    BY <1>3, <2>1
  <2>3. print_calls' \in Seq(Items) /\ Len(print_calls') = Len(print_calls) - 1
    BY <1>3, <2>1
  <2>4. printing' = "returned"
    BY <1>1, <1>7 DEF Piece
  <2>5. print_depth' = Len(print_calls')
    BY <1>3, <2>1, <2>3
  <2>6. printing' \in Within => print_calls' # <<>>
    BY <1>2, <2>4
  <2> QED
    BY <1>1, <1>3, <1>4, <1>5, <2>2, <2>3, <2>5, <2>6, PieceKeeps
<1> QED
  BY <1>6, <1>7

\* update_offset finds the end of the text.
LEMMA Offset ==
  ASSUME PrinterInv, printing \in {"returned", "named"}, update_offset
  PROVE  /\ print_offset' = wanted /\ Len(buffer) = wanted /\ wanted < length /\ ended /\ PrintsInside'
         /\ print_offset' \in Nat
<1>1. Whole /\ PrintsInside
  BY DEF PrinterInv, Places
<1>2. print_offset' = Len(buffer) /\ overrun' = (overrun \/ ~ended)
  BY DEF update_offset
<1>3. Len(buffer) = wanted /\ wanted < length /\ ended
  BY <1>1 DEF Whole
<1>4. PrintsInside'
  BY <1>1, <1>2, <1>3 DEF PrintsInside
<1> QED
  BY <1>2, <1>3, <1>4, Facts

LEMMA OffsetStep ==
  ASSUME PrinterInv, NameEnd \/ Returned
  PROVE  PrinterInv'
<1>1. /\ printing \in {"returned", "named"} /\ printing' \in {"colon", "next"} /\ print_calls # <<>> /\ update_offset
      /\ UNCHANGED <<tree, by, format, control, length, buffer, ended, wanted, print_strings>>
  <2>1. CASE NameEnd
    <3>1. printing = "named" /\ printing' = "colon" /\ update_offset
          /\ UNCHANGED <<tree, by, format, control, length, buffer, ended, wanted, print_strings>>
      BY <2>1 DEF NameEnd
    <3>2. printing \in Within
      BY <3>1 DEF Within
    <3> QED
      BY <3>1, <3>2, Facts
  <2>2. CASE Returned
    BY <2>2 DEF Returned
  <2> QED
    BY <2>1, <2>2
<1>2. /\ tree' = tree /\ by' = by /\ format' = format
      /\ item' = item /\ print_calls' = print_calls /\ print_depth' = print_depth
      /\ length' = length /\ buffer' = buffer /\ ended' = ended /\ wanted' = wanted
      /\ input' = input /\ counts' = counts
      /\ print_pointer' = print_pointer /\ output_pointer' = output_pointer
  BY <1>1 DEF control, print_strings
<1>3. /\ print_offset' = wanted /\ Len(buffer) = wanted /\ wanted < length /\ ended /\ PrintsInside'
      /\ print_offset' \in Nat
  BY <1>1, Offset
<1>4. printing' \in Pcs /\ printing' \in Loops
  BY <1>1 DEF Pcs, Loops
<1>5. PrinterTypeOK /\ IntMax \in Nat
  BY SizesAssumption DEF PrinterInv
<1>6. PrinterTypeOK'
  BY <1>2, <1>3, <1>4, <1>5, Facts, TypesKept
<1>7. InPlace'
  BY <1>2, <1>3 DEF InPlace
<1>8. Places'
  BY <1>4, <1>7 DEF Places, Counting, PrintCopying, Loops
<1>9. RoomMeansSuccess'
  BY <1>1 DEF RoomMeansSuccess
<1>10. PrintDepthIsNesting' /\ InContainer'
  BY <1>1, <1>2, Facts DEF PrintDepthIsNesting, InContainer
<1> QED
  BY <1>3, <1>6, <1>8, <1>9, <1>10 DEF PrinterInv

\* print gives back all but what is used.
LEMMA PrintEndStep ==
  ASSUME PrinterInv, PrintEnd
  PROVE  PrinterInv'
<1>1. /\ printing = "returned" /\ printing' = "done"
      /\ UNCHANGED <<tree, by, format, control, buffer, ended, wanted, print_strings>>
      /\ \/ update_offset /\ length' = Len(buffer) + 1
         \/ UNCHANGED <<print_offset, length, overrun>>
  BY DEF PrintEnd
<1>2. /\ tree' = tree /\ by' = by /\ format' = format
      /\ item' = item /\ print_calls' = print_calls /\ print_depth' = print_depth
      /\ buffer' = buffer /\ ended' = ended /\ wanted' = wanted
      /\ input' = input /\ counts' = counts
      /\ print_pointer' = print_pointer /\ output_pointer' = output_pointer
  BY <1>1 DEF control, print_strings
<1>3. PrinterTypeOK /\ PrintsInside /\ Whole /\ IntMax \in Nat
  BY <1>1, SizesAssumption DEF PrinterInv, Places
<1>4. /\ print_offset' \in Nat /\ print_offset' <= wanted /\ PrintsInside'
      /\ length' \in 0 .. IntMax /\ wanted < length'
  <2>1. CASE update_offset /\ length' = Len(buffer) + 1
    <3>1. /\ print_offset' = wanted /\ Len(buffer) = wanted /\ wanted < length /\ PrintsInside' /\ print_offset' \in Nat
      BY <1>1, <2>1, Offset
    <3> QED
      BY <1>3, <2>1, <3>1, Facts
  <2>2. CASE UNCHANGED <<print_offset, length, overrun>>
    <3>1. PrintsInside'
      BY <1>3, <2>2 DEF PrintsInside
    <3> QED
      BY <1>3, <2>2, <3>1, Facts DEF Whole
  <2> QED
    BY <1>1, <2>1, <2>2
<1>5. printing' \in Pcs
  BY <1>1 DEF Pcs
<1>6. PrinterTypeOK'
  BY <1>2, <1>3, <1>4, <1>5, Facts, TypesKept
<1>7. Whole'
  BY <1>2, <1>3, <1>4 DEF Whole
<1>8. Places'
  BY <1>1, <1>7 DEF Places, Counting, PrintCopying, Loops
<1>9. RoomMeansSuccess'
  BY <1>1 DEF RoomMeansSuccess
<1>10. PrintDepthIsNesting' /\ InContainer'
  BY <1>1, <1>2, Facts DEF PrintDepthIsNesting, InContainer, Within
<1> QED
  BY <1>4, <1>6, <1>8, <1>9, <1>10 DEF PrinterInv

-----------------------------------------------------------------------------
(* print_string_ptr *)

LEMMA StringBeginStep ==
  ASSUME PrinterInv, PrintString
  PROVE  PrinterInv'
<1> DEFINE s == IF printing = "name" THEN Here.string ELSE Here.valuestring
<1>1. printing \in {"name", "value"} /\ UNCHANGED control
  BY DEF PrintString
<1>2. s = NULL \/ s \in Seq(Byte)
  BY Facts
<1>3. \/ s = NULL /\ Piece(3, <<Quote, Quote>>, TRUE, 0, Then)
      \/ /\ s # NULL /\ input' = s /\ counts' = <<0>>
         /\ printing' = (IF printing = "name" THEN "count name" ELSE "count")
         /\ UNCHANGED <<tree, by, format, bytes, print_pointer, output_pointer>>
  BY DEF PrintString
<1>4. /\ item' = item /\ print_calls' = print_calls /\ print_depth' = print_depth
  BY <1>1 DEF control
<1>5. printing \in Loops /\ (printing = "name" => printing \in Within)
  BY <1>1 DEF Loops, Within
<1> HIDE DEF s
<1>6. CASE Piece(3, <<Quote, Quote>>, TRUE, 0, Then)
  <2> DEFINE q == <<Quote, Quote>>
             next == Then
  <2>1. q \in Seq(Byte) /\ Len(q) = 2
    BY DEF Quote, Byte
  <2>2. Then \in {"returned", "named"} /\ (Then \in Within => printing \in Within)
    BY <1>1, <1>5 DEF Then, Within
  <2>3. Piece(3, q, TRUE, 0, next)
    BY <1>6
  <2> HIDE DEF q, next
  <2>4. 3 = Len(q) + 1 /\ 3 \in Nat
    BY <2>1
  <2>5. next \in {"returned", "named"} /\ (next \in Within => printing \in Within)
    BY <2>2 DEF next
  <2> QED
    BY <1>1, <1>5, <2>1, <2>3, <2>4, <2>5, PieceInPlace
<1>7. CASE /\ s # NULL /\ input' = s /\ counts' = <<0>>
           /\ printing' = (IF printing = "name" THEN "count name" ELSE "count")
           /\ UNCHANGED <<tree, by, format, bytes, print_pointer, output_pointer>>
  <2>1. /\ tree' = tree /\ by' = by /\ format' = format
        /\ length' = length /\ print_offset' = print_offset /\ buffer' = buffer /\ ended' = ended
        /\ wanted' = wanted /\ overrun' = overrun
        /\ print_pointer' = print_pointer /\ output_pointer' = output_pointer
    BY <1>7 DEF bytes
  <2>2. /\ printing' \in {"count", "count name"} /\ (printing' = "count name" => printing = "name")
    BY <1>7
  <2>3. PrinterTypeOK /\ PrintsInside /\ InPlace
    BY <1>5, Facts DEF PrinterInv
  <2>4. input' \in Seq(Byte) /\ counts' \in Seq(Nat) /\ PrintsInside' /\ printing' \in Pcs
    <3>1. PrintsInside'
      BY <2>1, <2>3 DEF PrintsInside
    <3>2. printing' \in Pcs
      BY <2>2 DEF Pcs
    <3>3. <<0>> \in Seq(Nat)
      OBVIOUS
    <3> QED
      BY <1>2, <1>7, <3>1, <3>2, <3>3
  <2>5. PrinterTypeOK'
    BY <1>4, <2>1, <2>3, <2>4, Facts, TypesKept
  <2>6. Summed'
    <3>1. counts' # <<>> /\ Len(counts') = 1 /\ counts'[1] = 0
      BY <1>7
    <3>2. Len(input') \in Nat
      BY <2>4
    <3>3. escape_characters' = 0
      BY <3>1 DEF escape_characters
    <3> HIDE DEF Extra, escape_characters
    <3> QED
      BY <3>1, <3>2, <3>3 DEF Summed
  <2>7. InPlace'
    BY <2>1, <2>3 DEF InPlace
  <2>8. Places'
    BY <2>2, <2>6, <2>7 DEF Places, Counting, PrintCopying, Loops
  <2>9. RoomMeansSuccess'
    BY <2>2 DEF RoomMeansSuccess
  <2>10. PrintDepthIsNesting' /\ InContainer'
    BY <1>4, <1>5, <2>2, Facts DEF PrintDepthIsNesting, InContainer, Within
  <2> QED
    BY <2>4, <2>5, <2>8, <2>9, <2>10 DEF PrinterInv
<1> QED
  BY <1>3, <1>6, <1>7

\* The next sum.
LEMMA SummedOn ==
  ASSUME input \in Seq(Byte), counts \in Seq(Nat), Summed, Len(counts) <= Len(input),
         counts' = Append(counts, escape_characters + Extra(input[Len(counts)])),
         input' = input
  PROVE  counts' \in Seq(Nat) /\ Summed'
<1> DEFINE n == Len(counts)
           more == Extra(input[n])
<1>1. n \in Nat /\ n > 0 /\ counts # <<>> /\ counts[1] = 0 /\ Len(input) \in Nat
  BY EmptySeq DEF Summed
<1>2. more \in Nat /\ escape_characters \in Nat /\ escape_characters = counts[n]
  <2>1. input[n] \in Byte
    BY <1>1
  <2>2. counts[n] \in Nat
    BY <1>1
  <2> QED
    BY <2>1, <2>2, EscapedFacts DEF escape_characters
<1>3. /\ counts' \in Seq(Nat) /\ Len(counts') = n + 1 /\ counts' # <<>>
      /\ \A i \in 1 .. n : counts'[i] = counts[i]
      /\ counts'[n + 1] = counts[n] + more
  <2> DEFINE e == escape_characters + more
  <2>1. e \in Nat /\ counts' = Append(counts, e)
    BY <1>2
  <2>2. e = counts[n] + more
    BY <1>2
  <2> HIDE DEF e
  <2>3. /\ Append(counts, e) \in Seq(Nat) /\ Append(counts, e) # <<>>
        /\ Len(Append(counts, e)) = n + 1
        /\ \A i \in 1 .. n : Append(counts, e)[i] = counts[i]
        /\ Append(counts, e)[n + 1] = e
    BY <2>1, AppendProperties
  <2> QED
    BY <2>1, <2>2, <2>3
<1>4. escape_characters' = escape_characters + more
  BY <1>2, <1>3 DEF escape_characters
<1>5. \A i \in 1 .. n - 1 : counts[i + 1] = counts[i] + Extra(input[i])
  BY DEF Summed
<1>6. \A i \in 1 .. n : counts[i] <= escape_characters
  BY DEF Summed
<1> HIDE DEF Extra, escape_characters
<1>7. ASSUME NEW i \in 1 .. Len(counts') - 1
      PROVE  counts'[i + 1] = counts'[i] + Extra(input'[i])
  <2>1. CASE i = n
    BY <1>1, <1>3, <2>1
  <2>2. CASE i \in 1 .. n - 1
    <3>1. i \in 1 .. n /\ i + 1 \in 1 .. n
      BY <1>1, <2>2
    <3> HIDE DEF n
    <3> QED
      BY <1>3, <1>5, <2>2, <3>1
  <2> QED
    BY <1>1, <1>3, <2>1, <2>2
<1>8. ASSUME NEW i \in 1 .. Len(counts')
      PROVE  counts'[i] <= escape_characters'
  <2>1. CASE i \in 1 .. n
    <3>1. counts[i] \in Nat
      BY <2>1
    <3> HIDE DEF n, more
    <3> QED
      BY <1>2, <1>3, <1>4, <1>6, <2>1, <3>1
  <2>2. CASE i = n + 1
    <3> HIDE DEF n, more
    <3>1. counts'[i] = escape_characters'
      BY <1>2, <1>3, <1>4, <2>2
    <3>2. escape_characters' \in Nat
      BY <1>2, <1>4
    <3> QED
      BY <3>1, <3>2
  <2> QED
    BY <1>1, <1>3, <2>1, <2>2
<1>9. counts'[1] = 0
  BY <1>1, <1>3
<1>10. Len(counts') <= Len(input') + 1
  BY <1>1, <1>3
<1> QED
  BY <1>3, <1>7, <1>8, <1>9, <1>10 DEF Summed

LEMMA CountStep ==
  ASSUME PrinterInv, Count
  PROVE  PrinterInv'
<1>1. /\ Counting /\ Len(counts) <= Len(input)
      /\ counts' = Append(counts, escape_characters + Extra(input[Len(counts)]))
      /\ UNCHANGED <<tree, by, format, printing, control, bytes, input, print_pointer, output_pointer>>
  BY DEF Count, escape_characters
<1>2. /\ tree' = tree /\ by' = by /\ format' = format /\ printing' = printing
      /\ item' = item /\ print_calls' = print_calls /\ print_depth' = print_depth
      /\ length' = length /\ print_offset' = print_offset /\ buffer' = buffer /\ ended' = ended
      /\ wanted' = wanted /\ overrun' = overrun /\ input' = input
      /\ print_pointer' = print_pointer /\ output_pointer' = output_pointer
  BY <1>1 DEF control, bytes
<1>3. PrinterTypeOK /\ PrintsInside /\ InPlace /\ Summed /\ InContainer /\ PrintDepthIsNesting
  BY <1>1 DEF PrinterInv, Places
<1>4. printing \in {"count", "count name"} /\ printing \in Pcs
  BY <1>1 DEF Counting, Pcs
<1>5. counts' \in Seq(Nat) /\ Summed'
  BY <1>1, <1>2, <1>3, Facts, SummedOn
<1>6. PrintsInside' /\ InPlace' /\ InContainer' /\ PrintDepthIsNesting'
  BY <1>2, <1>3 DEF PrintsInside, InPlace, InContainer, PrintDepthIsNesting
<1>7. PrinterTypeOK'
  BY <1>2, <1>3, <1>4, <1>5, <1>6, Facts, TypesKept
<1>8. Places'
  BY <1>2, <1>4, <1>5, <1>6 DEF Places, Counting, PrintCopying, Loops
<1>9. RoomMeansSuccess'
  BY <1>2, <1>4 DEF RoomMeansSuccess
<1> QED
  BY <1>6, <1>7, <1>8, <1>9 DEF PrinterInv

LEMMA ReserveStep ==
  ASSUME PrinterInv, Reserve
  PROVE  PrinterInv'
<1> DEFINE needed == output_length + 3
<1>1. /\ Counting /\ Len(counts) > Len(input)
      /\ wanted' = wanted + output_length + 2
      /\ UNCHANGED <<tree, by, format, control, print_offset, input, counts>>
  BY DEF Reserve
<1>2. /\ tree' = tree /\ by' = by /\ format' = format
      /\ item' = item /\ print_calls' = print_calls /\ print_depth' = print_depth
      /\ print_offset' = print_offset /\ input' = input /\ counts' = counts
  BY <1>1 DEF control
<1>3. PrinterTypeOK /\ PrintsInside /\ InPlace /\ Summed /\ InContainer /\ PrintDepthIsNesting
  BY <1>1 DEF PrinterInv, Places
<1>4. printing \in {"count", "count name"}
  BY <1>1 DEF Counting
<1>5. /\ Len(input) \in Nat /\ Len(counts) = Len(input) + 1
      /\ counts[1] = 0 /\ escape_characters \in Nat /\ output_length \in Nat
  <2>1. Len(input) \in Nat /\ Len(counts) \in Nat
    BY Facts
  <2>2. Len(counts) = Len(input) + 1 /\ counts[1] = 0
    BY <1>1, <1>3, <2>1 DEF Summed
  <2>3. escape_characters \in Nat
    BY <2>1, <2>2, Facts DEF escape_characters
  <2> QED
    BY <2>1, <2>2, <2>3 DEF output_length
<1>6. /\ length \in 0 .. IntMax /\ print_offset \in Nat /\ buffer \in Seq(Byte) /\ wanted \in Nat
      /\ print_offset = wanted /\ Len(buffer) = print_offset /\ (print_offset < length \/ print_offset = 0)
      /\ IntMax \in Nat
  BY <1>3, Facts, SizesAssumption DEF InPlace
<1>7. needed \in Nat /\ wanted' \in Nat
  BY <1>1, <1>5, <1>6
<1>8. InContainer' /\ PrintDepthIsNesting' /\ Summed'
  <2>1. PrintDepthIsNesting' /\ Summed'
    BY <1>2, <1>3 DEF PrintDepthIsNesting, Summed, escape_characters
  <2>2. printing' \in Within => printing = "count name"
    BY <1>4 DEF Reserve, Then, Within
  <2>3. printing = "count name" => printing \in Within
    BY DEF Within
  <2>4. InContainer'
    BY <1>2, <2>2, <2>3, Facts DEF InContainer
  <2> QED
    BY <2>1, <2>4
<1>9. CASE /\ ensure(needed) = {} /\ printing' = "refused"
           /\ UNCHANGED <<length, buffer, ended, overrun, print_pointer, output_pointer>>
  <2>1. needed + print_offset + 1 > Room
    BY <1>6, <1>7, <1>9, Refused
  <2>2. Room' = Room /\ Room \in Nat
    BY <1>2, <1>6, <1>9 DEF Room, noalloc
  <2>3. wanted' + 2 > Room'
    BY <1>1, <1>5, <1>6, <2>1, <2>2
  <2>4. RoomMeansSuccess'
    BY <2>3 DEF RoomMeansSuccess
  <2>5. PrintsInside' /\ printing' \in Pcs
    BY <1>3, <1>9 DEF PrintsInside, Pcs
  <2>6. /\ length' = length /\ buffer' = buffer /\ ended' = ended
        /\ print_pointer' = print_pointer /\ output_pointer' = output_pointer
    BY <1>9
  <2>7. PrinterTypeOK'
    BY <1>2, <1>3, <1>6, <1>7, <2>5, <2>6, Facts, TypesKept
  <2>8. Places'
    BY <1>9 DEF Places, Counting, PrintCopying, Loops
  <2> QED
    BY <1>8, <2>4, <2>5, <2>7, <2>8 DEF PrinterInv
<1>10. CASE length' \in ensure(needed) /\ escape_characters = 0
  <2> DEFINE s == <<Quote>> \o input \o <<Quote>>
  <2>1. /\ Write(print_offset, s, TRUE, 0) /\ printing' = Then
        /\ print_pointer' = print_pointer /\ output_pointer' = output_pointer
    BY <1>10, Facts DEF Reserve
  <2>2. s \in Seq(Byte) /\ Len(s) = Len(input) + 2
    <3> DEFINE q == <<Quote>>
    <3>1. q \in Seq(Byte) /\ Len(q) = 1 /\ input \in Seq(Byte)
      BY Facts DEF Quote, Byte
    <3>2. s = (q \o input) \o q
      OBVIOUS
    <3> HIDE DEF q, s
    <3>3. q \o input \in Seq(Byte) /\ Len(q \o input) = 1 + Len(input)
      BY <3>1, ConcatProperties
    <3>4. (q \o input) \o q \in Seq(Byte) /\ Len((q \o input) \o q) = Len(q \o input) + Len(q)
      BY <3>1, <3>3, ConcatProperties
    <3> QED
      BY <1>5, <3>1, <3>2, <3>3, <3>4
  <2> HIDE DEF s
  <2>3. length' \in 0 .. IntMax /\ length' >= needed + print_offset + 1
    BY <1>6, <1>7, <1>10, Granted
  <2>4. output_length = Len(input)
    BY <1>5, <1>10 DEF output_length
  <2>5. print_offset + Len(s) + 0 < length' /\ print_offset + Len(s) + 0 <= length' /\ length' \in Nat
    BY <1>5, <1>6, <2>2, <2>3, <2>4
  <2>6. /\ buffer' \in Seq(Byte) /\ Len(buffer') = Len(buffer) + Len(s)
        /\ ended' = TRUE /\ PrintsInside'
    BY <1>3, <1>6, <2>1, <2>2, <2>5, Writing
  <2>7. wanted' = print_offset + Len(s) /\ Len(buffer') = wanted' /\ wanted' < length' /\ print_offset' <= wanted'
    BY <1>1, <1>2, <1>5, <1>6, <2>2, <2>4, <2>5, <2>6
  <2>8. printing' \in {"returned", "named"}
    BY <2>1 DEF Then
  <2>9. printing' \in Pcs
    BY <2>8 DEF Pcs
  <2>10. PrinterTypeOK'
    BY <1>2, <1>3, <1>6, <1>7, <2>1, <2>3, <2>6, <2>9, Facts, TypesKept
  <2>11. Whole'
    BY <2>6, <2>7 DEF Whole
  <2>12. Places' /\ RoomMeansSuccess'
    BY <2>8, <2>11 DEF Places, Counting, PrintCopying, Loops, RoomMeansSuccess
  <2> QED
    BY <1>8, <2>6, <2>10, <2>12 DEF PrinterInv
<1>11. CASE length' \in ensure(needed) /\ escape_characters # 0
  <2> DEFINE s == <<Quote>>
  <2>1. /\ Write(print_offset, s, FALSE, 0)
        /\ print_pointer' = 1 /\ output_pointer' = print_offset + 1
    BY <1>11, Facts DEF Reserve
  <2>2. printing' \in {"copy", "copy name"}
    BY <1>11 DEF Reserve
  <2>3. s \in Seq(Byte) /\ Len(s) = 1
    BY DEF Quote, Byte
  <2> HIDE DEF s
  <2>4. length' \in 0 .. IntMax /\ length' >= needed + print_offset + 1
    BY <1>6, <1>7, <1>11, Granted
  <2>5. print_offset + Len(s) + 0 <= length' /\ length' \in Nat
    BY <1>5, <1>6, <2>3, <2>4
  <2>6. /\ buffer' \in Seq(Byte) /\ Len(buffer') = Len(buffer) + Len(s)
        /\ ended' = FALSE /\ PrintsInside'
    BY <1>3, <1>6, <2>1, <2>3, <2>5, Writing
  <2>7. printing' \in Pcs
    BY <2>2 DEF Pcs
  <2>8. print_pointer' \in Nat /\ output_pointer' \in Nat
    BY <1>6, <2>1
  <2>9. PrinterTypeOK'
    BY <1>2, <1>3, <1>6, <1>7, <2>4, <2>6, <2>7, <2>8, Facts, TypesKept
  <2>10. Ahead'
    <3>1. output_length' = output_length
      BY <1>2 DEF output_length, escape_characters
    <3>2. wanted' = print_offset' + output_length' + 2 /\ wanted' + 2 <= length'
      BY <1>1, <1>2, <1>5, <1>6, <2>4, <3>1
    <3>3. print_pointer' \in 1 .. Len(input') + 1 /\ Len(counts') = Len(input') + 1
      BY <1>2, <1>5, <2>1
    <3>4. counts'[print_pointer'] = 0
      BY <1>2, <1>5, <2>1
    <3>5. output_pointer' = print_offset' + print_pointer' + counts'[print_pointer']
      BY <1>2, <1>6, <2>1, <3>4
    <3>6. Len(buffer') = output_pointer'
      BY <1>6, <2>1, <2>3, <2>6
    <3> QED
      BY <3>2, <3>3, <3>5, <3>6 DEF Ahead
  <2>11. Places' /\ RoomMeansSuccess'
    BY <1>8, <2>2, <2>10 DEF Places, Counting, PrintCopying, Loops, RoomMeansSuccess
  <2> QED
    BY <1>8, <2>6, <2>9, <2>11 DEF PrinterInv
<1> QED
  BY <1>9, <1>10, <1>11 DEF Reserve

\* What a step of the copying pass has to go by.
LEMMA CopyFacts ==
  ASSUME PrinterInv, PrintCopying
  PROVE  /\ PrinterTypeOK /\ PrintsInside /\ Summed /\ Ahead /\ InContainer /\ PrintDepthIsNesting
         /\ printing \in {"copy", "copy name"}
         /\ Len(input) \in Nat /\ Len(counts) = Len(input) + 1
         /\ escape_characters \in Nat /\ output_length = Len(input) + escape_characters
         /\ \A i \in 1 .. Len(counts) : counts[i] \in Nat /\ counts[i] <= escape_characters
         /\ escape_characters = counts[Len(input) + 1]
<1>1. /\ PrinterTypeOK /\ PrintsInside /\ Summed /\ Ahead /\ InContainer /\ PrintDepthIsNesting
  BY DEF PrinterInv, Places
<1>2. printing \in {"copy", "copy name"}
  BY DEF PrintCopying
<1>3. Len(input) \in Nat /\ Len(counts) = Len(input) + 1
  BY <1>1, Facts DEF Ahead
<1>4. \A i \in 1 .. Len(counts) : counts[i] \in Nat
  BY <1>3, Facts
<1>5. \A i \in 1 .. Len(counts) : counts[i] <= escape_characters
  BY <1>1 DEF Summed
<1>6. escape_characters = counts[Len(input) + 1]
  BY <1>3 DEF escape_characters
<1>7. escape_characters \in Nat
  <2>1. Len(input) + 1 \in 1 .. Len(counts)
    BY <1>3
  <2> QED
    BY <1>4, <1>6, <2>1
<1>8. output_length = Len(input) + escape_characters
  BY DEF output_length
<1> QED
  BY <1>1, <1>2, <1>3, <1>4, <1>5, <1>6, <1>7, <1>8, Zenon

LEMMA CopyStep ==
  ASSUME PrinterInv, Copy
  PROVE  PrinterInv'
<1> DEFINE i == print_pointer
           s == Escaped(input[i])
           more == IF Len(s) = 6 THEN 1 ELSE 0
<1>1. /\ PrintCopying /\ i <= Len(input)
      /\ UNCHANGED <<tree, by, format, printing, control, length, print_offset, wanted, input, counts>>
      /\ Write(output_pointer, s, FALSE, more)
      /\ output_pointer' = output_pointer + Len(s)
      /\ print_pointer' = i + 1
  BY DEF Copy
<1>2. /\ tree' = tree /\ by' = by /\ format' = format /\ printing' = printing
      /\ item' = item /\ print_calls' = print_calls /\ print_depth' = print_depth
      /\ length' = length /\ print_offset' = print_offset /\ wanted' = wanted
      /\ input' = input /\ counts' = counts
  BY <1>1 DEF control
<1>3. /\ PrinterTypeOK /\ PrintsInside /\ Summed /\ Ahead /\ InContainer /\ PrintDepthIsNesting
      /\ printing \in {"copy", "copy name"}
      /\ Len(input) \in Nat /\ Len(counts) = Len(input) + 1
      /\ escape_characters \in Nat /\ output_length = Len(input) + escape_characters
      /\ \A j \in 1 .. Len(counts) : counts[j] \in Nat /\ counts[j] <= escape_characters
  BY <1>1, CopyFacts
<1>4. /\ i \in 1 .. Len(input) /\ i \in 1 .. Len(counts) /\ i + 1 \in 1 .. Len(counts)
      /\ wanted = print_offset + output_length + 2 /\ wanted + 2 <= length
      /\ output_pointer = print_offset + i + counts[i] /\ Len(buffer) = output_pointer
  <2>1. /\ wanted = print_offset + output_length + 2 /\ wanted + 2 <= length
        /\ output_pointer = print_offset + i + counts[i] /\ Len(buffer) = output_pointer
        /\ i \in 1 .. Len(input) + 1
    BY <1>3, Zenon DEF Ahead
  <2>2. i \in 1 .. Len(input) /\ i \in 1 .. Len(counts) /\ i + 1 \in 1 .. Len(counts)
    <3> HIDE DEF i
    <3>1. i \in 1 .. Len(input) + 1 /\ i <= Len(input) /\ Len(input) \in Nat
          /\ Len(counts) = Len(input) + 1
      BY <1>1, <1>3, <2>1, Zenon
    <3> QED
      BY <3>1
  <2> QED
    BY <2>1, <2>2, Zenon
<1>5. /\ input[i] \in Byte
  BY <1>4, Facts
<1>6. /\ s \in Seq(Byte) /\ Len(s) = 1 + Extra(input[i]) /\ Extra(input[i]) \in Nat
  BY <1>5, EscapedFacts
<1>7. counts[i + 1] = counts[i] + Extra(input[i])
  <2> HIDE DEF i, Extra
  <2>1. \A j \in 1 .. Len(counts) - 1 : counts[j + 1] = counts[j] + Extra(input[j])
    BY <1>3, Zenon DEF Summed
  <2>2. i \in 1 .. Len(counts) - 1
    <3>1. Len(counts) = Len(input) + 1 /\ Len(input) \in Nat /\ i \in 1 .. Len(input)
      BY <1>3, <1>4, Zenon
    <3> QED
      BY <3>1
  <2> QED
    BY <2>1, <2>2, Zenon
<1>8. more \in 0 .. 1
  OBVIOUS
<1>9. counts[i] \in Nat /\ counts[i + 1] \in Nat /\ counts[i + 1] <= escape_characters
  BY <1>3, <1>4
<1>10. print_offset \in Nat /\ length \in Nat /\ wanted \in Nat /\ buffer \in Seq(Byte) /\ i \in Nat
  BY Facts, SizesAssumption
<1> DEFINE e == Extra(input[i])
           a == counts[i]
           b == counts[i + 1]
<1> HIDE DEF i, s, more, Extra
<1>11. output_pointer + Len(s) = print_offset + (i + 1) + counts[i + 1]
  <2>1. /\ output_pointer = print_offset + i + a /\ Len(s) = 1 + e /\ b = a + e
        /\ a \in Nat /\ e \in Nat /\ print_offset \in Nat /\ i \in Nat
    BY <1>4, <1>6, <1>7, <1>9, <1>10, Zenon
  <2> HIDE DEF a, b, e
  <2>2. output_pointer + Len(s) = print_offset + (i + 1) + b
    BY <2>1
  <2> QED
    BY <2>2, Zenon DEF b
<1>12. output_pointer + Len(s) + more <= length'
  <2>1. /\ output_pointer + Len(s) = print_offset + (i + 1) + b /\ b <= escape_characters
        /\ i \in 1 .. Len(input) /\ output_length = Len(input) + escape_characters
        /\ wanted = print_offset + output_length + 2 /\ wanted + 2 <= length /\ length' = length
        /\ escape_characters \in Nat /\ Len(input) \in Nat /\ b \in Nat /\ print_offset \in Nat
        /\ length \in Nat /\ more \in 0 .. 1
    BY <1>2, <1>3, <1>4, <1>8, <1>9, <1>10, <1>11, Zenon
  <2> HIDE DEF b
  <2>2. output_pointer \in Nat /\ Len(s) \in Nat
    BY <1>6, Facts
  <2> QED
    BY <2>1, <2>2
<1>13. /\ buffer' \in Seq(Byte) /\ Len(buffer') = Len(buffer) + Len(s)
       /\ ended' = FALSE /\ PrintsInside'
  <2>1. length' \in Nat /\ more \in Nat /\ FALSE \in BOOLEAN
    BY <1>2, <1>8, <1>10
  <2> QED
    BY <1>1, <1>3, <1>4, <1>6, <1>10, <1>12, <2>1, Writing
<1>14. print_pointer' \in Nat /\ output_pointer' \in Nat
  BY <1>1, <1>9, <1>10, <1>11
<1>15. PrinterTypeOK'
  <2>1. printing' \in Pcs
    BY <1>2, <1>3 DEF Pcs
  <2> QED
    BY <1>2, <1>3, <1>13, <1>14, <2>1, Facts, TypesKept
<1>16. Ahead'
  <2>1. output_length' = output_length
    BY <1>2 DEF output_length, escape_characters
  <2>2. wanted' = print_offset' + output_length' + 2 /\ wanted' + 2 <= length'
    BY <1>2, <1>4, <2>1
  <2>3. print_pointer' \in 1 .. Len(input') + 1 /\ Len(counts') = Len(input') + 1
    BY <1>1, <1>2, <1>3, <1>4
  <2>4. output_pointer' = print_offset' + print_pointer' + counts'[print_pointer']
    BY <1>1, <1>2, <1>11
  <2>5. Len(buffer') = output_pointer'
    BY <1>1, <1>4, <1>13
  <2> QED
    BY <2>2, <2>3, <2>4, <2>5 DEF Ahead
<1>17. Summed' /\ InContainer' /\ PrintDepthIsNesting'
  <2>1. Summed'
    BY <1>2, <1>3 DEF Summed, escape_characters
  <2> QED
    BY <1>2, <1>3, <2>1 DEF InContainer, PrintDepthIsNesting
<1>18. Places' /\ RoomMeansSuccess'
  BY <1>2, <1>3, <1>16, <1>17 DEF Places, Counting, PrintCopying, Loops, RoomMeansSuccess
<1> QED
  BY <1>13, <1>15, <1>17, <1>18 DEF PrinterInv

LEMMA CopyEndStep ==
  ASSUME PrinterInv, CopyEnd
  PROVE  PrinterInv'
<1> DEFINE s == <<Quote>>
<1>1. /\ PrintCopying /\ print_pointer > Len(input)
      /\ UNCHANGED <<tree, by, format, control, length, print_offset, wanted, print_strings>>
      /\ Write(QuotePlace, s, TRUE, 0)
      /\ printing' = Then
  BY DEF CopyEnd
<1>2. /\ tree' = tree /\ by' = by /\ format' = format
      /\ item' = item /\ print_calls' = print_calls /\ print_depth' = print_depth
      /\ length' = length /\ print_offset' = print_offset /\ wanted' = wanted
      /\ input' = input /\ counts' = counts
      /\ print_pointer' = print_pointer /\ output_pointer' = output_pointer
  BY <1>1 DEF control, print_strings
<1>3. /\ PrinterTypeOK /\ PrintsInside /\ Ahead /\ InContainer /\ PrintDepthIsNesting
      /\ printing \in {"copy", "copy name"}
      /\ Len(input) \in Nat /\ escape_characters \in Nat
      /\ output_length = Len(input) + escape_characters
      /\ escape_characters = counts[Len(input) + 1]
  BY <1>1, CopyFacts
<1>4. print_offset \in Nat /\ length \in Nat /\ wanted \in Nat /\ buffer \in Seq(Byte)
  BY Facts, SizesAssumption
<1>5. /\ print_pointer = Len(input) + 1
      /\ wanted = print_offset + output_length + 2 /\ wanted + 2 <= length
      /\ output_pointer = print_offset + print_pointer + counts[print_pointer] /\ Len(buffer) = output_pointer
  <2>1. /\ wanted = print_offset + output_length + 2 /\ wanted + 2 <= length
        /\ output_pointer = print_offset + print_pointer + counts[print_pointer] /\ Len(buffer) = output_pointer
        /\ print_pointer \in 1 .. Len(input) + 1
    BY <1>3, Zenon DEF Ahead
  <2>2. print_pointer > Len(input) /\ Len(input) \in Nat
    BY <1>1, <1>3, Zenon
  <2>3. print_pointer = Len(input) + 1
    BY <2>1, <2>2
  <2> QED
    BY <2>1, <2>3, Zenon
<1>6. QuotePlace = Len(buffer) /\ QuotePlace + 1 = wanted
  <2>1. Len(buffer) = print_offset + (Len(input) + 1) + escape_characters
    BY <1>3, <1>5, Zenon
  <2>2. /\ output_length = Len(input) + escape_characters /\ wanted = print_offset + output_length + 2
        /\ Len(input) \in Nat /\ escape_characters \in Nat /\ print_offset \in Nat
    BY <1>3, <1>4, <1>5, Zenon
  <2> QED
    BY <2>1, <2>2 DEF QuotePlace
<1>7. s \in Seq(Byte) /\ Len(s) = 1
  BY DEF Quote, Byte
<1> HIDE DEF s
<1>8. /\ QuotePlace + Len(s) + 0 < length' /\ QuotePlace + Len(s) + 0 <= length' /\ length' \in Nat
  <2>1. QuotePlace \in Nat
    BY <1>4, <1>6
  <2>2. /\ QuotePlace + 1 = wanted /\ wanted + 2 <= length /\ Len(s) = 1
        /\ length' = length /\ length \in Nat /\ wanted \in Nat
    BY <1>2, <1>4, <1>5, <1>6, <1>7, Zenon
  <2> HIDE DEF QuotePlace
  <2> QED
    BY <2>1, <2>2
<1>9. /\ buffer' \in Seq(Byte) /\ Len(buffer') = Len(buffer) + Len(s)
      /\ ended' = TRUE /\ PrintsInside'
  BY <1>1, <1>3, <1>4, <1>6, <1>7, <1>8, Writing
<1>10. Whole'
  <2>1. Len(buffer') = wanted' /\ wanted' < length' /\ print_offset' <= wanted'
    <3>1. /\ Len(buffer') = Len(buffer) + 1 /\ Len(buffer) + 1 = wanted
          /\ wanted' = wanted /\ print_offset' = print_offset /\ length' = length
          /\ wanted = print_offset + output_length + 2 /\ wanted + 2 <= length
          /\ output_length = Len(input) + escape_characters
          /\ Len(input) \in Nat /\ escape_characters \in Nat
          /\ print_offset \in Nat /\ wanted \in Nat /\ length \in Nat
      BY <1>2, <1>3, <1>4, <1>5, <1>6, <1>7, <1>9, Zenon
    <3> QED
      BY <3>1
  <2> QED
    BY <1>9, <2>1 DEF Whole
<1>11. printing' \in {"returned", "named"} /\ (printing' = "named" => printing = "copy name")
  BY <1>1, <1>3 DEF Then
<1>12. PrinterTypeOK'
  <2>1. printing' \in Pcs
    BY <1>11 DEF Pcs
  <2> QED
    BY <1>2, <1>3, <1>9, <2>1, Facts, TypesKept
<1>13. Places' /\ RoomMeansSuccess'
  BY <1>10, <1>11 DEF Places, Counting, PrintCopying, Loops, RoomMeansSuccess
<1>14. InContainer' /\ PrintDepthIsNesting'
  <2>1. printing' \in Within => printing \in Within
    BY <1>11 DEF Within
  <2> QED
    BY <1>2, <1>3, <2>1, Facts DEF InContainer, PrintDepthIsNesting
<1> QED
  BY <1>9, <1>12, <1>13, <1>14 DEF PrinterInv

-----------------------------------------------------------------------------
(* The theorems *)

LEMMA Initially ==
  ASSUME PrinterInit
  PROVE  PrinterInv
<1>1. /\ tree \in DOMAIN Trees /\ by \in {"Print", "PrintBuffered", "PrintPreallocated"}
      /\ length \in (IF by = "Print" THEN {DefaultSize} ELSE Sizes)
      /\ format \in BOOLEAN
      /\ printing = "value" /\ item = Trees[tree].root /\ print_calls = <<>> /\ print_depth = 0
      /\ print_offset = 0 /\ buffer = <<>> /\ ended = FALSE
      /\ input = <<>> /\ counts = <<0>> /\ print_pointer = 1 /\ output_pointer = 0
      /\ wanted = 0 /\ overrun = FALSE
  BY Zenon DEF PrinterInit
<1>2. length \in 0 .. IntMax
  BY <1>1, SizesAssumption
<1>3. item \in Items
  BY <1>1, RootFacts DEF Items
<1>4. /\ print_calls \in Seq(Items) /\ Len(print_calls) = 0 /\ buffer \in Seq(Byte) /\ Len(buffer) = 0
      /\ input \in Seq(Byte) /\ counts \in Seq(Nat)
  BY <1>1
<1>5. PrinterTypeOK
  BY <1>1, <1>2, <1>3, <1>4 DEF PrinterTypeOK
<1>6. InPlace
  BY <1>1, <1>4 DEF InPlace
<1>7. Places
  BY <1>1, <1>6 DEF Places, Counting, PrintCopying, Loops
<1>8. PrintsInside /\ RoomMeansSuccess /\ PrintDepthIsNesting /\ InContainer
  BY <1>1, <1>4 DEF PrintsInside, RoomMeansSuccess, PrintDepthIsNesting, InContainer, Within
<1> QED
  BY <1>5, <1>7, <1>8 DEF PrinterInv

LEMMA Stuttering ==
  ASSUME PrinterInv, UNCHANGED printer
  PROVE  PrinterInv'
<1>1. /\ tree' = tree /\ by' = by /\ format' = format /\ printing' = printing
      /\ item' = item /\ print_calls' = print_calls /\ print_depth' = print_depth
      /\ length' = length /\ print_offset' = print_offset /\ buffer' = buffer /\ ended' = ended
      /\ wanted' = wanted /\ overrun' = overrun /\ input' = input /\ counts' = counts
      /\ print_pointer' = print_pointer /\ output_pointer' = output_pointer
  BY DEF printer, control, bytes, print_strings
<1>2. Places'
  BY <1>1 DEF PrinterInv, Places, InPlace, Whole, Summed, Ahead, Counting, PrintCopying,
              escape_characters, output_length
<1>3. PrinterTypeOK' /\ PrintsInside'
  BY <1>1 DEF PrinterInv, PrinterTypeOK, PrintsInside, Items
<1>4. RoomMeansSuccess' /\ PrintDepthIsNesting' /\ InContainer'
  BY <1>1 DEF PrinterInv, RoomMeansSuccess, Room, noalloc, PrintDepthIsNesting, InContainer
<1> QED
  BY <1>2, <1>3, <1>4 DEF PrinterInv

\* The printer keeps to its buffer and counts its depth, piece by piece.
LEMMA PrinterStep == ASSUME PrinterInv, PrinterNext PROVE PrinterInv'
BY PrintLiteralStep, PrintNumberStep, RawStep, PrintNothingStep, ArrayBeginStep, ObjectBeginStep,
   IndentStep, PrintColonStep, OffsetStep, PrintNextStep, CloseStep, PrintEndStep, StringBeginStep,
   CountStep, ReserveStep, CopyStep, CopyEndStep DEF PrinterNext

\* What the inductive invariant says of the text.
LEMMA PrinterInvMeans ==
  ASSUME PrinterInv
  PROVE  BufferNeverOverrun /\ TextIsWhole /\ RoomMeansSuccess /\ PrintDepthIsNesting
<1>1. buffer \in Seq(Byte)
  BY DEF PrinterInv, PrinterTypeOK
<1>2. ASSUME NEW i \in DOMAIN buffer PROVE buffer[i] # -1
  <2>1. buffer[i] \in Byte
    BY <1>1
  <2> QED
    BY <2>1 DEF Byte
<1>3. TextIsWhole
  BY <1>2 DEF PrinterInv, Places, InPlace, Whole, TextIsWhole, Loops
<1>4. BufferNeverOverrun
  BY DEF PrinterInv, PrintsInside, BufferNeverOverrun
<1> QED
  BY <1>3, <1>4 DEF PrinterInv

THEOREM PrinterInductive == PrinterSpec => []PrinterInv
<1>1. PrinterInit => PrinterInv
  BY Initially
<1>2. PrinterInv /\ [PrinterNext]_printer => PrinterInv'
  BY PrinterStep, Stuttering
<1> QED
  BY <1>1, <1>2, PTL DEF PrinterSpec

\* Every variable keeps its type; above all, there is no byte in the buffer
\* before the end of the text that was never written.
THEOREM PrinterTypeCorrect == PrinterSpec => []PrinterTypeOK
<1>1. PrinterInv => PrinterTypeOK
  BY DEF PrinterInv
<1> QED
  BY <1>1, PrinterInductive, PTL

\* No write of print_value and its callees goes behind the space that ensure
\* granted, and update_offset never looks for a terminator that is not there.
THEOREM BufferNeverOverrunHolds == PrinterSpec => []BufferNeverOverrun
<1>1. PrinterInv => BufferNeverOverrun
  BY PrinterInvMeans
<1> QED
  BY <1>1, PrinterInductive, PTL

\* Every piece lies right behind the one before it, and what print gives to its
\* caller is all of the text with its terminator.
THEOREM TextIsWholeHolds == PrinterSpec => []TextIsWhole
<1>1. PrinterInv => TextIsWhole
  BY PrinterInvMeans
<1> QED
  BY <1>1, PrinterInductive, PTL

\* ensure refuses nothing for which there is room.
THEOREM RoomMeansSuccessHolds == PrinterSpec => []RoomMeansSuccess
<1>1. PrinterInv => RoomMeansSuccess
  BY PrinterInvMeans
<1> QED
  BY <1>1, PrinterInductive, PTL

\* p->depth is the number of arrays and objects that are open.
THEOREM PrintDepthIsNestingHolds == PrinterSpec => []PrintDepthIsNesting
<1>1. PrinterInv => PrintDepthIsNesting
  BY PrinterInvMeans
<1> QED
  BY <1>1, PrinterInductive, PTL

=============================================================================
