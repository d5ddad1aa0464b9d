----------------------------- MODULE JsonPrinter ----------------------------
(***************************************************************************)
(* The printer of cJSON (source/cJSON.c) byte by byte: print_value and     *)
(* what it calls write a tree of items into a printbuffer, asking ensure   *)
(* for space before each piece, and find the end of a piece by strlen.     *)
(* Places in the buffer count from zero.  Memory is always granted.        *)
(***************************************************************************)
EXTENDS JsonChars

CONSTANTS
  NULL,
  Trees,        \* items in memory, with their root, by a name
  Sizes,        \* lengths of the buffers that callers ask for or give
  DefaultSize,  \* default_buffer_size of print
  IntMax        \* INT_MAX

Types == {"null", "false", "true", "number", "raw", "string", "array", "object", "invalid"}
Byte == 1 .. 255

\* A string may be NULL; a number is what sprintf makes of it.
IsItem(i, items) ==
  /\ i.type \in Types
  /\ i.child = NULL \/ i.child \in items
  /\ i.next = NULL \/ i.next \in items
  /\ i.string = NULL \/ i.string \in Seq(Byte)
  /\ i.valuestring = NULL \/ i.valuestring \in Seq(Byte)
  /\ i.number \in Seq(Byte)

ASSUME TreesAssumption ==
  \A t \in DOMAIN Trees :
    LET items == DOMAIN Trees[t].item IN
      /\ Trees[t].root \in items
      /\ \A i \in items : IsItem(Trees[t].item[i], items)
ASSUME SizesAssumption ==
  IntMax \in Nat /\ Sizes \subseteq 0 .. IntMax /\ DefaultSize \in 1 .. IntMax

VARIABLES
  tree,            \* what is printed
  by,              \* the function that was called
  format,          \* p->format
  printing,        \* what is called or has returned
  item,            \* the item that is printed, or was last
  print_calls,     \* the items that print_array and print_object are at work on, innermost last
  print_depth,     \* p->depth
  length,          \* p->length
  print_offset,    \* p->offset
  buffer,          \* the bytes in p->buffer; -1 is one that was never written
  ended,           \* whether a terminator is behind them
  input,           \* print_string_ptr: the string
  counts,          \*   escape_characters, before and after each character
  print_pointer,   \*   the place of the copying pass
  output_pointer,  \*   and where it writes
  wanted,          \* the bytes of the text so far, those that were refused included
  overrun          \* whether something was written that was not granted, or
                   \* read that was not written

control == <<item, print_calls, print_depth>>
bytes == <<length, print_offset, buffer, ended, wanted, overrun>>
print_strings == <<input, counts, print_pointer, output_pointer>>
printer == <<tree, by, format, printing, control, bytes, print_strings>>

noalloc == by = "PrintPreallocated"
Room == IF noalloc THEN length ELSE IntMax   \* what the buffer may grow to
Items == DOMAIN Trees[tree].item
Here == Trees[tree].item[item]
Parent == Trees[tree].item[print_calls[Len(print_calls)]]
Fmt(text) == IF format THEN text ELSE <<>>
Tabs(n) == [i \in 1 .. n |-> 9]

-----------------------------------------------------------------------------
(* The printbuffer *)

\* Mutated ensure: what is in the buffer already is forgotten.
EnsureNoOffset(needed) ==
  IF (length > 0 /\ print_offset >= length) \/ needed > IntMax THEN {}
  ELSE IF needed + 1 <= length THEN {length}
  ELSE IF noalloc THEN {}
  ELSE IF needed + 1 > IntMax \div 2 THEN (IF needed + 1 <= IntMax THEN {IntMax} ELSE {})
  ELSE {2 * (needed + 1)}

\* Mutated ensure: a buffer only grows to half of INT_MAX.
EnsureHalf(needed) ==
  LET total == needed + print_offset + 1 IN
    IF (length > 0 /\ print_offset >= length) \/ needed > IntMax THEN {}
    ELSE IF total <= length THEN {length}
    ELSE IF noalloc \/ total > IntMax \div 2 THEN {}
    ELSE {2 * total}

\* ensure: the length that the buffer has afterwards, or none if it refuses.
ensure(needed) ==
  LET total == needed + print_offset + 1 IN
    IF (length > 0 /\ print_offset >= length) \/ needed > IntMax THEN {}
    ELSE IF total <= length THEN {length}
    ELSE IF noalloc THEN {}
    ELSE IF total > IntMax \div 2 THEN (IF total <= IntMax THEN {IntMax} ELSE {})
    ELSE {2 * total}

\* The bytes before a place, and s written there, with a terminator or not;
\* more are the bytes that are written behind s for a moment.
Upto(at) == [i \in 1 .. at |-> IF i <= Len(buffer) THEN buffer[i] ELSE -1]
Write(at, s, nul, more) ==
  /\ buffer' = Upto(at) \o s
  /\ ended' = nul
  /\ overrun' = (overrun \/ at + Len(s) + more + (IF nul THEN 1 ELSE 0) > length')

\* A piece of the text: needed bytes are asked for, s is written, and the offset
\* moves by so many bytes.
Piece(needed, s, nul, moved, next) ==
  /\ wanted' = wanted + Len(s)
  /\ \/ /\ ensure(needed) = {}
        /\ printing' = "refused"
        /\ UNCHANGED <<length, print_offset, buffer, ended, overrun>>
     \/ /\ length' \in ensure(needed)
        /\ Write(print_offset, s, nul, 0)
        /\ print_offset' = print_offset + moved
        /\ printing' = next
  /\ UNCHANGED <<tree, by, format, print_strings>>

\* Mutated update_offset: the offset stays.
UpdateNothing == UNCHANGED <<print_offset, overrun>>

\* update_offset: strlen finds the terminator behind what was written.
update_offset == print_offset' = Len(buffer) /\ overrun' = (overrun \/ ~ended)

-----------------------------------------------------------------------------
(* print_value *)

PrintLiteral ==
  /\ printing = "value" /\ Here.type \in DOMAIN Literals
  /\ LET word == Literals[Here.type] IN Piece(Len(word) + 1, word, TRUE, 0, "returned")
  /\ UNCHANGED control

PrintNumber ==
  /\ printing = "value" /\ Here.type = "number" /\ Len(Here.number) <= 25
  /\ Piece(Len(Here.number) + 1, Here.number, TRUE, Len(Here.number), "returned")
  /\ UNCHANGED control

PrintRaw ==
  /\ printing = "value" /\ Here.type = "raw" /\ Here.valuestring # NULL
  /\ Piece(Len(Here.valuestring) + 1, Here.valuestring, TRUE, 0, "returned")
  /\ UNCHANGED control

PrintNothing ==
  /\ printing = "value"
  /\ \/ Here.type = "invalid"
     \/ (Here.type = "raw" /\ Here.valuestring = NULL)
     \/ (Here.type = "number" /\ Len(Here.number) > 25)
  /\ printing' = "failed"
  /\ UNCHANGED <<tree, by, format, control, bytes, print_strings>>

\* A container is entered, which may have no items.
Enter ==
  IF printing' = "refused" THEN UNCHANGED control
  ELSE /\ item' = IF Here.child = NULL THEN item ELSE Here.child
       /\ print_calls' = Append(print_calls, item)
       /\ print_depth' = print_depth + 1

\* print_array and print_object up to the first item.
ArrayBegin ==
  /\ printing = "value" /\ Here.type = "array"
  /\ Piece(1, <<91>>, FALSE, 1, IF Here.child = NULL THEN "close" ELSE "value")
  /\ Enter

ObjectBegin ==
  /\ printing = "value" /\ Here.type = "object"
  /\ LET brace == <<123>> \o Fmt(<<10>>) IN
       Piece(Len(brace) + 1, brace, FALSE, Len(brace), IF Here.child = NULL THEN "close" ELSE "member")
  /\ Enter

\* The tabs before a name.
Indent ==
  /\ printing = "member"
  /\ IF format THEN Piece(print_depth, Tabs(print_depth), FALSE, print_depth, "name")
     ELSE printing' = "name" /\ UNCHANGED <<tree, by, format, bytes, print_strings>>
  /\ UNCHANGED control

\* update_offset behind a name, and what separates it from its value.
NameEnd ==
  /\ printing = "named"
  /\ update_offset /\ printing' = "colon"
  /\ UNCHANGED <<tree, by, format, control, length, buffer, ended, wanted, print_strings>>

PrintColon ==
  /\ printing = "colon"
  /\ LET colon == <<58>> \o Fmt(<<9>>) IN Piece(Len(colon), colon, FALSE, Len(colon), "value")
  /\ UNCHANGED control

\* update_offset behind an element or a member.
Returned ==
  /\ printing = "returned" /\ print_calls # <<>>
  /\ update_offset /\ printing' = "next"
  /\ UNCHANGED <<tree, by, format, control, length, buffer, ended, wanted, print_strings>>

\* What comes behind it; the last element of an array has nothing behind it.
PrintNext ==
  /\ printing = "next"
  /\ LET array == Parent.type = "array"
         last == Here.next = NULL
         comma == IF last THEN <<>> ELSE <<44>>
         s == IF array THEN <<44>> \o Fmt(<<32>>) ELSE comma \o Fmt(<<10>>)
         next == IF last THEN "close" ELSE IF array THEN "value" ELSE "member"
     IN /\ IF array /\ last THEN printing' = next /\ UNCHANGED <<tree, by, format, bytes, print_strings>>
           ELSE Piece(Len(s) + 1, s, TRUE, Len(s), next)
        /\ item' = IF last THEN item ELSE Here.next
  /\ UNCHANGED <<print_calls, print_depth>>

\* A container is left, unless its end was refused.
Leave ==
  IF printing' = "refused" THEN UNCHANGED control
  ELSE item' = print_calls[Len(print_calls)] /\ print_calls' = SubSeq(print_calls, 1, Len(print_calls) - 1) /\ print_depth' = print_depth - 1

ClosingTabs == Fmt(Tabs(print_depth - 1))

\* The end of print_array and of print_object; the offset stays before it.
PrintClose ==
  /\ printing = "close"
  /\ LET array == Parent.type = "array"
         s == IF array THEN <<93>> ELSE ClosingTabs \o <<125>>
     IN Piece(IF array \/ ~format THEN 2 ELSE print_depth + 1, s, TRUE, 0, "returned")
  /\ Leave

\* All is printed; print gives its caller no more memory than is used.
PrintEnd ==
  /\ printing = "returned" /\ print_calls = <<>>
  /\ printing' = "done"
  /\ IF by = "Print" THEN update_offset /\ length' = Len(buffer) + 1
     ELSE UNCHANGED <<print_offset, length, overrun>>
  /\ UNCHANGED <<tree, by, format, control, buffer, ended, wanted, print_strings>>

-----------------------------------------------------------------------------
(* print_string_ptr, of a value and of a name *)

Counting == printing \in {"count", "count name"}
PrintCopying == printing \in {"copy", "copy name"}
Then == IF printing \in {"value", "count", "copy"} THEN "returned" ELSE "named"

PrintString ==
  /\ printing = "name" \/ (printing = "value" /\ Here.type = "string")
  /\ LET s == IF printing = "name" THEN Here.string ELSE Here.valuestring IN
       IF s = NULL THEN Piece(3, <<Quote, Quote>>, TRUE, 0, Then)
       ELSE /\ input' = s /\ counts' = <<0>>
            /\ printing' = IF printing = "name" THEN "count name" ELSE "count"
            /\ UNCHANGED <<tree, by, format, bytes, print_pointer, output_pointer>>
  /\ UNCHANGED control

Letters == [c \in {8, 9, 10, 12, 13, 34, 92} |->
              IF c = 8 THEN 98 ELSE IF c = 9 THEN 116 ELSE IF c = 10 THEN 110
              ELSE IF c = 12 THEN 102 ELSE IF c = 13 THEN 114 ELSE c]
HexDigit(d) == IF d < 10 THEN 48 + d ELSE 87 + d

\* What the counting pass thinks of a character, and what the copying one does.
Extra(c) == IF c \in DOMAIN Letters THEN 1 ELSE IF c < 32 THEN 5 ELSE 0
Escaped(c) ==
  IF c > 31 /\ c \notin {Quote, Backslash} THEN <<c>>
  ELSE IF c \in DOMAIN Letters THEN <<Backslash, Letters[c]>>
  ELSE <<Backslash, 117, 48, 48, HexDigit(c \div 16), HexDigit(c % 16)>>

Count ==
  /\ Counting /\ Len(counts) <= Len(input)
  /\ counts' = Append(counts, counts[Len(counts)] + Extra(input[Len(counts)]))
  /\ UNCHANGED <<tree, by, format, printing, control, bytes, input, print_pointer, output_pointer>>

escape_characters == counts[Len(counts)]
output_length == Len(input) + escape_characters

\* The space for all of it; without escapes the string is copied at once.
Reserve ==
  /\ Counting /\ Len(counts) > Len(input)
  /\ wanted' = wanted + output_length + 2
  /\ \/ /\ ensure(output_length + 3) = {}
        /\ printing' = "refused"
        /\ UNCHANGED <<length, buffer, ended, overrun, print_pointer, output_pointer>>
     \/ /\ length' \in ensure(output_length + 3)
        /\ IF escape_characters = 0
           THEN /\ Write(print_offset, <<Quote>> \o input \o <<Quote>>, TRUE, 0)
                /\ printing' = Then
                /\ UNCHANGED <<print_pointer, output_pointer>>
           ELSE /\ Write(print_offset, <<Quote>>, FALSE, 0)
                /\ printing' = IF printing = "count" THEN "copy" ELSE "copy name"
                /\ print_pointer' = 1 /\ output_pointer' = print_offset + 1
  /\ UNCHANGED <<tree, by, format, control, print_offset, input, counts>>

\* A character or its escape; sprintf writes a terminator behind a code unit.
Copy ==
  /\ PrintCopying /\ print_pointer <= Len(input)
  /\ UNCHANGED <<tree, by, format, printing, control, length, print_offset, wanted, input, counts>>
  /\ LET s == Escaped(input[print_pointer]) IN
       /\ Write(output_pointer, s, FALSE, IF Len(s) = 6 THEN 1 ELSE 0)
       /\ output_pointer' = output_pointer + Len(s)
  /\ print_pointer' = print_pointer + 1

QuotePlace == print_offset + output_length + 1

\* The closing quote, at the place that the counting pass says.
CopyEnd ==
  /\ PrintCopying /\ print_pointer > Len(input)
  /\ UNCHANGED <<tree, by, format, control, length, print_offset, wanted, print_strings>>
  /\ Write(QuotePlace, <<Quote>>, TRUE, 0)
  /\ printing' = Then

-----------------------------------------------------------------------------
\* print, cJSON_PrintBuffered and cJSON_PrintPreallocated
PrinterInit ==
  /\ tree \in DOMAIN Trees
  /\ by \in {"Print", "PrintBuffered", "PrintPreallocated"}
  /\ length \in IF by = "Print" THEN {DefaultSize} ELSE Sizes
  /\ format \in BOOLEAN
  /\ printing = "value" /\ item = Trees[tree].root /\ print_calls = <<>> /\ print_depth = 0
  /\ print_offset = 0 /\ buffer = <<>> /\ ended = FALSE
  /\ input = <<>> /\ counts = <<0>> /\ print_pointer = 1 /\ output_pointer = 0
  /\ wanted = 0 /\ overrun = FALSE

PrinterNext ==
  \/ PrintLiteral \/ PrintNumber \/ PrintRaw \/ PrintNothing
  \/ ArrayBegin \/ ObjectBegin \/ Indent \/ NameEnd \/ PrintColon
  \/ Returned \/ PrintNext \/ PrintClose \/ PrintEnd
  \/ PrintString \/ Count \/ Reserve \/ Copy \/ CopyEnd

PrinterSpec == PrinterInit /\ [][PrinterNext]_printer

-----------------------------------------------------------------------------
(* Properties *)

PrinterTypeOK ==
  /\ tree \in DOMAIN Trees
  /\ by \in {"Print", "PrintBuffered", "PrintPreallocated"} /\ format \in BOOLEAN
  /\ printing \in {"value", "member", "name", "named", "colon", "returned", "next", "close",
             "count", "count name", "copy", "copy name", "done", "refused", "failed"}
  /\ item \in Items /\ print_calls \in Seq(Items)
  /\ print_depth \in Nat /\ length \in 0 .. IntMax /\ print_offset \in Nat /\ wanted \in Nat
  /\ buffer \in Seq(Byte) /\ ended \in BOOLEAN /\ overrun \in BOOLEAN
  /\ input \in Seq(Byte) /\ counts \in Seq(Nat)
  /\ print_pointer \in Nat /\ output_pointer \in Nat

\* Of all the pieces, each with its own sum for ensure, none writes behind the
\* space that it was granted, and strlen always finds a terminator.
BufferNeverOverrun == ~overrun

\* Each piece lies right behind the one before it, although print_array and
\* print_object leave the offset before their end and a string its closing quote
\* to a place computed in another pass; no byte between is left unwritten; and the
\* text ends with a terminator in the memory that the caller gets.
TextIsWhole ==
  /\ \A i \in DOMAIN buffer : buffer[i] # -1
  /\ printing \in {"value", "member", "name", "colon", "next", "close"} =>
       print_offset = wanted /\ Len(buffer) = wanted
  /\ printing \in {"returned", "named", "done"} =>
       Len(buffer) = wanted /\ ended /\ Len(buffer) < length

\* A buffer that may grow is refused only for a text that needs more than INT_MAX
\* bytes, and one that may not grow only if it has less than two bytes more
\* than the text: cJSON.h asks for five.
RoomMeansSuccess == printing = "refused" => wanted + 2 > Room

\* The depth, which the tabs are counted by, is the number of open containers.
PrintDepthIsNesting == print_depth = Len(print_calls)

=============================================================================
