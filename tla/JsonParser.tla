----------------------------- MODULE JsonParser -----------------------------
(***************************************************************************)
(* cJSON_Parse (source/cJSON.c) byte by byte: the cursor in the text, the  *)
(* calls of parse_array and parse_object that are under way, and the two   *)
(* passes of parse_string, which measures a string before it copies it.    *)
(* Places in the text count from zero.  Memory is always granted.          *)
(***************************************************************************)
EXTENDS JsonChars, Utf16, FiniteSets

CONSTANTS
  Texts,        \* texts of bytes, with the terminator that strlen finds
  Limit,        \* CJSON_NESTING_LIMIT
  NumberTexts,  \* what strtod takes for a number
  NumberMax     \* the room for a number in parse_number, less the terminator

ASSUME TextsAssumption ==
  \A t \in Texts : t \in Seq(0 .. 255) /\ t # <<>> /\ t[Len(t)] = 0
ASSUME LimitAssumption == Limit \in Nat
ASSUME NumberAssumption == NumberMax \in Nat

VARIABLES
  text,           \* the text
  pc,             \* what is called or has returned
  offset,         \* input_buffer->offset
  depth,          \* input_buffer->depth
  calls,          \* the calls of parse_array and parse_object, innermost last
  built,          \* the values so far in each of them, behind those of the root
  input_pointer,  \* parse_string: the place of the copying pass
  input_end,      \*   the place of the measuring pass
  skipped,        \*   the backslashes that it counts in skipped_bytes
  allocated,      \*   the bytes of the output
  output,         \*   those written so far
  outside         \* whether a byte outside of the text was looked at

cursor == <<offset, depth, calls, built>>
strings == <<input_pointer, input_end, skipped, allocated, output>>
vars == <<text, pc, cursor, strings, outside>>

Length == Len(text)
At(i) == IF i \in 0 .. Length - 1 THEN text[i + 1] ELSE 0
can_access(i) == i < Length
Look(places) == outside' = (outside \/ \E i \in places : i \notin 0 .. Length - 1)

Comma == 44
Colon == 58
NumberBytes == 48 .. 57 \union {43, 45, 46, 69, 101}

\* b f n r t, quote, backslash and slash, and what they stand for.
Named == {<<98, 8>>, <<102, 12>>, <<110, 10>>, <<114, 13>>, <<116, 9>>,
          <<34, 34>>, <<92, 92>>, <<47, 47>>}
Open(type) == IF type = "array" THEN 91 ELSE 123
Close(type) == IF type = "array" THEN 93 ELSE 125

\* buffer_skip_whitespace from o on; it stays on the last byte of the text.
Skip(o) ==
  LET black == {i \in o .. Length - 1 : At(i) > 32}
  IN IF ~can_access(o) THEN o
     ELSE IF black = {} THEN Length - 1
     ELSE CHOOSE i \in black : \A j \in black : i <= j

-----------------------------------------------------------------------------
(* Returns.  A call that fails makes all those around it fail.              *)

Fail(o) ==
  /\ pc' = "failed" /\ offset' = o
  /\ UNCHANGED <<text, depth, calls, built, strings>>

Put(values, v) ==
  LET top == Len(values) IN
    [values EXCEPT ![top].child = Append(@, [k |-> values[top].k, v |-> v])]

\* A value is complete, and o is behind it.
Return(v, o) ==
  /\ pc' = IF calls = <<>> THEN "done" ELSE "next"
  /\ offset' = o
  /\ built' = Put(built, v)
  /\ UNCHANGED <<text, depth, calls>>

\* parse_value, or parse_string for a name, is called at o.
Call(type, o) ==
  /\ pc' = IF type = "object" THEN "name" ELSE "value"
  /\ offset' = o

-----------------------------------------------------------------------------
(* parse_value *)

IsLiteral(w) ==
  LET end == offset + Len(Literals[w]) IN
    end <= Length /\ SubSeq(text, offset + 1, end) = Literals[w]

ParseLiteral ==
  /\ pc = "value"
  /\ \E w \in DOMAIN Literals : IsLiteral(w) /\ Return([t |-> w], offset + Len(Literals[w]))
  /\ UNCHANGED <<strings, outside>>

ParseNumber ==
  /\ pc = "value" /\ can_access(offset) /\ At(offset) \in 48 .. 57 \union {45}
  /\ LET copied == {n \in 0 .. NumberMax :
                      /\ offset + n <= Length
                      /\ \A i \in offset .. offset + n - 1 : At(i) \in NumberBytes}
         taken == {n \in copied : n > 0 /\ SubSeq(text, offset + 1, offset + n) \in NumberTexts}
         Longest == CHOOSE n \in taken : \A m \in taken : m <= n
     IN IF taken = {} THEN Fail(offset)
        ELSE /\ Return([t |-> "number", n |-> SubSeq(text, offset + 1, offset + Longest)],
                       offset + Longest)
             /\ UNCHANGED strings
  /\ UNCHANGED outside

TooDeep == depth >= Limit

\* parse_array and parse_object up to the first element or name.
ParseContainer ==
  /\ pc = "value" /\ can_access(offset)
  /\ \E type \in {"array", "object"} :
       LET first == Skip(offset + 1) IN
         /\ At(offset) = Open(type)
         /\ IF TooDeep THEN Fail(offset)
            ELSE IF can_access(first) /\ At(first) = Close(type)
            THEN Return([t |-> type, child |-> <<>>], first + 1) /\ UNCHANGED strings
            ELSE IF ~can_access(first)
            THEN /\ pc' = "failed" /\ offset' = first - 1 /\ depth' = depth + 1
                 /\ UNCHANGED <<text, calls, built, strings>>
            ELSE /\ Call(type, first)
                 /\ depth' = depth + 1
                 /\ calls' = Append(calls, type)
                 /\ built' = Append(built, [k |-> <<>>, child |-> <<>>])
                 /\ UNCHANGED <<text, strings>>
  /\ UNCHANGED outside

ParseNothing ==
  /\ pc = "value"
  /\ ~\E w \in DOMAIN Literals : IsLiteral(w)
  /\ can_access(offset) => At(offset) \notin 48 .. 57 \union {45, Quote, Open("array"), Open("object")}
  /\ Fail(offset) /\ UNCHANGED outside

Callers == SubSeq(calls, 1, Len(calls) - 1)
Contained == [t |-> calls[Len(calls)], child |-> built[Len(built)].child]

\* Mutated EndCall: the depth is not taken back.
EndCallDeep(o) ==
  /\ pc' = IF Callers = <<>> THEN "done" ELSE "next"
  /\ offset' = o + 1 /\ calls' = Callers
  /\ built' = Put(SubSeq(built, 1, Len(built) - 1), Contained)
  /\ UNCHANGED <<text, depth, strings>>

\* The successful end of parse_array and parse_object at the bracket at o.
EndCall(o) ==
  /\ pc' = IF Callers = <<>> THEN "done" ELSE "next"
  /\ offset' = o + 1 /\ depth' = depth - 1 /\ calls' = Callers
  /\ built' = Put(SubSeq(built, 1, Len(built) - 1), Contained)
  /\ UNCHANGED <<text, strings>>

\* An element or a member is complete: the end of the loops of parse_array and
\* parse_object.
ParseNext ==
  /\ pc = "next"
  /\ LET type == calls[Len(calls)]
         o == Skip(offset)
     IN IF can_access(o) /\ At(o) = Comma
        THEN Call(type, Skip(o + 1)) /\ UNCHANGED <<text, depth, calls, built, strings>>
        ELSE IF ~can_access(o) \/ At(o) # Close(type) THEN Fail(o) ELSE EndCall(o)
  /\ UNCHANGED outside

ParseColon ==
  /\ pc = "colon"
  /\ LET o == Skip(offset) IN
       IF can_access(o) /\ At(o) = Colon
       THEN Call("array", Skip(o + 1)) /\ UNCHANGED <<text, depth, calls, built, strings>>
       ELSE Fail(o)
  /\ UNCHANGED outside

-----------------------------------------------------------------------------
(* parse_string *)

\* Of a value, when parse_value has seen the quote, and of a name.
StringBegin ==
  /\ pc \in {"value", "name"}
  /\ pc = "value" => can_access(offset) /\ At(offset) = Quote
  /\ Look({offset})
  /\ IF At(offset) # Quote THEN Fail(offset + 1)
     ELSE /\ pc' = IF pc = "value" THEN "measure" ELSE "measure name"
          /\ input_pointer' = offset + 1 /\ input_end' = offset + 1
          /\ skipped' = {} /\ allocated' = 0 /\ output' = <<>>
          /\ UNCHANGED <<text, cursor>>

Measuring == pc \in {"measure", "measure name"}
Copying == pc \in {"copy", "copy name"}

\* Mutated Measure: all of a \u counts as skipped.
MeasureUnicode ==
  /\ Measuring /\ input_end < Length /\ At(input_end) # Quote
  /\ IF At(input_end) # Backslash
     THEN input_end' = input_end + 1 /\ UNCHANGED <<text, pc, cursor, input_pointer, skipped, allocated, output>>
     ELSE IF input_end + 1 >= Length THEN Fail(input_pointer)
     ELSE /\ input_end' = input_end + 2
          /\ skipped' = skipped \union (IF At(input_end + 1) = 117 THEN input_end .. input_end + 4 ELSE {input_end})
          /\ UNCHANGED <<text, pc, cursor, input_pointer, allocated, output>>
  /\ UNCHANGED outside

\* A byte or an escape on the way to the closing quote.
Measure ==
  /\ Measuring /\ input_end < Length /\ At(input_end) # Quote
  /\ IF At(input_end) # Backslash
     THEN input_end' = input_end + 1 /\ UNCHANGED <<text, pc, cursor, input_pointer, skipped, allocated, output>>
     ELSE IF input_end + 1 >= Length THEN Fail(input_pointer)
     ELSE /\ input_end' = input_end + 2
          /\ skipped' = skipped \union {input_end}
          /\ UNCHANGED <<text, pc, cursor, input_pointer, allocated, output>>
  /\ UNCHANGED outside

Allocate ==
  /\ Measuring /\ (input_end >= Length \/ At(input_end) = Quote)
  /\ IF input_end >= Length THEN Fail(input_pointer)
     ELSE /\ pc' = IF pc = "measure" THEN "copy" ELSE "copy name"
          /\ allocated' = input_end - offset - Cardinality(skipped) + 1
          /\ UNCHANGED <<text, cursor, input_pointer, input_end, skipped, output>>
  /\ UNCHANGED outside

\* The value of a byte as a digit.
IsHex(c) == c \in 48 .. 57 \union 65 .. 70 \union 97 .. 102
Digit(c) == IF c <= 57 THEN c - 48 ELSE IF c <= 70 THEN c - 55 ELSE c - 87

\* parse_hex4, and the places that it looks at: it stops at what is no digit.
parse_hex4(i) ==
  IF \E j \in i .. i + 3 : ~IsHex(At(j)) THEN 0
  ELSE 4096 * Digit(At(i)) + 256 * Digit(At(i + 1)) + 16 * Digit(At(i + 2)) + Digit(At(i + 3))
HexLooks(i) == {j \in i .. i + 3 : \A k \in i .. j - 1 : IsHex(At(k))}

\* The units of the escape at i, and of the one behind it if it is one.
FirstUnit(i) == parse_hex4(i + 2)
BehindUnit(i) ==
  IF input_end - i >= 12 /\ At(i + 6) = Backslash /\ At(i + 7) = 117
  THEN parse_hex4(i + 8) ELSE -1
UnitLooks(i) ==
  IF input_end - i < 6 THEN {}
  ELSE HexLooks(i + 2) \union
       (IF FirstUnit(i) \notin HighSurrogates \/ input_end - i < 12 THEN {}
        ELSE {i + 6, i + 7} \union
             (IF At(i + 6) = Backslash /\ At(i + 7) = 117 THEN HexLooks(i + 8) ELSE {}))

\* Mutated utf16_literal_to_utf8: the offset of the surrogate pairs is forgotten.
Utf16NoOffset(i) ==
  LET first == FirstUnit(i)
      second == BehindUnit(i)
  IN IF input_end - i < 6 \/ first \in LowSurrogates THEN {}
     ELSE IF first \notin HighSurrogates THEN {[taken |-> 6, bytes |-> Utf8(first)]}
     ELSE IF second \notin LowSurrogates THEN {}
     ELSE {[taken |-> 12, bytes |-> Utf8((first % 1024) * 1024 + (second % 1024))]}

\* What the escape at i takes of the text and what it becomes, or nothing.
utf16_literal_to_utf8(i) ==
  LET first == FirstUnit(i)
      second == BehindUnit(i)
  IN IF input_end - i < 6 \/ first \in LowSurrogates THEN {}
     ELSE IF first \notin HighSurrogates THEN {[taken |-> 6, bytes |-> Utf8(first)]}
     ELSE IF second \notin LowSurrogates THEN {}
     ELSE {[taken |-> 12, bytes |-> Utf8(65536 + (first % 1024) * 1024 + (second % 1024))]}

\* Mutated Letter: the letter stands for itself.
LetterItself(i) == {[taken |-> 2, bytes |-> <<At(i + 1)>>]}

\* The escape at i by one letter.
Letter(i) == {[taken |-> 2, bytes |-> <<n[2]>>] : n \in {n \in Named : n[1] = At(i + 1)}}

CopyByte ==
  /\ Copying /\ input_pointer < input_end /\ At(input_pointer) # Backslash
  /\ output' = Append(output, At(input_pointer))
  /\ input_pointer' = input_pointer + 1
  /\ UNCHANGED <<text, pc, cursor, input_end, skipped, allocated, outside>>

CopyEscape ==
  /\ Copying /\ input_pointer < input_end /\ At(input_pointer) = Backslash
  /\ LET unicode == At(input_pointer + 1) = 117
         result == IF unicode THEN utf16_literal_to_utf8(input_pointer) ELSE Letter(input_pointer)
     IN /\ Look({input_pointer + 1} \union (IF unicode THEN UnitLooks(input_pointer) ELSE {}))
        /\ IF result = {} THEN Fail(input_pointer)
           ELSE \E r \in result :
                  /\ output' = output \o r.bytes
                  /\ input_pointer' = input_pointer + r.taken
                  /\ UNCHANGED <<text, pc, cursor, input_end, skipped, allocated>>

\* The terminator, and the return to parse_value or to parse_object.
StringEnd ==
  /\ Copying /\ input_pointer >= input_end
  /\ output' = Append(output, 0)
  /\ IF pc = "copy" THEN Return([t |-> "string", s |-> output], input_end + 1)
     ELSE /\ pc' = "colon" /\ offset' = input_end + 1
          /\ built' = [built EXCEPT ![Len(built)].k = output]
          /\ UNCHANGED <<text, depth, calls>>
  /\ UNCHANGED <<input_pointer, input_end, skipped, allocated, outside>>

-----------------------------------------------------------------------------
Init ==
  /\ text \in Texts
  /\ pc = "value"
  /\ offset = Skip(0)
  /\ depth = 0 /\ calls = <<>> /\ built = <<[k |-> <<>>, child |-> <<>>]>>
  /\ input_pointer = 0 /\ input_end = 0 /\ skipped = {} /\ allocated = 0 /\ output = <<>>
  /\ outside = FALSE

Next ==
  \/ ParseLiteral \/ ParseNumber \/ ParseContainer \/ ParseNothing \/ ParseNext \/ ParseColon
  \/ StringBegin \/ Measure \/ Allocate \/ CopyByte \/ CopyEscape \/ StringEnd

Spec == Init /\ [][Next]_vars

-----------------------------------------------------------------------------
(* Properties *)

TypeOK ==
  /\ text \in Seq(0 .. 255)
  /\ pc \in {"value", "name", "colon", "next", "measure", "measure name", "copy", "copy name",
             "done", "failed"}
  /\ offset \in Nat /\ depth \in 0 .. Limit
  /\ calls \in Seq({"array", "object"})
  /\ input_pointer \in Nat /\ input_end \in Nat /\ allocated \in Nat
  /\ skipped \subseteq Nat /\ IsFiniteSet(skipped)
  /\ output \in Seq(0 .. 255)
  /\ outside \in BOOLEAN

\* Whatever the text, no byte behind its terminator is looked at, although
\* parse_string, parse_hex4 and the surrogate pairs look without asking for the
\* length; the cursor stays within the text; and the copying pass never writes
\* behind what the measuring pass asked for, although it steps over escapes that
\* the other took byte by byte.
StaysInMemory ==
  /\ ~outside
  /\ pc # "failed" => offset < Length
  /\ Len(output) <= allocated

\* The depth counts the calls that are under way, on all ways out of them, so
\* that the limit is one of the nesting and not of the number of containers.
DepthIsNesting == pc # "failed" => depth = Len(calls) /\ depth <= Limit

\* An escape \u is copied as the UTF-8 of its code point, in as few bytes as there
\* can be, together with the escape behind it if the two are a pair; a lone
\* surrogate makes the text fail.
Utf16Agrees ==
  [][/\ Copying /\ input_pointer < input_end /\ At(input_pointer) = Backslash
     /\ At(input_pointer + 1) = 117 /\ input_end - input_pointer >= 6
     => LET cp == CodePoint(FirstUnit(input_pointer), BehindUnit(input_pointer))
            more == SubSeq(output', Len(output) + 1, Len(output'))
        IN IF cp = -1 THEN pc' = "failed"
           ELSE /\ Decodes(more, cp)
                /\ SubSeq(output', 1, Len(output)) = output
                /\ input_pointer' = input_pointer + (IF cp > 65535 THEN 12 ELSE 6)]_vars

=============================================================================
