------------------------ MODULE PrintAndParseProofs -------------------------
(***************************************************************************)
(* The printer and the parser put together, for any trees, buffers and     *)
(* texts: whatever the printer makes of a tree, the parser reads within    *)
(* its memory, and neither disturbs the other.                             *)
(***************************************************************************)
EXTENDS PrintAndParse, JsonPrinterProofs, JsonParserProofs

\* The parser before it is called for what was printed.
AtRest ==
  /\ text = <<0>> /\ offset = 0 /\ depth = 0 /\ calls = <<>>
  /\ input_pointer = 0 /\ input_end = 0 /\ skipped = {} /\ allocated = 0 /\ output = <<>>
  /\ outside = FALSE

\* The inductive invariant: those of both, as far as they are called.
BothInv ==
  /\ pc = "idle" => AtRest
  /\ pc # "idle" => IInv
  /\ printing = "idle" => ~overrun /\ buffer = <<>>
  /\ printing # "idle" => PrinterInv

LEMMA BothCalled ==
  /\ IInv => pc # "idle"
  /\ Next => pc # "idle"
  /\ PrinterInv => printing # "idle"
  /\ PrinterNext => printing # "idle"
<1>1. IInv => pc # "idle"
  BY DEF IInv, TypeOK
<1>2. Next => pc # "idle"
  BY DEF Next, ParseLiteral, ParseNumber, ParseContainer, ParseNothing, ParseNext, ParseColon,
     StringBegin, Measure, Allocate, CopyByte, CopyEscape, StringEnd, Measuring, Copying
<1>3. PrinterInv => printing # "idle"
  BY DEF PrinterInv, PrinterTypeOK
<1>4. PrinterNext => printing # "idle"
  BY DEF PrinterNext, PrintLiteral, PrintNumber, PrintRaw, PrintNothing, ArrayBegin, ObjectBegin,
     Indent, PrintColon, NameEnd, Returned, PrintNext, PrintClose, PrintEnd, PrintString, Count,
     Reserve, Copy, CopyEnd, Counting, PrintCopying
<1> QED
  BY <1>1, <1>2, <1>3, <1>4

LEMMA CalledThen == (IInv => pc # "idle")' /\ (PrinterInv => printing # "idle")' /\ (Begun => IInv)'
<1>1. IInv => pc # "idle"
  BY BothCalled
<1>2. PrinterInv => printing # "idle"
  BY BothCalled
<1>3. Begun => IInv
  BY BegunIInv
<1> QED
  BY <1>1, <1>2, <1>3, PTL

LEMMA StartBoth == ASSUME Start PROVE BothInv
<1>1. CASE PrintFirst
  <2>1. PrinterInv /\ printing # "idle"
    BY <1>1, Initially, BothCalled DEF PrintFirst
  <2>2. pc = "idle" /\ AtRest
    BY <1>1 DEF Start, PrintFirst, AtRest
  <2> QED
    BY <2>1, <2>2 DEF BothInv
<1>2. CASE ParseOnly
  <2>1. \A t \in Texts : IsText(t)
    BY TextsAssumption DEF IsText, TextByte
  <2>2. Begun
    BY <1>2, <2>1 DEF Start, ParseOnly, Begun
  <2>3. IInv /\ pc # "idle"
    BY <2>2, BegunIInv, BothCalled
  <2>4. printing = "idle" /\ ~overrun /\ buffer = <<>>
    BY <1>2 DEF ParseOnly
  <2> QED
    BY <2>3, <2>4 DEF BothInv
<1> QED
  BY <1>1, <1>2 DEF Start

\* What the printer leaves in the buffer is a text, with the terminator.
LEMMA PrintedIsText ==
  ASSUME buffer \in Seq(Byte)
  PROVE  IsText(buffer \o <<0>>)
<1> DEFINE t == buffer \o <<0>>
<1>1. Byte \subseteq TextByte /\ 0 \in TextByte
  BY DEF Byte, TextByte
<1>2. buffer \in Seq(TextByte) /\ <<0>> \in Seq(TextByte)
  BY <1>1
<1>3. t \in Seq(TextByte) /\ Len(t) = Len(buffer) + 1 /\ t[Len(buffer) + 1] = 0
  BY <1>2
<1> HIDE DEF t
<1>4. t # <<>> /\ t[Len(t)] = 0
  BY <1>2, <1>3
<1>5. IsText(t)
  BY <1>3, <1>4 DEF IsText
<1> QED
  BY <1>5 DEF t

LEMMA StepBoth == ASSUME BothInv, [Step]_all PROVE BothInv'
<1>1. ASSUME UNCHANGED vars
      PROVE  (pc' = "idle" => AtRest') /\ (pc' # "idle" => IInv')
  <2>1. UNCHANGED <<text, pc, offset, depth, calls, input_pointer, input_end, skipped,
                    allocated, output, outside>>
    BY <1>1 DEF vars, cursor, strings
  <2>2. CASE pc = "idle"
    BY <2>1, <2>2 DEF BothInv, AtRest
  <2>3. CASE pc # "idle"
    <3>1. IInv /\ [Next]_vars
      BY <1>1, <2>3 DEF BothInv
    <3> QED
      BY <2>1, <2>3, <3>1, NextIInv
  <2> QED
    BY <2>2, <2>3
<1>2. ASSUME UNCHANGED printer
      PROVE  (printing' = "idle" => ~overrun' /\ buffer' = <<>>) /\ (printing' # "idle" => PrinterInv')
  <2>1. UNCHANGED <<printing, overrun, buffer>>
    BY <1>2 DEF printer, bytes
  <2>2. CASE printing = "idle"
    BY <2>1, <2>2 DEF BothInv
  <2>3. CASE printing # "idle"
    <3>1. PrinterInv
      BY <2>3 DEF BothInv
    <3>2. PrinterInv'
      BY <1>2, <3>1, Stuttering
    <3> QED
      BY <2>1, <2>3, <3>2
  <2> QED
    BY <2>2, <2>3
<1>3. CASE PrinterNext /\ UNCHANGED <<vars, source>>
  <2>1. PrinterInv
    BY <1>3, BothCalled DEF BothInv
  <2>2. PrinterInv' /\ printing' # "idle"
    BY <1>3, <2>1, PrinterStep, CalledThen
  <2> QED
    BY <1>1, <1>3, <2>2 DEF BothInv
<1>4. CASE ParsePrinted
  <2>1. /\ printing = "done" /\ pc = "idle" /\ AtRest
        /\ text' = buffer \o <<0>> /\ pc' = "value" /\ offset' = Skip(0)'
        /\ UNCHANGED <<depth, calls, strings, outside, printer>>
    BY <1>4 DEF ParsePrinted, BothInv
  <2>2. buffer \in Seq(Byte)
    BY <2>1 DEF BothInv, PrinterInv, PrinterTypeOK
  <2>3. IsText(text')
    BY <2>1, <2>2, PrintedIsText
  <2>4. Begun'
    BY <2>1, <2>3 DEF AtRest, Begun, strings
  <2>5. IInv' /\ pc' # "idle"
    BY <2>4, CalledThen
  <2> QED
    BY <1>2, <2>1, <2>5 DEF BothInv
<1>5. CASE Next /\ UNCHANGED <<printer, source>>
  <2>1. IInv
    BY <1>5, BothCalled DEF BothInv
  <2>2. IInv' /\ pc' # "idle"
    BY <1>5, <2>1, NextIInv, CalledThen
  <2> QED
    BY <1>2, <1>5, <2>2 DEF BothInv
<1>6. CASE UNCHANGED all
  <2>1. UNCHANGED vars /\ UNCHANGED printer
    BY <1>6 DEF all
  <2> QED
    BY <1>1, <1>2, <2>1 DEF BothInv
<1> QED
  BY <1>3, <1>4, <1>5, <1>6 DEF Step

THEOREM Together == PrintAndParseSpec => []BothInv
<1>1. Start => BothInv
  BY StartBoth
<1>2. BothInv /\ [Step]_all => BothInv'
  BY StepBoth
<1> QED
  BY <1>1, <1>2, PTL DEF PrintAndParseSpec

\* Also of what the printer made of a tree, the parser reads nothing behind the
\* terminator, and writes nothing behind what it measured.
THEOREM ParsesInMemory == PrintAndParseSpec => []StaysInMemory
<1>1. ASSUME AtRest PROVE StaysInMemory
  BY <1>1 DEF AtRest, StaysInMemory, Length
<1>2. BothInv => StaysInMemory
  BY <1>1, InvMeans DEF BothInv
<1> QED
  BY <1>2, Together, PTL

\* Nor does what was printed upset the count of the depth.
THEOREM ParsesByNesting == PrintAndParseSpec => []DepthIsNesting
<1>1. ASSUME AtRest PROVE DepthIsNesting
  BY <1>1, LimitAssumption DEF AtRest, DepthIsNesting
<1>2. BothInv => DepthIsNesting
  BY <1>1, InvMeans DEF BothInv
<1> QED
  BY <1>2, Together, PTL

\* What the parser does afterwards leaves the text in the buffer whole.
THEOREM PrintsWithinBuffer ==
  PrintAndParseSpec => [](BufferNeverOverrun /\ TextIsWhole /\ RoomMeansSuccess)
<1>1. ASSUME printing = "idle", ~overrun, buffer = <<>>
      PROVE  BufferNeverOverrun /\ TextIsWhole /\ RoomMeansSuccess
  BY <1>1 DEF BufferNeverOverrun, TextIsWhole, RoomMeansSuccess
<1>2. BothInv => BufferNeverOverrun /\ TextIsWhole /\ RoomMeansSuccess
  BY <1>1, PrinterInvMeans DEF BothInv
<1> QED
  BY <1>2, Together, PTL

\* Every escape is converted rightly, also in what was printed.
THEOREM ParsesEscapes == PrintAndParseSpec => Utf16Agrees
<1>1. ASSUME BothInv, Step PROVE [EscapeAgrees]_vars
  <2>1. CASE PrinterNext /\ UNCHANGED <<vars, source>>
    BY <2>1
  <2>2. CASE ParsePrinted
    BY <2>2 DEF ParsePrinted, EscapeAgrees, Copying
  <2>3. CASE Next /\ UNCHANGED <<printer, source>>
    <3>1. IInv
      BY <1>1, <2>3, BothCalled DEF BothInv
    <3> QED
      BY <2>3, <3>1, EscapeStep
  <2> QED
    BY <1>1, <2>1, <2>2, <2>3 DEF Step
<1>2. BothInv /\ [Step]_all => [EscapeAgrees]_vars
  <2>1. UNCHANGED all => UNCHANGED vars
    BY DEF all
  <2> QED
    BY <1>1, <2>1
<1> QED
  BY <1>2, Together, PTL DEF PrintAndParseSpec, Utf16Agrees, EscapeAgrees

=============================================================================
