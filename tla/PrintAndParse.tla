--------------------------- MODULE PrintAndParse ----------------------------
(***************************************************************************)
(* The printer and the parser one after the other: a tree is printed, and  *)
(* what cJSON_Print made of it is parsed.  The parser also gets texts that *)
(* come from elsewhere.                                                    *)
(***************************************************************************)
EXTENDS JsonPrinter, JsonParser

VARIABLE source  \* where the text of the parser comes from

all == <<vars, printer, source>>

PrintFirst ==
  /\ PrinterInit /\ source = "printer"
  /\ text = <<0>> /\ pc = "idle" /\ offset = 0

ParseOnly ==
  /\ text \in Texts /\ source = "other"
  /\ pc = "value" /\ offset = Skip(0)
  /\ tree = CHOOSE t \in DOMAIN Trees : TRUE
  /\ by = "Print" /\ format = FALSE /\ length = DefaultSize /\ item = Trees[tree].root
  /\ printing = "idle"
  /\ print_calls = <<>> /\ print_depth = 0 /\ print_offset = 0 /\ buffer = <<>> /\ ended = FALSE
  /\ input = <<>> /\ counts = <<0>> /\ print_pointer = 1 /\ output_pointer = 0
  /\ wanted = 0 /\ overrun = FALSE

Start ==
  /\ PrintFirst \/ ParseOnly
  /\ depth = 0 /\ calls = <<>> /\ built = <<[k |-> <<>>, child |-> <<>>]>>
  /\ input_pointer = 0 /\ input_end = 0 /\ skipped = {} /\ allocated = 0 /\ output = <<>>
  /\ outside = FALSE

\* cJSON_Parse of what cJSON_Print returned.
ParsePrinted ==
  /\ printing = "done" /\ by = "Print" /\ pc = "idle"
  /\ text' = buffer \o <<0>>
  /\ pc' = "value"
  /\ offset' = Skip(0)'
  /\ UNCHANGED <<depth, calls, built, strings, outside, printer, source>>

Step ==
  \/ PrinterNext /\ UNCHANGED <<vars, source>>
  \/ ParsePrinted
  \/ Next /\ UNCHANGED <<printer, source>>

PrintAndParseSpec == Start /\ [][Step]_all

=============================================================================
