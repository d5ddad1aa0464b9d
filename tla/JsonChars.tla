------------------------------ MODULE JsonChars ------------------------------
(* What the parser and the printer of cJSON both know of a text, in bytes.    *)
EXTENDS Integers, Sequences

Quote == 34
Backslash == 92
Literals == [null |-> <<110, 117, 108, 108>>, false |-> <<102, 97, 108, 115, 101>>,
             true |-> <<116, 114, 117, 101>>]

=============================================================================
