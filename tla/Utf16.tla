-------------------------------- MODULE Utf16 --------------------------------
(***************************************************************************)
(* Code units of UTF-16, code points, and their bytes in UTF-8, as         *)
(* utf16_literal_to_utf8 (source/cJSON.c) converts them.                   *)
(***************************************************************************)
EXTENDS Integers, Sequences

HighSurrogates == 55296 .. 56319
LowSurrogates == 56320 .. 57343

\* The encoding of a code point.  The masks and shifts of the code are
\* remainders and quotients here, and the bits that it sets are clear before.
Utf8(cp) ==
  LET Last6(n) == 128 + (n % 64) IN
    IF cp < 128 THEN <<cp>>
    ELSE IF cp < 2048 THEN <<192 + (cp \div 64), Last6(cp)>>
    ELSE IF cp < 65536 THEN <<224 + (cp \div 4096), Last6(cp \div 64), Last6(cp)>>
    ELSE <<240 + (cp \div 262144), Last6(cp \div 4096), Last6(cp \div 64), Last6(cp)>>

-----------------------------------------------------------------------------
(* What the standard says of them *)

\* The code point of a unit u with the unit w behind it, or -1.
CodePoint(u, w) ==
  IF u \notin HighSurrogates \union LowSurrogates THEN u
  ELSE IF u \in HighSurrogates /\ w \in LowSurrogates
       THEN (u - 55296) * 1024 + (w - 56320) + 65536 ELSE -1

\* The bytes b are the code point cp in UTF-8, in as few bytes as there can be.
Decodes(b, cp) ==
  LET Tail6(i) == b[i] - 128 IN
    /\ \A i \in 2 .. Len(b) : b[i] \in 128 .. 191
    /\ \/ Len(b) = 1 /\ cp \in 0 .. 127 /\ b[1] = cp
       \/ /\ Len(b) = 2 /\ cp \in 128 .. 2047 /\ b[1] \in 192 .. 223
          /\ cp = (b[1] - 192) * 64 + Tail6(2)
       \/ /\ Len(b) = 3 /\ cp >= 2048 /\ cp < 65536 /\ b[1] \in 224 .. 239
          /\ cp = (b[1] - 224) * 4096 + Tail6(2) * 64 + Tail6(3)
       \/ /\ Len(b) = 4 /\ cp >= 65536 /\ cp <= 1114111 /\ b[1] \in 240 .. 247
          /\ cp = (b[1] - 240) * 262144 + Tail6(2) * 4096 + Tail6(3) * 64 + Tail6(4)

=============================================================================
