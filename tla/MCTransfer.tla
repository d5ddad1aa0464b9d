----------------------------- MODULE MCTransfer -----------------------------
(***************************************************************************)
(* Instances of Transfer: two files, so that one file's leftovers meet the *)
(* next file's transfer.                                                   *)
(***************************************************************************)
EXTENDS Transfer

\* Files of one packet each.
OneEach == [i \in 0 .. N - 1 |-> 1]

\* The first file has three packets more than the others.
FourAndOne == [i \in 0 .. N - 1 |-> IF i = 0 THEN 4 ELSE 1]

=============================================================================
