----------------------------- MODULE Translator -----------------------------
(***************************************************************************)
(* LocalTranslator (source/LocalTranslator.cpp): the object that reads one *)
(* file into a queue of packets and then writes a header and the packets   *)
(* to one TCP connection.  The worker and the prepare thread of multiRun   *)
(* share the N objects of one run; this module has their state and the     *)
(* pieces of prepareData, Connect and sendPreparedData that the threads    *)
(* interleave.  Bytes are counted in units: the header is one unit, each   *)
(* packet is one, but for an empty one, which some files end with.         *)
(***************************************************************************)
EXTENDS Integers

CONSTANTS
  N,          \* how many translators one multiRun is given
  Packs,      \* Packs[i]: how many packets readFile cuts file i into
  EmptyLast,  \* the files whose last packet is empty
  Ulong       \* how many values an atomic_ulong has, in units

ASSUME NAssumption == N \in Nat

\* readFile always makes at least one read, so a file yields at least one
\* (possibly empty) packet.
ASSUME PacksAssumption == Packs \in [0 .. N - 1 -> Nat \ {0}]

\* readFile ends with an empty packet when its last full one ends the file.
ASSUME EmptyLastAssumption == EmptyLast \subseteq 0 .. N - 1

\* On Windows an unsigned long has 32 bits: the counter wraps at 4 GiB.
ASSUME UlongAssumption == Ulong \in Nat \ {0}

Files == 0 .. N - 1

\* Any number but 0 that nobody counted: what may be in hassent before the
\* first sendPreparedData, since the constructor leaves it indeterminate, and
\* in the memory of a translator that is gone.
Garbage == -1

\* What the header and the packets of file i come to.
Total(i) == IF i \in EmptyLast THEN Packs[i] ELSE 1 + Packs[i]

\* The counter does not wrap while file i is sent.
Fits(i) == Total(i) < Ulong

VARIABLES
  prep,     \* prepared_status of each translator
  queue,    \* how many packets its _data_q holds
  hassent,  \* hassent, in units
  conn      \* imp_SocketClient::connected

translatorVars == <<prep, queue, hassent, conn>>

TranslatorTypeOK ==
  /\ prep \in [Files -> {"not_prepared", "preparing", "prepared"}]
  /\ queue \in [Files -> Nat]
  /\ \A i \in Files : queue[i] <= Packs[i]
  /\ hassent \in [Files -> {Garbage} \cup 0 .. Ulong - 1]
  /\ conn \in [Files -> BOOLEAN]

TranslatorInit ==
  /\ prep = [i \in Files |-> "not_prepared"]
  /\ queue = [i \in Files |-> 0]
  /\ hassent = [i \in Files |-> Garbage]
  /\ conn = [i \in Files |-> FALSE]

-----------------------------------------------------------------------------
(* prepareData *)

\* The status check, clear_data, and the move to preparing.
PrepareBegin(i) ==
  /\ prep[i] # "preparing"
  /\ LET cleared == prep[i] = "prepared" IN
       /\ queue' = [queue EXCEPT ![i] = IF cleared THEN 0 ELSE @]
       /\ hassent' = [hassent EXCEPT ![i] = IF cleared THEN 0 ELSE @]
  /\ prep' = [prep EXCEPT ![i] = "preparing"]
  /\ UNCHANGED conn

\* One call of the readFile callback: a packet is copied from b_tmp.
ReadPack(i) ==
  /\ prep[i] = "preparing"
  /\ queue[i] < Packs[i]
  /\ queue' = [queue EXCEPT ![i] = @ + 1]
  /\ UNCHANGED <<prep, hassent, conn>>

\* readFile saw the end of the file.
PrepareEnd(i) ==
  /\ prep[i] = "preparing"
  /\ queue[i] = Packs[i]
  /\ prep' = [prep EXCEPT ![i] = "prepared"]
  /\ UNCHANGED <<queue, hassent, conn>>

-----------------------------------------------------------------------------
(* Connect and sendPreparedData *)

Connect(i, ok) ==
  /\ conn' = [conn EXCEPT ![i] = ok]
  /\ UNCHANGED <<prep, queue, hassent>>

\* sendPreparedData starts counting: hassent = 0.
ResetSent(i) ==
  /\ hassent' = [hassent EXCEPT ![i] = 0]
  /\ UNCHANGED <<prep, queue, conn>>

\* Mutated SendUnit: a failed send takes back what the last one counted.
SendUnitRollback(i, ok) ==
  /\ ok => conn[i]
  /\ hassent' = [hassent EXCEPT ![i] = IF ok THEN (@ + 1) % Ulong ELSE IF @ > 0 THEN @ - 1 ELSE @]
  /\ conn' = [conn EXCEPT ![i] = ok]
  /\ UNCHANGED <<prep, queue>>

\* The lambda sendAction: the whole buffer was written and counted, or the
\* peer is gone.  A send that fails leaves the client unconnected, and a
\* client that is not connected fails every send.
SendUnit(i, ok) ==
  /\ ok => conn[i]
  /\ hassent' = [hassent EXCEPT ![i] = IF ok THEN (@ + 1) % Ulong ELSE @]
  /\ conn' = [conn EXCEPT ![i] = ok]
  /\ UNCHANGED <<prep, queue>>

\* sendAction with an empty buffer: the send writes nothing, so that nothing but
\* the peer's close ends it, and its 0 bytes count as sent.
SendNothing(i) ==
  /\ conn[i]
  /\ conn' = [conn EXCEPT ![i] = FALSE]
  /\ UNCHANGED <<prep, queue, hassent>>

=============================================================================
