------------------------------ MODULE Delivery ------------------------------
(***************************************************************************)
(* One file from its opening to the kernel: LocalTranslator                *)
(* (source/LocalTranslator.cpp) drives the FileReader and the SocketClient *)
(* the way runit does: construct, prepareData, Connect, sendPreparedData,  *)
(* and the destructor.  A byte is the number of the unit it belongs to:    *)
(* 0 is the header, n the n-th packet.                                     *)
(***************************************************************************)
EXTENDS FileReader, SocketClient

CONSTANT HeadLen   \* sizeof(File_info) and the name with its terminator

\* makeHead throws for a name that does not fit.
ASSUME HeadLenAssumption == HeadLen \in 1 .. PackLen

VARIABLES
  pc,        \* "new", "prepare", "connect", "send", "close" or "over"
  unit,      \* the unit that sendPreparedData is at
  hassent,   \* its count
  touched    \* the file was written to after it was opened

vars == <<readerVars, socketVars, pc, unit, hassent, touched>>

UnitLen(u) == IF u = 0 THEN HeadLen ELSE packets[u]

\* Mutated Bytes: the packets share the buffer with the header.
BytesNotCopied(u) == [i \in 1 .. UnitLen(u) |-> 0]

\* What is sent for a unit: the header in b_tmp, or the copy of a packet.
Bytes(u) == [i \in 1 .. UnitLen(u) |-> u]

Init ==
  /\ ReaderInit /\ SocketInit
  /\ pc = "new"
  /\ unit = 0 /\ hassent = 0
  /\ touched = FALSE

Construct ==
  /\ pc = "new"
  /\ Open
  /\ pc' = "prepare"
  /\ UNCHANGED <<socketVars, unit, hassent, touched>>

PrepareData ==
  /\ pc = "prepare"
  /\ ReadBegin \/ ReadStep \/ ReadEnd
  /\ pc' = IF rpc' = "read" THEN "connect" ELSE pc
  /\ UNCHANGED <<socketVars, unit, hassent, touched>>

Touch ==
  /\ OtherProgramWrites
  /\ touched' = (touched \/ disk' # disk)
  /\ UNCHANGED <<socketVars, pc, unit, hassent>>

Connect ==
  /\ pc = "connect"
  /\ ConnectBegin
  /\ UNCHANGED <<readerVars, pc, unit, hassent, touched>>

\* runit gives up when Connect is false.
Connected ==
  /\ pc = "connect"
  /\ \E ok \in BOOLEAN :
       /\ ConnectEvent(ok)
       /\ pc' = IF ok THEN "send" ELSE "close"
  /\ UNCHANGED <<readerVars, unit, hassent, touched>>

\* sendAction calls send, and send finds the connection up.
Send ==
  /\ pc = "send"
  /\ SendBegin(Bytes(unit))
  /\ UNCHANGED <<readerVars, pc, unit, hassent, touched>>

\* The rest of sendAction and of the loop: nothing looks at the result of the
\* header, a packet that fails ends the loop.
Sent(ok) ==
  /\ hassent' = IF ok THEN hassent + UnitLen(unit) ELSE hassent
  /\ unit' = IF unit < Len(packets) /\ (unit = 0 \/ ok) THEN unit + 1 ELSE unit
  /\ pc' = IF unit = Len(packets) \/ (unit > 0 /\ ~ok) THEN "close" ELSE "send"

SendReturns ==
  /\ pc = "send"
  /\ SendEnd
  /\ Sent(SendResult = UnitLen(unit))
  /\ UNCHANGED <<readerVars, touched>>

\* send returns (size_t)-1.
SendRefused ==
  /\ pc = "send" /\ loop = "idle" /\ ~connected
  /\ Sent(FALSE)
  /\ UNCHANGED <<readerVars, socketVars, touched>>

Destruct ==
  /\ pc = "close"
  /\ CloseSocket
  /\ pc' = "over"
  /\ UNCHANGED <<readerVars, unit, hassent, touched>>

Network ==
  /\ LoopNext
  /\ UNCHANGED <<readerVars, pc, unit, hassent, touched>>

Next ==
  \/ Construct \/ PrepareData \/ Touch
  \/ Connect \/ Connected \/ Send \/ SendReturns \/ SendRefused \/ Destruct
  \/ Network

\* The event loop serves what is ready; the kernel goes on taking bytes while
\* the peer reads or its buffers last.
Fairness ==
  /\ WF_vars(SendReturns)
  /\ WF_vars((Write \/ WriteError \/ ReadEvent) /\ UNCHANGED <<readerVars, pc, unit, hassent, touched>>)

Spec == Init /\ [][Next]_vars /\ Fairness

-----------------------------------------------------------------------------
(* Properties *)

\* The variables stay in their ranges.  In particular the unsigned counter
\* sends (imp_SocketClient) never goes below zero or above one.
TypeOK ==
  /\ ReaderTypeOK /\ SocketTypeOK
  /\ sends \in {0, 1}
  /\ pc \in {"new", "prepare", "connect", "send", "close", "over"}
  /\ unit \in 0 .. Len(packets)
  /\ hassent \in Nat
  /\ touched \in BOOLEAN

\* prepareData cuts a file into full packets and one short, maybe empty, last
\* one; they add up to what was read; and the result says whether that is the
\* length announced in the header, which it is when nobody touched the file.
PacketsAddUp ==
  rpc = "read" =>
    LET n == Len(packets) IN
      /\ n > 0
      /\ \A i \in 1 .. n - 1 : packets[i] = PackLen
      /\ packets[n] < PackLen
      /\ hasread = (n - 1) * PackLen + packets[n]
      /\ readOk <=> hasread = filesize
      /\ ~touched => readOk

\* Where the bytes of a unit go: behind the header and the packets before it,
\* which are full (PacketsAddUp).
Place(u) == IF u = 0 THEN 0 ELSE HeadLen + (u - 1) * PackLen
StreamLen == Place(Len(packets)) + UnitLen(Len(packets))

\* Whatever sends fail, the peer gets the header and then the packets, each byte
\* at its place and none left out: no packet goes without the header, though
\* nothing looks at the header's result (sendPreparedData).
StreamPrefix ==
  pc \in {"send", "close", "over"} =>
    \A i \in DOMAIN handed :
      /\ handed[i] \in 0 .. Len(packets)
      /\ i - Place(handed[i]) \in 1 .. UnitLen(handed[i])

\* hassent never counts a byte the kernel did not take.
CountedWasHanded == hassent <= Len(handed)

\* When sendPreparedData did not count everything, the client is disconnected:
\* what runit and Translator rely on to tell a failure.
FailureDisconnects ==
  pc = "close" /\ hassent < StreamLen => ~connected

\* A send of no bytes ends only when the peer has closed the connection: a file
\* whose length is a multiple of the packet length waits for the peer, and the
\* empty packet then counts as sent.
EmptySendNeedsPeer ==
  [][loop = "dispatch" /\ loop' = "idle" /\ sending = 0 => peer = "closed"]_vars

\* A send of some bytes ends, and so does every send whose peer goes.
SendEnds ==
  loop = "dispatch" /\ (sending > 0 \/ peer = "closed") ~> loop = "idle"

=============================================================================
