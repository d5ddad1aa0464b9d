--------------------------- MODULE DeliveryProofs ---------------------------
(***************************************************************************)
(* Proofs about Delivery for every packet length, header, file and way in  *)
(* which the kernel takes the bytes: the file is cut without loss, what is *)
(* counted was handed over, and an empty packet waits for the peer.        *)
(***************************************************************************)
EXTENDS Delivery, SequenceTheorems, TLAPS

USE PackLenAssumption, MaxSizeAssumption, HeadLenAssumption, ChunksAssumption

\* Where the three components are relative to each other.
ControlInv ==
  /\ pc = "new" <=> rpc = "closed"
  /\ pc \in {"connect", "send", "close", "over"} <=> rpc = "read"
  /\ pc \in {"new", "prepare", "connect"} => unit = 0 /\ hassent = 0 /\ sends = 0
  /\ loop = "once" => pc = "connect"
  /\ loop = "dispatch" => pc = "send"

\* The packets so far are full, or the last one was short and ended the file.
FullPackets == \A i \in DOMAIN packets : packets[i] = PackLen
ReadingInv ==
  /\ rpc = "reading" /\ ~eof =>
       /\ FullPackets
       /\ hasread = Len(packets) * PackLen
       /\ offset = hasread
       /\ ~touched => hasread <= filesize
  /\ rpc = "read" \/ (rpc = "reading" /\ eof) =>
       LET n == Len(packets) IN
         /\ n > 0
         /\ \A i \in 1 .. n - 1 : packets[i] = PackLen
         /\ packets[n] < PackLen
         /\ hasread = (n - 1) * PackLen + packets[n]
         /\ ~touched => hasread = filesize
  /\ rpc = "read" => (readOk <=> hasread = filesize)
  /\ rpc # "closed" /\ ~touched => disk = filesize

\* What the events that are pending, the writes that are counted and the
\* connection say about each other.
SocketInv ==
  /\ output \in Seq(Nat) /\ handed \in Seq(Nat)
  /\ sends \in {0, 1}
  /\ connected => canRead /\ canWrite
  /\ loop # "dispatch" /\ connected => sends = 0 /\ output = <<>>
  /\ pc \in {"new", "prepare", "connect"} => output = <<>>
  /\ pc = "send" /\ ~canRead => peer = "closed"
  /\ loop = "dispatch" => (sends = 0 <=> output = <<>> /\ sending > 0)
  /\ loop = "dispatch" /\ output # <<>> => sending > 0
  /\ loop = "dispatch" /\ loopexit => sends = 0
  /\ loop # "dispatch" /\ pc # "over" => ~loopexit

\* Where the bytes of the unit that is being sent are.
CountInv ==
  /\ hassent <= Len(handed)
  /\ loop = "dispatch" =>
       /\ sending = UnitLen(unit)
       /\ hassent + sending <= Len(handed) + Len(output)

Inv == TypeOK /\ ControlInv /\ ReadingInv /\ SocketInv /\ CountInv

-----------------------------------------------------------------------------
(* The data *)

\* The length of a unit is a number: the header's, or the one of a packet.
LEMMA UnitLenIsNat ==
  ASSUME packets \in Seq(0 .. PackLen), NEW u \in 0 .. Len(packets)
  PROVE  UnitLen(u) \in Nat
BY DEF UnitLen

LEMMA BytesOfUnit ==
  ASSUME NEW u \in Nat, UnitLen(u) \in Nat
  PROVE  Bytes(u) \in Seq(Nat) /\ Len(Bytes(u)) = UnitLen(u)
BY DEF Bytes

\* A read finds between nothing and a full buffer; it finds less only when
\* that is the rest of the file.
LEMMA AvailableBounds ==
  ASSUME disk \in Sizes, offset \in Nat
  PROVE  /\ Available \in 0 .. PackLen
         /\ offset <= disk => offset + Available <= disk
         /\ offset <= disk /\ Available < PackLen => offset + Available = disk
BY DEF Available, Sizes

\* The kernel takes k bytes from the front of the buffer.
LEMMA WriteMoves ==
  ASSUME Write, output \in Seq(Nat), handed \in Seq(Nat)
  PROVE  \E k \in Chunks :
           /\ output' \in Seq(Nat) /\ Len(output') = Len(output) - k
           /\ handed' \in Seq(Nat) /\ Len(handed') = Len(handed) + k
           /\ k \in Nat \ {0} /\ Len(output) \in Nat /\ Len(handed) \in Nat
<1>1. PICK k \in Chunks :
        /\ k <= Len(output)
        /\ handed' = handed \o SubSeq(output, 1, k)
        /\ output' = SubSeq(output, k + 1, Len(output))
  BY DEF Write
<1> DEFINE l == Len(output)
<1>2. k \in Nat \ {0} /\ l \in Nat /\ Len(handed) \in Nat
  BY LenProperties
<1>3. \A i \in 1 .. l : output[i] \in Nat
  BY ElementOfSeq
<1>4. SubSeq(output, 1, k) \in Seq(Nat) /\ Len(SubSeq(output, 1, k)) = k
  <2>1. \A i \in 1 .. k : output[i] \in Nat
    BY <1>1, <1>2, <1>3
  <2> QED
    BY <1>2, <2>1, SubSeqProperties
<1>5. SubSeq(output, k + 1, l) \in Seq(Nat) /\ Len(SubSeq(output, k + 1, l)) = l - k
  <2>1. \A i \in k + 1 .. l : output[i] \in Nat
    BY <1>1, <1>2, <1>3
  <2> QED
    BY <1>1, <1>2, <2>1, SubSeqProperties
<1>6. handed' \in Seq(Nat) /\ Len(handed') = Len(handed) + k
  BY <1>1, <1>4, ConcatProperties
<1> QED
  BY <1>1, <1>2, <1>5, <1>6

-----------------------------------------------------------------------------

LEMMA InitInv == Init => Inv
<1> SUFFICES ASSUME Init PROVE Inv
  OBVIOUS
<1> USE DEF Init, ReaderInit, SocketInit
<1>1. TypeOK
  <2>1. packets \in Seq(0 .. PackLen) /\ Len(packets) = 0
    BY EmptySeq
  <2>2. filesize \in Sizes
    BY DEF Sizes
  <2>3. ReaderTypeOK
    BY <2>1, <2>2 DEF ReaderTypeOK
  <2>4. SocketTypeOK
    BY DEF SocketTypeOK
  <2>5. unit \in 0 .. Len(packets) /\ hassent \in Nat /\ sends \in {0, 1}
    BY <2>1
  <2> QED
    BY <2>3, <2>4, <2>5 DEF TypeOK
<1>2. ControlInv
  BY DEF ControlInv
<1>3. ReadingInv
  BY DEF ReadingInv
<1>4. SocketInv
  BY DEF SocketInv
<1>5. CountInv
  BY DEF CountInv
<1> QED
  BY <1>1, <1>2, <1>3, <1>4, <1>5 DEF Inv

LEMMA ConstructInv ==
  ASSUME Inv, Construct PROVE Inv'
<1> USE DEF Construct, Open, Inv, readerVars, socketVars
<1>1. TypeOK'
  BY DEF TypeOK, ReaderTypeOK, SocketTypeOK
<1>2. ControlInv'
  BY DEF ControlInv
<1>3. ReadingInv'
  BY DEF ReadingInv
<1>4. SocketInv'
  BY DEF SocketInv
<1>5. CountInv'
  BY DEF CountInv, UnitLen
<1> QED
  BY <1>1, <1>2, <1>3, <1>4, <1>5

LEMMA ReadBeginInv ==
  ASSUME Inv, PrepareData, ReadBegin PROVE Inv'
<1> USE DEF PrepareData, ReadBegin, Inv, readerVars, socketVars
<1>1. TypeOK'
  <2>1. <<>> \in Seq(0 .. PackLen) /\ Len(<<>>) = 0
    BY EmptySeq
  <2>2. ReaderTypeOK'
    BY <2>1 DEF TypeOK, ReaderTypeOK, Sizes
  <2>3. SocketTypeOK'
    BY DEF TypeOK, SocketTypeOK
  <2> QED
    BY <2>1, <2>2, <2>3 DEF TypeOK, ControlInv
<1>2. ControlInv'
  BY DEF ControlInv
<1>3. ReadingInv'
  BY DEF ReadingInv, FullPackets, TypeOK, ReaderTypeOK, Sizes
<1>4. SocketInv'
  BY DEF SocketInv
<1>5. CountInv'
  BY DEF CountInv, ControlInv
<1> QED
  BY <1>1, <1>2, <1>3, <1>4, <1>5

LEMMA ReadStepInv ==
  ASSUME Inv, PrepareData, ReadStep PROVE Inv'
<1> USE DEF PrepareData, ReadStep, Inv, readerVars, socketVars
<1>1. TypeOK'
  <2>1. Available \in 0 .. PackLen
    BY AvailableBounds DEF TypeOK, ReaderTypeOK
  <2>2. packets' \in Seq(0 .. PackLen) /\ Len(packets') = Len(packets) + 1
    BY <2>1 DEF TypeOK, ReaderTypeOK
  <2> QED
    BY <2>1, <2>2 DEF TypeOK, ReaderTypeOK, SocketTypeOK, Sizes, ControlInv
<1>2. ControlInv'
  BY DEF ControlInv
<1>3. ReadingInv'
  <2> DEFINE n == Len(packets)
  <2>1. /\ rpc = "reading" /\ ~eof /\ rpc' = "reading"
        /\ eof' = (Available < PackLen)
        /\ UNCHANGED <<disk, filesize, touched>>
    OBVIOUS
  <2>2. /\ Available \in 0 .. PackLen
        /\ offset <= disk => offset + Available <= disk
        /\ offset <= disk /\ Available < PackLen => offset + Available = disk
    BY AvailableBounds DEF TypeOK, ReaderTypeOK
  <2>3. /\ n \in Nat /\ Len(packets') = n + 1
        /\ packets'[n + 1] = Available
        /\ \A i \in 1 .. n : packets'[i] = PackLen
    BY DEF ReadingInv, FullPackets, TypeOK, ReaderTypeOK
  <2>4. hasread = n * PackLen /\ offset = hasread
    BY DEF ReadingInv
  <2>5. ~touched => hasread <= disk /\ disk = filesize
    BY DEF ReadingInv
  <2>6. offset' = offset + Available /\ hasread' = n * PackLen + Available
    BY <2>4
  <2>7. CASE Available = PackLen
    <3>1. ~eof' /\ FullPackets'
      BY <2>1, <2>2, <2>3, <2>7 DEF FullPackets, TypeOK, ReaderTypeOK
    <3>2. hasread' = Len(packets') * PackLen
      BY <2>3, <2>6, <2>7
    <3>3. ~touched => hasread' <= filesize
      BY <2>2, <2>4, <2>5, <2>6
    <3> QED
      BY <2>1, <2>4, <2>5, <2>6, <3>1, <3>2, <3>3 DEF ReadingInv
  <2>8. CASE Available < PackLen
    <3>1. eof' /\ rpc' # "read"
      BY <2>1, <2>8
    <3>2. n + 1 > 0 /\ \A i \in 1 .. (n + 1) - 1 : packets'[i] = PackLen
      BY <2>3
    <3>3. packets'[n + 1] < PackLen /\ hasread' = ((n + 1) - 1) * PackLen + packets'[n + 1]
      BY <2>3, <2>6, <2>8
    <3>4. ~touched => hasread' = filesize
      BY <2>2, <2>4, <2>5, <2>6, <2>8
    <3>5. ~touched => disk = filesize
      BY <2>5
    <3> QED
      BY <2>1, <2>3, <3>1, <3>2, <3>3, <3>4, <3>5 DEF ReadingInv
  <2> QED
    BY <2>2, <2>7, <2>8
<1>4. SocketInv'
  BY DEF SocketInv
<1>5. CountInv'
  BY DEF CountInv, ControlInv
<1> QED
  BY <1>1, <1>2, <1>3, <1>4, <1>5

LEMMA ReadEndInv ==
  ASSUME Inv, PrepareData, ReadEnd PROVE Inv'
<1> USE DEF PrepareData, ReadEnd, Inv, readerVars, socketVars
<1>1. TypeOK'
  BY DEF TypeOK, ReaderTypeOK, SocketTypeOK
<1>2. ControlInv'
  BY DEF ControlInv
<1>3. ReadingInv'
  BY DEF ReadingInv
<1>4. SocketInv'
  BY DEF SocketInv
<1>5. CountInv'
  BY DEF CountInv, UnitLen
<1> QED
  BY <1>1, <1>2, <1>3, <1>4, <1>5

LEMMA TouchInv ==
  ASSUME Inv, Touch PROVE Inv'
<1> USE DEF Touch, OtherProgramWrites, Inv, readerVars, socketVars
<1>1. TypeOK'
  BY DEF TypeOK, ReaderTypeOK, SocketTypeOK
<1>2. ControlInv'
  BY DEF ControlInv
<1>3. ReadingInv'
  BY DEF ReadingInv, FullPackets
<1>4. SocketInv'
  BY DEF SocketInv
<1>5. CountInv'
  BY DEF CountInv, UnitLen
<1> QED
  BY <1>1, <1>2, <1>3, <1>4, <1>5

LEMMA ConnectInv ==
  ASSUME Inv, Connect PROVE Inv'
<1> USE DEF Connect, ConnectBegin, Inv, readerVars, socketVars
<1>1. TypeOK'
  BY DEF TypeOK, ReaderTypeOK, SocketTypeOK
<1>2. ControlInv'
  BY DEF ControlInv
<1>3. ReadingInv'
  BY DEF ReadingInv, ControlInv
<1>4. SocketInv'
  BY DEF SocketInv
<1>5. CountInv'
  BY DEF CountInv
<1> QED
  BY <1>1, <1>2, <1>3, <1>4, <1>5

LEMMA ConnectedInv ==
  ASSUME Inv, Connected PROVE Inv'
<1> USE DEF Connected, ConnectEvent, Inv, readerVars, socketVars
<1>1. TypeOK'
  BY DEF TypeOK, ReaderTypeOK, SocketTypeOK
<1>2. ControlInv'
  BY DEF ControlInv
<1>3. ReadingInv'
  BY DEF ReadingInv, ControlInv
<1>4. SocketInv'
  BY DEF SocketInv, ControlInv
<1>5. CountInv'
  BY DEF CountInv
<1> QED
  BY <1>1, <1>2, <1>3, <1>4, <1>5

LEMMA SendInv ==
  ASSUME Inv, Send PROVE Inv'
<1> USE DEF Send, SendBegin, Inv, readerVars, socketVars
<1>1. TypeOK'
  BY DEF TypeOK, ReaderTypeOK, SocketTypeOK, SocketInv
<1>2. ControlInv'
  BY DEF ControlInv
<1>3. ReadingInv'
  BY DEF ReadingInv, ControlInv
<1>4. SocketInv'
  <2>1. unit \in Nat /\ UnitLen(unit) \in Nat
    BY UnitLenIsNat DEF TypeOK, ReaderTypeOK
  <2>2. Bytes(unit) \in Seq(Nat)
    BY <2>1, BytesOfUnit
  <2>3. output = <<>> /\ sends = 0
    BY DEF SocketInv
  <2>4. output' = Bytes(unit) /\ sending' = Len(output')
    BY <2>2, <2>3
  <2>5. output' = <<>> <=> sending' = 0
    BY <2>2, <2>4
  <2>6. sending' \in Nat
    BY <2>2, <2>4
  <2> QED
    BY <2>2, <2>3, <2>4, <2>5, <2>6 DEF SocketInv, ControlInv
<1>5. CountInv'
  <2>1. unit \in Nat /\ UnitLen(unit) \in Nat
    BY UnitLenIsNat DEF TypeOK, ReaderTypeOK
  <2>2. Bytes(unit) \in Seq(Nat) /\ Len(Bytes(unit)) = UnitLen(unit)
    BY <2>1, BytesOfUnit
  <2>3. Len(output') = Len(output) + sending' /\ sending' = UnitLen(unit)
    BY <2>2, ConcatProperties DEF SocketInv
  <2>4. UnitLen(unit)' = UnitLen(unit)
    BY DEF UnitLen
  <2> QED
    BY <2>1, <2>3, <2>4, LenProperties DEF CountInv, SocketInv, TypeOK
<1> QED
  BY <1>1, <1>2, <1>3, <1>4, <1>5

LEMMA SendReturnsInv ==
  ASSUME Inv, SendReturns PROVE Inv'
<1> USE DEF SendReturns, SendEnd, LoopOver, Sent, SendResult, Inv, readerVars, socketVars
<1>1. TypeOK'
  <2>1. UnitLen(unit) \in Nat /\ Len(packets) \in Nat
    BY UnitLenIsNat DEF TypeOK, ReaderTypeOK
  <2>2. hassent' \in Nat /\ unit' \in 0 .. Len(packets) /\ pc' \in {"send", "close"}
    BY <2>1 DEF TypeOK
  <2> QED
    BY <2>2 DEF TypeOK, ReaderTypeOK, SocketTypeOK
<1>2. ControlInv'
  BY DEF ControlInv
<1>3. ReadingInv'
  BY DEF ReadingInv, ControlInv
<1>4. SocketInv'
  BY DEF SocketInv
<1>5. CountInv'
  <2>1. UnitLen(unit) \in Nat
    BY UnitLenIsNat DEF TypeOK, ReaderTypeOK
  <2>2. hassent' = IF SendResult = UnitLen(unit) THEN hassent + UnitLen(unit) ELSE hassent
    OBVIOUS
  <2>3. sending = UnitLen(unit) /\ hassent + sending <= Len(handed) + Len(output)
    BY DEF CountInv
  <2>4. sends = 0 => output = <<>>
    BY DEF SocketInv
  <2>5. hassent' <= Len(handed)
    BY <2>1, <2>2, <2>3, <2>4, LenProperties DEF CountInv, SocketInv, TypeOK
  <2> QED
    BY <2>5 DEF CountInv
<1> QED
  BY <1>1, <1>2, <1>3, <1>4, <1>5

LEMMA SendRefusedInv ==
  ASSUME Inv, SendRefused PROVE Inv'
<1> USE DEF SendRefused, Sent, Inv, readerVars, socketVars
<1>1. TypeOK'
  BY DEF TypeOK, ReaderTypeOK, SocketTypeOK
<1>2. ControlInv'
  BY DEF ControlInv
<1>3. ReadingInv'
  BY DEF ReadingInv, ControlInv
<1>4. SocketInv'
  BY DEF SocketInv
<1>5. CountInv'
  BY DEF CountInv
<1> QED
  BY <1>1, <1>2, <1>3, <1>4, <1>5

LEMMA DestructInv ==
  ASSUME Inv, Destruct PROVE Inv'
<1> USE DEF Destruct, CloseSocket, Inv, readerVars, socketVars
<1>1. TypeOK'
  BY DEF TypeOK, ReaderTypeOK, SocketTypeOK
<1>2. ControlInv'
  BY DEF ControlInv
<1>3. ReadingInv'
  BY DEF ReadingInv, ControlInv
<1>4. SocketInv'
  BY DEF SocketInv
<1>5. CountInv'
  BY DEF CountInv
<1> QED
  BY <1>1, <1>2, <1>3, <1>4, <1>5

LEMMA WriteInv ==
  ASSUME Inv, Network, Write PROVE Inv'
<1> USE DEF Network, Write, Inv, readerVars, socketVars
<1>1. TypeOK'
  BY DEF TypeOK, ReaderTypeOK, SocketTypeOK, SocketInv
<1>2. ControlInv'
  BY DEF ControlInv
<1>3. ReadingInv'
  BY DEF ReadingInv, ControlInv
<1>4. SocketInv'
  <2>1. PICK k \in Chunks :
          /\ output' \in Seq(Nat) /\ Len(output') = Len(output) - k
          /\ handed' \in Seq(Nat) /\ Len(handed') = Len(handed) + k
    BY WriteMoves DEF SocketInv
  <2>2. /\ loop = "dispatch" /\ output # <<>>
        /\ sends' = IF output' = <<>> THEN sends - 1 ELSE sends
        /\ loopexit' = (loopexit \/ sends' = 0)
        /\ UNCHANGED <<connected, loop, canRead, canWrite, sending, peer, pc>>
    OBVIOUS
  <2>3. sends = 1 /\ sending > 0 /\ pc = "send"
    BY <2>2 DEF SocketInv, ControlInv
  <2>4. sends' \in {0, 1} /\ (sends' = 0 <=> output' = <<>>)
    BY <2>2, <2>3
  <2>5. output' # <<>> => output # <<>> /\ sending' > 0
    BY <2>2, <2>3
  <2>6. loopexit' => sends' = 0
    BY <2>2, <2>3 DEF SocketInv
  <2>7. (connected' => canRead' /\ canWrite') /\ (~canRead' => peer' = "closed")
    BY <2>2, <2>3 DEF SocketInv
  <2> HIDE DEF Write, Network
  <2> QED
    BY <2>1, <2>2, <2>3, <2>4, <2>5, <2>6, <2>7 DEF SocketInv
<1>5. CountInv'
  <2>1. PICK k \in Chunks :
          /\ Len(output') = Len(output) - k
          /\ Len(handed') = Len(handed) + k
          /\ k \in Nat \ {0} /\ Len(output) \in Nat /\ Len(handed) \in Nat
    BY WriteMoves DEF SocketInv
  <2>2. UNCHANGED <<hassent, loop, sending, unit, packets>>
    OBVIOUS
  <2>3. hassent \in Nat /\ sending \in Nat
    BY DEF TypeOK, SocketTypeOK
  <2>4. UnitLen(unit)' = UnitLen(unit)
    BY <2>2 DEF UnitLen
  <2>5. hassent <= Len(handed')
    BY <2>1, <2>3 DEF CountInv
  <2>6. loop = "dispatch" /\ sending = UnitLen(unit)
    BY DEF CountInv
  <2> HIDE DEF Write, Network
  <2>7. hassent + sending <= Len(handed') + Len(output')
    <3>1. hassent + sending <= Len(handed) + Len(output)
      BY <2>6 DEF CountInv
    <3> QED
      BY <2>1, <2>3, <3>1
  <2> QED
    BY <2>2, <2>4, <2>5, <2>6, <2>7 DEF CountInv
<1> QED
  BY <1>1, <1>2, <1>3, <1>4, <1>5

LEMMA WriteErrorInv ==
  ASSUME Inv, Network, WriteError PROVE Inv'
<1> USE DEF Network, WriteError, Inv, readerVars, socketVars
<1>1. TypeOK'
  BY DEF TypeOK, ReaderTypeOK, SocketTypeOK
<1>2. ControlInv'
  BY DEF ControlInv
<1>3. ReadingInv'
  BY DEF ReadingInv, ControlInv
<1>4. SocketInv'
  BY DEF SocketInv
<1>5. CountInv'
  BY DEF CountInv, UnitLen
<1> QED
  BY <1>1, <1>2, <1>3, <1>4, <1>5

LEMMA ReadEventInv ==
  ASSUME Inv, Network, ReadEvent PROVE Inv'
<1> USE DEF Network, ReadEvent, Inv, readerVars, socketVars
<1>1. TypeOK'
  BY DEF TypeOK, ReaderTypeOK, SocketTypeOK
<1>2. ControlInv'
  BY DEF ControlInv
<1>3. ReadingInv'
  BY DEF ReadingInv, ControlInv
<1>4. SocketInv'
  BY DEF SocketInv
<1>5. CountInv'
  BY DEF CountInv, UnitLen
<1> QED
  BY <1>1, <1>2, <1>3, <1>4, <1>5

LEMMA PeerClosesInv ==
  ASSUME Inv, Network, PeerCloses PROVE Inv'
<1> USE DEF Network, PeerCloses, Inv, readerVars, socketVars
<1>1. TypeOK'
  BY DEF TypeOK, ReaderTypeOK, SocketTypeOK
<1>2. ControlInv'
  BY DEF ControlInv
<1>3. ReadingInv'
  BY DEF ReadingInv, FullPackets
<1>4. SocketInv'
  BY DEF SocketInv
<1>5. CountInv'
  BY DEF CountInv, UnitLen
<1> QED
  BY <1>1, <1>2, <1>3, <1>4, <1>5

-----------------------------------------------------------------------------

LEMMA InvStep == Inv /\ [Next]_vars => Inv'
<1> SUFFICES ASSUME Inv, [Next]_vars PROVE Inv'
  OBVIOUS
<1>1. CASE Construct
  BY <1>1, ConstructInv
<1>2. CASE PrepareData
  BY <1>2, ReadBeginInv, ReadStepInv, ReadEndInv DEF PrepareData
<1>3. CASE Touch
  BY <1>3, TouchInv
<1>4. CASE Connect
  BY <1>4, ConnectInv
<1>5. CASE Connected
  BY <1>5, ConnectedInv
<1>6. CASE Send
  BY <1>6, SendInv
<1>7. CASE SendReturns
  BY <1>7, SendReturnsInv
<1>8. CASE SendRefused
  BY <1>8, SendRefusedInv
<1>9. CASE Destruct
  BY <1>9, DestructInv
<1>10. CASE Network
  BY <1>10, WriteInv, WriteErrorInv, ReadEventInv, PeerClosesInv DEF Network, LoopNext
<1>11. CASE UNCHANGED vars
  BY <1>11 DEF vars, readerVars, socketVars, Inv, TypeOK, ReaderTypeOK, SocketTypeOK,
     ControlInv, ReadingInv, FullPackets, SocketInv, CountInv, UnitLen
<1> QED
  BY <1>1, <1>2, <1>3, <1>4, <1>5, <1>6, <1>7, <1>8, <1>9, <1>10, <1>11 DEF Next

LEMMA InvHolds == Spec => []Inv
BY InitInv, InvStep, PTL DEF Spec

-----------------------------------------------------------------------------

\* All variables stay in their ranges; the unsigned counter sends of the
\* SocketClient never wraps around, whatever fails.
THEOREM TypeCorrect == Spec => []TypeOK
BY InvHolds, PTL DEF Inv

\* readFile loses no byte and invents none: full packets, one short one at the
\* end, and a result that tells whether the announced length was read.
THEOREM PacketsAddUpHolds == Spec => []PacketsAddUp
<1>1. Inv => PacketsAddUp
  BY DEF Inv, ReadingInv, PacketsAddUp
<1> QED
  BY <1>1, InvHolds, PTL

\* getSent never shows a byte that the kernel has not taken.
THEOREM CountedWasHandedHolds == Spec => []CountedWasHanded
<1>1. Inv => CountedWasHanded
  BY DEF Inv, CountInv, CountedWasHanded
<1> QED
  BY <1>1, InvHolds, PTL

\* A send of nothing returns only when the peer has closed the connection.
THEOREM EmptySendNeedsPeerHolds == Spec => EmptySendNeedsPeer
<1> DEFINE Waits == loop = "dispatch" /\ loop' = "idle" /\ sending = 0 => peer = "closed"
<1>1. ASSUME Inv, [Next]_vars, loop = "dispatch", loop' = "idle", sending = 0
      PROVE  peer = "closed"
  <2>1. LoopOver
    BY <1>1 DEF Next, vars, readerVars, socketVars, Construct, PrepareData, Touch, Connect,
       ConnectBegin, Connected, ConnectEvent, Send, SendBegin, SendReturns, SendEnd,
       SendRefused, Destruct, CloseSocket, Network, LoopNext, Write, WriteError,
       ReadEvent, PeerCloses, Inv, ControlInv
  <2>2. sends # 0
    BY <1>1 DEF Inv, SocketInv
  <2>3. ~canRead /\ pc = "send"
    BY <1>1, <2>1, <2>2 DEF LoopOver, Inv, SocketInv, ControlInv
  <2> QED
    BY <1>1, <2>3 DEF Inv, SocketInv
<1>2. Inv /\ [Next]_vars => [Waits]_vars
  BY <1>1
<1> QED
  BY <1>2, InvHolds, PTL DEF Spec, EmptySendNeedsPeer

-----------------------------------------------------------------------------
(* The stream *)

\* The i-th byte is one of unit b.
Placed(b, i) == b \in 0 .. Len(packets) /\ i - Place(b) \in 1 .. UnitLen(b)

\* As long as the client is connected everything up to the current unit was
\* taken and counted, and what is in the output buffer comes next.
StreamInv ==
  /\ \A i \in DOMAIN handed : Placed(handed[i], i)
  /\ pc \in {"new", "prepare", "connect"} => handed = <<>>
  /\ pc = "send" /\ loop = "idle" /\ connected =>
       hassent = Place(unit) /\ Len(handed) = Place(unit)
  /\ loop = "dispatch" =>
       /\ hassent = Place(unit)
       /\ Len(output) <= UnitLen(unit)
       /\ Len(handed) + Len(output) = Place(unit) + UnitLen(unit)
       /\ \A j \in DOMAIN output : output[j] = unit
  /\ pc = "close" /\ connected => hassent = StreamLen

\* A place is a number, and a unit that is not the last ends where the next begins.
LEMMA PlaceOfNext ==
  ASSUME Inv, rpc = "read", NEW u \in 0 .. Len(packets)
  PROVE  /\ Place(u) \in Nat /\ UnitLen(u) \in Nat
         /\ u < Len(packets) => Place(u + 1) = Place(u) + UnitLen(u)
<1>1. packets \in Seq(0 .. PackLen) /\ Len(packets) \in Nat
  BY DEF Inv, TypeOK, ReaderTypeOK
<1>2. UnitLen(u) \in Nat
  BY <1>1, UnitLenIsNat
<1>3. CASE u = 0
  BY <1>2, <1>3 DEF Place, UnitLen
<1>4. CASE u > 0
  <2>1. \A v \in Nat : v * PackLen \in Nat /\ (v + 1) * PackLen = v * PackLen + PackLen
    OBVIOUS
  <2>2. u - 1 \in Nat /\ (u - 1) + 1 = u /\ u \in Nat
    BY <1>1, <1>4
  <2>3. (u - 1) * PackLen \in Nat /\ u * PackLen = (u - 1) * PackLen + PackLen
    BY <2>1, <2>2
  <2>4. Place(u) = HeadLen + (u - 1) * PackLen /\ Place(u + 1) = HeadLen + u * PackLen
    BY <1>4, <2>2 DEF Place
  <2>5. u < Len(packets) => UnitLen(u) = PackLen
    BY <1>1, <1>4 DEF Inv, ReadingInv, UnitLen
  <2>6. HeadLen \in Nat
    OBVIOUS
  <2> QED
    BY <1>2, <2>3, <2>4, <2>5, <2>6
<1> QED
  BY <1>1, <1>3, <1>4

\* What is left behind the first k elements.
LEMMA TailOf ==
  ASSUME NEW S, NEW s \in Seq(S), NEW k \in Nat, k <= Len(s)
  PROVE  /\ SubSeq(s, k + 1, Len(s)) \in Seq(S)
         /\ Len(SubSeq(s, k + 1, Len(s))) = Len(s) - k
         /\ \A j \in 1 .. Len(s) - k : SubSeq(s, k + 1, Len(s))[j] = s[k + j]
<1>1. Len(s) \in Nat /\ k + 1 \in Int /\ Len(s) \in Int
  OBVIOUS
<1>2. \A i \in k + 1 .. Len(s) : s[i] \in S
  <2>1. \A i \in 1 .. Len(s) : s[i] \in S
    BY ElementOfSeq
  <2> QED
    BY <1>1, <2>1
<1>3. SubSeq(s, k + 1, Len(s)) \in Seq(S)
  BY <1>1, <1>2, SubSeqProperties
<1>4. Len(SubSeq(s, k + 1, Len(s))) = Len(s) - k
  <2>1. Len(SubSeq(s, k + 1, Len(s))) =
          IF k + 1 <= Len(s) THEN Len(s) - (k + 1) + 1 ELSE 0
    BY <1>1, <1>2, SubSeqProperties
  <2> QED
    BY <1>1, <2>1
<1>5. \A j \in 1 .. Len(s) - k : SubSeq(s, k + 1, Len(s))[j] = s[k + j]
  BY <1>1, <1>2, SubSeqProperties
<1> QED
  BY <1>3, <1>4, <1>5

\* The kernel takes the front of the buffer, byte by byte in its order.
LEMMA WriteKeepsOrder ==
  ASSUME Write, output \in Seq(Nat), handed \in Seq(Nat)
  PROVE  /\ Len(output') \in Nat /\ Len(output') <= Len(output)
         /\ Len(handed') + Len(output') = Len(handed) + Len(output)
         /\ \A j \in DOMAIN output' : \E i \in DOMAIN output : output'[j] = output[i]
         /\ \A i \in DOMAIN handed' :
              \/ i \in DOMAIN handed /\ handed'[i] = handed[i]
              \/ /\ i - Len(handed) \in DOMAIN output
                 /\ handed'[i] = output[i - Len(handed)]
<1>1. PICK k \in Chunks :
        /\ k <= Len(output)
        /\ handed' = handed \o SubSeq(output, 1, k)
        /\ output' = SubSeq(output, k + 1, Len(output))
  BY DEF Write
<1> DEFINE l == Len(output)
           h == Len(handed)
           front == SubSeq(output, 1, k)
           rest == SubSeq(output, k + 1, l)
<1>2. /\ k \in Nat \ {0} /\ l \in Nat /\ h \in Nat /\ k <= l
      /\ DOMAIN output = 1 .. l /\ DOMAIN handed = 1 .. h
  BY <1>1, LenProperties
<1>3. \A i \in 1 .. l : output[i] \in Nat
  BY ElementOfSeq
<1>4. /\ front \in Seq(Nat) /\ Len(front) = k
      /\ \A i \in 1 .. k : front[i] = output[i]
  BY <1>2, <1>3, SubSeqProperties
<1>5. /\ rest \in Seq(Nat) /\ Len(rest) = l - k
      /\ \A j \in 1 .. l - k : rest[j] = output[k + j]
  BY <1>2, TailOf
<1>6. /\ handed' \in Seq(Nat) /\ Len(handed') = h + k
      /\ \A i \in 1 .. h + k : handed'[i] = IF i <= h THEN handed[i] ELSE front[i - h]
  BY <1>1, <1>4, ConcatProperties
<1>7. output' = rest /\ DOMAIN output' = 1 .. l - k /\ DOMAIN handed' = 1 .. h + k
  BY <1>1, <1>5, <1>6, LenProperties
<1> HIDE DEF front, rest, l, h
<1>8. ASSUME NEW j \in DOMAIN output'
      PROVE  \E i \in DOMAIN output : output'[j] = output[i]
  <2>1. j \in 1 .. l - k /\ k + j \in 1 .. l
    BY <1>2, <1>7
  <2> QED
    BY <1>2, <1>5, <1>7, <2>1
<1>9. ASSUME NEW i \in DOMAIN handed'
      PROVE  \/ i \in DOMAIN handed /\ handed'[i] = handed[i]
             \/ i - h \in DOMAIN output /\ handed'[i] = output[i - h]
  <2>1. i \in 1 .. h + k /\ handed'[i] = IF i <= h THEN handed[i] ELSE front[i - h]
    BY <1>6, <1>7
  <2>2. CASE i <= h
    BY <1>2, <2>1, <2>2
  <2>3. CASE i > h
    <3>1. i - h \in 1 .. k /\ i - h \in 1 .. l /\ ~(i <= h)
      BY <1>2, <2>1, <2>3
    <3> QED
      BY <1>2, <1>4, <2>1, <3>1
  <2> QED
    BY <1>2, <2>1, <2>2, <2>3
<1>10. Len(output') \in Nat /\ Len(output') <= l /\ Len(handed') + Len(output') = h + l
  <2>1. Len(output') = l - k /\ Len(handed') = h + k
    BY <1>5, <1>6, <1>7
  <2> QED
    BY <1>2, <2>1
<1> QED
  BY <1>8, <1>9, <1>10 DEF l, h

LEMMA InitStream == Init => StreamInv
BY DEF Init, SocketInit, StreamInv

\* Nothing the stream consists of changes, and the connection does not come up.
LEMMA StreamStays ==
  ASSUME StreamInv, UNCHANGED <<packets, handed, output, pc, unit, hassent, loop>>,
         connected' => connected
  PROVE  StreamInv'
<1>1. \A b : UnitLen(b)' = UnitLen(b)
  BY DEF UnitLen
<1>2. \A b, i : Placed(b, i)' <=> Placed(b, i)
  BY <1>1 DEF Placed
<1>3. UnitLen(unit)' = UnitLen(unit) /\ Place(unit)' = Place(unit) /\ StreamLen' = StreamLen
  BY DEF UnitLen, Place, StreamLen
<1> QED
  BY <1>2, <1>3 DEF StreamInv

LEMMA SendStream ==
  ASSUME Inv, StreamInv, Send PROVE StreamInv'
<1>1. /\ pc = "send" /\ pc' = "send" /\ loop = "idle" /\ connected /\ loop' = "dispatch"
      /\ UNCHANGED <<packets, handed, unit, hassent>>
      /\ output' = output \o Bytes(unit)
  BY DEF Send, SendBegin, readerVars
<1>2. unit \in Nat /\ UnitLen(unit) \in Nat
  BY UnitLenIsNat DEF Inv, TypeOK, ReaderTypeOK
<1>3. Bytes(unit) \in Seq(Nat) /\ Len(Bytes(unit)) = UnitLen(unit)
  BY <1>2, BytesOfUnit
<1>4. output = <<>>
  BY <1>1 DEF Inv, SocketInv
<1>5. output' = Bytes(unit)
  BY <1>1, <1>3, <1>4
<1>6. Len(output') = UnitLen(unit) /\ \A j \in DOMAIN output' : output'[j] = unit
  BY <1>3, <1>5 DEF Bytes
<1>7. hassent = Place(unit) /\ Len(handed) = Place(unit)
  BY <1>1 DEF StreamInv
<1>8. UnitLen(unit)' = UnitLen(unit) /\ Place(unit)' = Place(unit)
  BY <1>1 DEF UnitLen, Place
<1>9. \A i \in DOMAIN handed' : Placed(handed[i], i)'
  BY <1>1 DEF StreamInv, Placed, UnitLen
<1> QED
  BY <1>1, <1>2, <1>6, <1>7, <1>8, <1>9 DEF StreamInv

\* While the connection is up a loop ends only after the last byte was taken.
LEMMA SendReturnsStream ==
  ASSUME Inv, StreamInv, SendReturns PROVE StreamInv'
<1>1. /\ pc = "send" /\ loop = "dispatch" /\ loop' = "idle" /\ rpc = "read"
      /\ UNCHANGED <<packets, handed, output, connected>>
      /\ pc' \in {"send", "close"}
      /\ Sent(SendResult = UnitLen(unit))
  BY DEF SendReturns, SendEnd, LoopOver, Sent, readerVars, Inv, ControlInv
<1>2. \A i \in DOMAIN handed' : Placed(handed[i], i)'
  BY <1>1 DEF StreamInv, Placed, UnitLen
<1>3. ASSUME connected
      PROVE  /\ pc' = "send" => hassent' = Place(unit') /\ Len(handed) = Place(unit')
             /\ pc' = "close" => hassent' = StreamLen
  <2>1. sends = 0 /\ output = <<>>
    BY <1>1, <1>3 DEF SendReturns, SendEnd, LoopOver, Inv, SocketInv
  <2>2. SendResult = UnitLen(unit)
    BY <1>1, <2>1 DEF SendResult, Inv, CountInv
  <2>3. /\ hassent' = hassent + UnitLen(unit)
        /\ unit' = IF unit < Len(packets) THEN unit + 1 ELSE unit
        /\ pc' = IF unit = Len(packets) THEN "close" ELSE "send"
    BY <1>1, <2>2 DEF Sent
  <2>4. unit \in 0 .. Len(packets) /\ Len(packets) \in Nat
    BY DEF Inv, TypeOK, ReaderTypeOK
  <2>5. /\ Place(unit) \in Nat /\ UnitLen(unit) \in Nat
        /\ unit < Len(packets) => Place(unit + 1) = Place(unit) + UnitLen(unit)
    BY <1>1, <2>4, PlaceOfNext
  <2>6. hassent = Place(unit) /\ Len(handed) + 0 = Place(unit) + UnitLen(unit)
    BY <1>1, <2>1 DEF StreamInv
  <2>7. Len(handed) \in Nat
    BY LenProperties DEF Inv, SocketInv
  <2>8. CASE unit < Len(packets)
    BY <2>3, <2>4, <2>5, <2>6, <2>7, <2>8
  <2>9. CASE unit = Len(packets)
    BY <2>3, <2>4, <2>5, <2>6, <2>9 DEF StreamLen
  <2> QED
    BY <2>4, <2>8, <2>9
<1>4. StreamLen' = StreamLen /\ Place(unit)' = Place(unit')
  BY <1>1 DEF StreamLen, UnitLen, Place
<1> QED
  BY <1>1, <1>2, <1>3, <1>4 DEF StreamInv

\* The bytes taken are those the place of the unit is at.
LEMMA WriteStream ==
  ASSUME Inv, StreamInv, Network, Write PROVE StreamInv'
<1> DEFINE h == Len(handed)
           l == Len(output)
           p == Place(unit)
           n == UnitLen(unit)
<1>1. /\ loop = "dispatch" /\ loop' = "dispatch" /\ pc = "send" /\ pc' = "send" /\ rpc = "read"
      /\ UNCHANGED <<packets, unit, hassent, connected>>
  BY DEF Network, Write, readerVars, Inv, ControlInv
<1>2. output \in Seq(Nat) /\ handed \in Seq(Nat)
  BY DEF Inv, SocketInv
<1>3. unit \in 0 .. Len(packets)
  BY DEF Inv, TypeOK
<1>4. p \in Nat /\ n \in Nat /\ h \in Nat /\ l \in Nat /\ DOMAIN output = 1 .. l
  BY <1>1, <1>2, <1>3, PlaceOfNext, LenProperties
<1>5. /\ hassent = p /\ l <= n /\ h + l = p + n
      /\ \A j \in 1 .. l : output[j] = unit
  BY <1>1, <1>4 DEF StreamInv
<1>6. /\ Len(output') \in Nat /\ Len(output') <= l
      /\ Len(handed') + Len(output') = h + l
      /\ \A j \in DOMAIN output' : \E i \in 1 .. l : output'[j] = output[i]
      /\ \A i \in DOMAIN handed' :
           \/ i \in DOMAIN handed /\ handed'[i] = handed[i]
           \/ i - h \in 1 .. l /\ handed'[i] = output[i - h]
  BY <1>2, <1>4, WriteKeepsOrder
<1>7. \A j \in DOMAIN output' : output'[j] = unit
  BY <1>5, <1>6
<1>8. UnitLen(unit)' = n /\ Place(unit)' = p
  BY <1>1 DEF UnitLen, Place
<1>9. handed' \in Seq(Nat)
  BY <1>2, WriteMoves
<1>10. ASSUME NEW i \in DOMAIN handed' PROVE Placed(handed[i], i)'
  <2>1. i \in Nat
    <3>1. DOMAIN handed' = 1 .. Len(handed') /\ Len(handed') \in Nat
      BY <1>9, LenProperties
    <3> QED
      BY <3>1, <1>10
  <2>2. CASE i \in DOMAIN handed /\ handed'[i] = handed[i]
    BY <1>1, <2>2 DEF StreamInv, Placed, UnitLen
  <2>3. CASE i - h \in 1 .. l /\ handed'[i] = output[i - h]
    <3>1. handed'[i] = unit
      BY <1>5, <2>3
    <3>2. i - p \in 1 .. n
      <4> HIDE DEF h, l, p, n
      <4> QED
        BY <1>4, <1>5, <2>1, <2>3
    <3>3. Placed(unit, i)
      BY <1>3, <3>2 DEF Placed
    <3> QED
      BY <1>1, <3>1, <3>3 DEF Placed, UnitLen
  <2> QED
    BY <1>6, <1>10, <2>2, <2>3
<1>11. Len(output') <= n /\ Len(handed') + Len(output') = p + n
  <2> HIDE DEF h, l, p, n
  <2> QED
    BY <1>4, <1>5, <1>6
<1> QED
  BY <1>1, <1>5, <1>7, <1>8, <1>10, <1>11 DEF StreamInv

LEMMA StreamStep == Inv /\ StreamInv /\ [Next]_vars => StreamInv'
<1> SUFFICES ASSUME Inv, StreamInv, [Next]_vars PROVE StreamInv'
  OBVIOUS
<1>1. CASE Construct
  BY <1>1 DEF Construct, StreamInv, Inv, ControlInv, socketVars
<1>2. CASE PrepareData
  <2>1. handed' = <<>> /\ loop' # "dispatch" /\ pc' \in {"prepare", "connect"}
    BY <1>2 DEF PrepareData, StreamInv, Inv, ControlInv, socketVars
  <2> QED
    BY <2>1 DEF StreamInv
<1>3. CASE Touch
  BY <1>3, StreamStays DEF Touch, OtherProgramWrites, readerVars, socketVars
<1>4. CASE Connect
  BY <1>4 DEF Connect, ConnectBegin, StreamInv, Inv, ControlInv
<1>5. CASE Connected
  <2>1. handed' = <<>> /\ loop' = "idle" /\ hassent' = 0 /\ unit' = 0
    BY <1>5 DEF Connected, ConnectEvent, StreamInv, Inv, ControlInv
  <2>2. pc' \in {"send", "close"} /\ (connected' => pc' = "send")
    BY <1>5 DEF Connected, ConnectEvent
  <2>3. Place(unit') = 0 /\ Len(handed') = 0
    BY <2>1 DEF Place
  <2> QED
    BY <2>1, <2>2, <2>3 DEF StreamInv
<1>6. CASE Send
  BY <1>6, SendStream
<1>7. CASE SendReturns
  BY <1>7, SendReturnsStream
<1>8. CASE SendRefused
  <2>1. /\ loop' = "idle" /\ ~connected' /\ UNCHANGED <<packets, handed>>
        /\ pc' \in {"send", "close"}
    BY <1>8 DEF SendRefused, Sent, readerVars, socketVars
  <2> QED
    BY <2>1 DEF StreamInv, Placed, UnitLen
<1>9. CASE Destruct
  <2>1. /\ loop' = "idle" /\ UNCHANGED <<packets, handed>> /\ pc' = "over"
    BY <1>9 DEF Destruct, CloseSocket, readerVars
  <2> QED
    BY <2>1 DEF StreamInv, Placed, UnitLen
<1>10. CASE Network /\ Write
  BY <1>10, WriteStream
<1>11. CASE Network /\ ~Write
  BY <1>11, StreamStays DEF Network, LoopNext, WriteError, ReadEvent, PeerCloses, readerVars
<1>12. CASE UNCHANGED vars
  BY <1>12, StreamStays DEF vars, readerVars, socketVars
<1> QED
  BY <1>1, <1>2, <1>3, <1>4, <1>5, <1>6, <1>7, <1>8, <1>9, <1>10, <1>11, <1>12 DEF Next

LEMMA StreamHolds == Spec => [](Inv /\ StreamInv)
<1>1. Init => Inv /\ StreamInv
  BY InitInv, InitStream
<1>2. (Inv /\ StreamInv) /\ [Next]_vars => (Inv /\ StreamInv)'
  BY InvStep, StreamStep
<1> QED
  BY <1>1, <1>2, PTL DEF Spec

\* Whatever fails, the peer gets the header and then the packets, each byte at
\* its place and none left out: sendPreparedData, which does not look at the
\* header's result, sends no packet after a header that did not go.
THEOREM StreamPrefixHolds == Spec => []StreamPrefix
<1>1. StreamInv => StreamPrefix
  BY DEF StreamInv, StreamPrefix, Placed
<1> QED
  BY <1>1, StreamHolds, PTL

\* When sendPreparedData did not count everything, the client is disconnected.
THEOREM FailureDisconnectsHolds == Spec => []FailureDisconnects
<1>1. Inv /\ StreamInv => FailureDisconnects
  <2> SUFFICES ASSUME Inv, StreamInv, pc = "close", hassent < StreamLen, connected
               PROVE  FALSE
    BY DEF FailureDisconnects
  <2>1. hassent = StreamLen /\ hassent \in Nat
    BY DEF StreamInv, Inv, TypeOK
  <2> QED
    BY <2>1
<1> QED
  BY <1>1, StreamHolds, PTL

=============================================================================
