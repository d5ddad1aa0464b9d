----------------------------- MODULE FileReader -----------------------------
(***************************************************************************)
(* imp_FileInfo (include/Backend/imp_FileInfo.hpp): one file, measured     *)
(* when it is opened and cut into packets when it is read.  The file stays *)
(* open and other programs may write to it in between.                     *)
(***************************************************************************)
EXTENDS Integers, Sequences

CONSTANTS
  PackLen,   \* pack_Len, the size of the buffer of prepareData
  MaxSize    \* bound on the length of the file

ASSUME PackLenAssumption == PackLen \in Nat \ {0}
ASSUME MaxSizeAssumption == MaxSize \in Nat

Sizes == 0 .. MaxSize

VARIABLES
  rpc,       \* "closed", "open", "reading" (in readFile) or "read"
  disk,      \* the length of the file on the disk now
  filesize,  \* its length as init measured it
  offset,    \* the get position of the ifstream
  eof,       \* its eofbit
  hasread,   \* readFile's count of bytes
  packets,   \* the sizes it has given to the callback
  readOk     \* its result

readerVars == <<rpc, disk, filesize, offset, eof, hasread, packets, readOk>>

ReaderTypeOK ==
  /\ rpc \in {"closed", "open", "reading", "read"}
  /\ disk \in Sizes
  /\ filesize \in Sizes
  /\ offset \in Nat
  /\ eof \in BOOLEAN
  /\ hasread \in Nat
  /\ packets \in Seq(0 .. PackLen)
  /\ readOk \in BOOLEAN

ReaderInit ==
  /\ rpc = "closed"
  /\ disk \in Sizes
  /\ filesize = 0 /\ offset = 0 /\ hasread = 0
  /\ eof = FALSE /\ readOk = FALSE
  /\ packets = <<>>

\* Another program appends to the file or cuts it.
OtherProgramWrites ==
  /\ rpc \in {"open", "reading"}
  /\ disk' \in Sizes
  /\ UNCHANGED <<rpc, filesize, offset, eof, hasread, packets, readOk>>

\* init, with calFileSize: seek to the end, ask for the position, seek back.
Open ==
  /\ rpc = "closed"
  /\ rpc' = "open"
  /\ filesize' = disk
  /\ UNCHANGED <<disk, offset, eof, hasread, packets, readOk>>

\* readFile up to its loop.
ReadBegin ==
  /\ rpc = "open"
  /\ rpc' = "reading"
  /\ offset' = 0 /\ hasread' = 0 /\ packets' = <<>> /\ eof' = FALSE
  /\ UNCHANGED <<disk, filesize, readOk>>

\* What file.read(buffer, PackLen) finds at the position.
Available ==
  LET left == IF offset < disk THEN disk - offset ELSE 0 IN
    IF left < PackLen THEN left ELSE PackLen

\* Mutated ReadStep: the loop stops before it hands out a short packet.
ReadStepDropsShort ==
  /\ rpc = "reading" /\ ~eof
  /\ offset' = offset + Available
  /\ eof' = (Available < PackLen)
  /\ hasread' = hasread + Available
  /\ packets' = IF eof' /\ packets # <<>> THEN packets ELSE Append(packets, Available)
  /\ UNCHANGED <<rpc, disk, filesize, readOk>>

\* One turn of the loop.  A read that finds less than it asked for sets eofbit;
\* one that ends exactly at the end of the file does not, so that the next one
\* finds nothing and yields an empty packet.
ReadStep ==
  /\ rpc = "reading" /\ ~eof
  /\ offset' = offset + Available
  /\ eof' = (Available < PackLen)
  /\ hasread' = hasread + Available
  /\ packets' = Append(packets, Available)
  /\ UNCHANGED <<rpc, disk, filesize, readOk>>

\* After the loop.  failbit stays set and defeats the last seekg.
ReadEnd ==
  /\ rpc = "reading" /\ eof
  /\ rpc' = "read"
  /\ readOk' = (hasread = filesize)
  /\ eof' = FALSE
  /\ UNCHANGED <<disk, filesize, offset, hasread, packets>>

ReaderNext == OtherProgramWrites \/ Open \/ ReadBegin \/ ReadStep \/ ReadEnd

=============================================================================
