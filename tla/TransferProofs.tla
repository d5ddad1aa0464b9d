--------------------------- MODULE TransferProofs ---------------------------
(***************************************************************************)
(* Proofs about Transfer, for any number of files of any length.  IInv is  *)
(* the inductive invariant: it says where the prepare thread and the       *)
(* worker can be relative to ready_count and to each other's data.  With   *)
(* OutcomeInv it yields that Transfer implements SequentialSend: files are *)
(* sent in order, one at a time, each only once it is prepared, with one   *)
(* verdict each and a truthful result.                                     *)
(***************************************************************************)
EXTENDS Transfer, FiniteSetTheorems, TLAPS

\* Where the prepare thread is, against ready_count.
PreparerInv ==
  /\ (ppc = "none") <=> (wpc = "start")
  /\ ppc \in {"none", "begin"} => pidx = 0 /\ readyCount = -1
  /\ ppc \in {"prepare", "fill", "count"} => pidx < N /\ readyCount = pidx - 1
  /\ ppc = "notify" => pidx < N /\ readyCount = pidx
  /\ ppc = "end" => readyCount = N - 1

\* What it has done to each translator.
PreparedInv ==
  /\ \A i \in Files :
       /\ i <= readyCount => prep[i] = "prepared" /\ queue[i] = Packs[i]
       /\ i > pidx => prep[i] = "not_prepared"
  /\ ppc \in {"none", "begin", "prepare"} /\ pidx < N => prep[pidx] = "not_prepared"
  /\ ppc = "fill" => prep[pidx] = "preparing"
  /\ ppc = "count" => prep[pidx] = "prepared" /\ queue[pidx] = Packs[pidx]

\* The worker never passes ready_count, and the frame goes when it returns.
WorkerInv ==
  /\ wpc \in Opened \cup {"copy", "erase", "sleep"} => cur <= readyCount
  /\ wpc \in {"block", "asleep"} => cur < N
  /\ cur <= readyCount + 1
  /\ wpc = "start" => cur = 0
  /\ wpc = "returned" => cur = N
  /\ wpc # "threw"
  /\ alive <=> wpc # "returned"

IInv == TypeOK /\ PreparerInv /\ PreparedInv /\ WorkerInv

USE NAssumption, PacksAssumption, EmptyLastAssumption, UlongAssumption
    DEF Files, Garbage, Free

LEMMA InitIInv == Init => IInv
  BY DEF Init, TranslatorInit, ProgressInit, IInv, TypeOK, TranslatorTypeOK,
         ProgressTypeOK, TransferTypeOK, PreparerInv, PreparedInv, WorkerInv,
         Opened, Holding

-----------------------------------------------------------------------------
(* The operations of a translator keep its types. *)

LEMMA ConnectType ==
  ASSUME TranslatorTypeOK, NEW i \in Files, NEW ok \in BOOLEAN, Connect(i, ok)
  PROVE  TranslatorTypeOK'
  BY DEF TranslatorTypeOK, Connect

LEMMA SendUnitType ==
  ASSUME TranslatorTypeOK, NEW i \in Files, NEW ok \in BOOLEAN, SendUnit(i, ok)
  PROVE  TranslatorTypeOK' /\ UNCHANGED <<prep, queue>>
<1>1. conn' \in [Files -> BOOLEAN]
  BY Zenon DEF TranslatorTypeOK, SendUnit
<1>2. hassent' \in [Files -> {Garbage} \cup 0 .. Ulong - 1]
  <2>0. hassent[i] \in {Garbage} \cup 0 .. Ulong - 1
    BY DEF TranslatorTypeOK
  <2>1. hassent[i] + 1 \in Nat
    BY <2>0
  <2>2. (hassent[i] + 1) % Ulong \in 0 .. Ulong - 1
    BY <2>1
  <2>3. hassent' = [hassent EXCEPT ![i] = IF ok THEN (hassent[i] + 1) % Ulong ELSE hassent[i]]
    BY DEF SendUnit
  <2> QED
    BY <2>2, <2>3 DEF TranslatorTypeOK
<1> QED
  BY <1>1, <1>2 DEF TranslatorTypeOK, SendUnit

LEMMA SendNothingType ==
  ASSUME TranslatorTypeOK, NEW i \in Files, SendNothing(i)
  PROVE  TranslatorTypeOK' /\ UNCHANGED <<prep, queue>>
  BY DEF TranslatorTypeOK, SendNothing

LEMMA ReadPackType ==
  ASSUME TranslatorTypeOK, NEW i \in Files, ReadPack(i)
  PROVE  TranslatorTypeOK'
  BY DEF TranslatorTypeOK, ReadPack

LEMMA ResetSentType ==
  ASSUME TranslatorTypeOK, NEW i \in Files, ResetSent(i)
  PROVE  TranslatorTypeOK' /\ UNCHANGED <<prep, queue>>
  BY DEF TranslatorTypeOK, ResetSent

-----------------------------------------------------------------------------
(* IInv is inductive: the worker's steps, the prepare thread's, and those   *)
(* of the progress threads.                                                 *)

\* The worker: only Check and NextFile need the relation of cur to
\* ready_count, and only BeginSend needs what is known of a prepared file.
LEMMA WorkerIInv ==
  ASSUME IInv, WorkerStep \/ WorkerWakes \/ PeerCloses
  PROVE  IInv'
<1> TypeOK /\ PreparerInv /\ PreparedInv /\ WorkerInv
  BY DEF IInv
<1> USE DEF WMove, translatorVars, progressVars, recordVars, workerVars,
        preparerVars, TypeOK, ProgressTypeOK, TransferTypeOK, Ids, Holding,
        Opened, PreparerInv, PreparedInv, WorkerInv
<1>a. wpc \in Opened \cup {"copy", "erase", "sleep"} => cur \in Files
  OBVIOUS
<1>1. CASE Start
  <2>1. TypeOK'
    BY <1>1, <1>a DEF TranslatorTypeOK, Start
  <2>2. (PreparerInv /\ PreparedInv /\ WorkerInv)'
    BY <1>1 DEF Start
  <2> QED
    BY <2>1, <2>2 DEF IInv
<1>2. CASE Check
  <2>1. TypeOK'
    BY <1>2, <1>a DEF TranslatorTypeOK, Check
  <2>2. (PreparerInv /\ PreparedInv /\ WorkerInv)'
    BY <1>2 DEF Check
  <2> QED
    BY <2>1, <2>2 DEF IInv
<1>3. CASE Return
  <2>1. TypeOK'
    BY <1>3, <1>a DEF TranslatorTypeOK, Return
  <2>2. (PreparerInv /\ PreparedInv /\ WorkerInv)'
    BY <1>3 DEF Return
  <2> QED
    BY <2>1, <2>2 DEF IInv
<1>4. CASE Block
  <2>1. TypeOK'
    BY <1>4, <1>a DEF TranslatorTypeOK, Block
  <2>2. (PreparerInv /\ PreparedInv /\ WorkerInv)'
    BY <1>4 DEF Block
  <2> QED
    BY <2>1, <2>2 DEF IInv
<1>5. CASE Spawn
  <2>1. TypeOK'
    BY <1>5, <1>a DEF TranslatorTypeOK, Spawn
  <2>2. (PreparerInv /\ PreparedInv /\ WorkerInv)'
    BY <1>5 DEF Spawn
  <2> QED
    BY <2>1, <2>2 DEF IInv
<1>6. CASE NotifyAll
  <2>1. TypeOK'
    BY <1>6, <1>a DEF TranslatorTypeOK, NotifyAll
  <2>2. (PreparerInv /\ PreparedInv /\ WorkerInv)'
    BY <1>6 DEF NotifyAll
  <2> QED
    BY <2>1, <2>2 DEF IInv
<1>7. CASE Report
  <2>1. TypeOK'
    BY <1>7, <1>a DEF TranslatorTypeOK, Report
  <2>2. (PreparerInv /\ PreparedInv /\ WorkerInv)'
    BY <1>7 DEF Report
  <2> QED
    BY <2>1, <2>2 DEF IInv
<1>8. CASE CopyRecord
  <2>1. TypeOK'
    BY <1>8, <1>a DEF TranslatorTypeOK, CopyRecord, FirstMatch, Matches
  <2>2. (PreparerInv /\ PreparedInv /\ WorkerInv)'
    BY <1>8 DEF CopyRecord
  <2> QED
    BY <2>1, <2>2 DEF IInv
<1>9. CASE EraseRecord
  <2>1. TypeOK'
    BY <1>9, <1>a DEF TranslatorTypeOK, EraseRecord, FirstMatch, Matches
  <2>2. (PreparerInv /\ PreparedInv /\ WorkerInv)'
    BY <1>9 DEF EraseRecord
  <2> QED
    BY <2>1, <2>2 DEF IInv
<1>10. CASE WorkerWakes
  <2>1. TypeOK'
    BY <1>10, <1>a DEF TranslatorTypeOK, WorkerWakes
  <2>2. (PreparerInv /\ PreparedInv /\ WorkerInv)'
    BY <1>10 DEF WorkerWakes
  <2> QED
    BY <2>1, <2>2 DEF IInv
<1>11. CASE NextFile
  <2>1. TranslatorTypeOK' /\ ProgressTypeOK'
    BY <1>11 DEF TranslatorTypeOK, NextFile
  <2>2. TransferTypeOK'
    BY <1>11, <1>a DEF NextFile
  <2>3. (PreparerInv /\ PreparedInv /\ WorkerInv)'
    BY <1>11 DEF NextFile
  <2> QED
    BY <2>1, <2>2, <2>3 DEF IInv
<1>12. CASE ConnectCur
  <2>1. PICK ok \in BOOLEAN :
          /\ Connect(cur, ok)
          /\ wpc' = IF ok THEN "spawn" ELSE "sleep"
          /\ outcome' = IF ok THEN outcome ELSE [outcome EXCEPT ![cur] = "failed"]
          /\ isok' = (isok /\ ok)
    BY <1>12 DEF ConnectCur
  <2>2. TranslatorTypeOK' /\ UNCHANGED <<prep, queue>>
    BY <2>1, <1>12, <1>a, ConnectType DEF ConnectCur, Connect
  <2>3. ProgressTypeOK' /\ TransferTypeOK'
    BY <2>1, <1>12 DEF ConnectCur
  <2>4. (PreparerInv /\ PreparedInv /\ WorkerInv)'
    BY <2>1, <2>2, <1>12 DEF ConnectCur
  <2> QED
    BY <2>2, <2>3, <2>4 DEF IInv
<1>13. CASE BeginSend
  <2>1. prep[cur] = "prepared"
    BY <1>13, <1>a DEF BeginSend
  <2>2. TranslatorTypeOK' /\ UNCHANGED <<prep, queue>>
    BY <2>1, <1>13, <1>a, ResetSentType DEF BeginSend
  <2>3. ProgressTypeOK' /\ TransferTypeOK'
    BY <2>1, <1>13 DEF BeginSend
  <2>4. (PreparerInv /\ PreparedInv /\ WorkerInv)'
    BY <2>1, <2>2, <1>13 DEF BeginSend
  <2> QED
    BY <2>2, <2>3, <2>4 DEF IInv
<1>14. CASE SendHead
  <2>1. TranslatorTypeOK' /\ UNCHANGED <<prep, queue>>
    BY <1>14, <1>a, SendUnitType DEF SendHead
  <2>2. ProgressTypeOK' /\ TransferTypeOK'
    BY <1>14 DEF SendHead
  <2>3. (PreparerInv /\ PreparedInv /\ WorkerInv)'
    BY <2>1, <1>14 DEF SendHead
  <2> QED
    BY <2>1, <2>2, <2>3 DEF IInv
<1>15. CASE SendPacks
  <2>1. TranslatorTypeOK' /\ UNCHANGED <<prep, queue>>
    <3>1. CASE pos < queue[cur]
      BY <3>1, <1>15, <1>a, SendUnitType DEF SendPacks
    <3>2. CASE ~(pos < queue[cur])
      BY <3>2, <1>15 DEF SendPacks, TranslatorTypeOK
    <3> QED
      BY <3>1, <3>2
  <2>2. /\ wpc = "packs" /\ wpc' \in {"packs", "notify"}
        /\ pos' \in {pos, pos + 1}
        /\ UNCHANGED <<progressVars, recordVars, alive, program, cur, isok,
                       outcome, preparerVars>>
    BY <1>15 DEF SendPacks
  <2>3. ProgressTypeOK'
    BY <2>2
  <2>4. TransferTypeOK'
    BY <2>2
  <2>5. (PreparerInv /\ PreparedInv /\ WorkerInv)'
    BY <2>1, <2>2
  <2> QED
    BY <2>1, <2>3, <2>4, <2>5 DEF IInv
<1>16. CASE PeerCloses
  <2>1. TranslatorTypeOK' /\ UNCHANGED <<prep, queue>>
    BY <1>16, <1>a, SendNothingType DEF PeerCloses, AtEmptyPacket
  <2>2. ProgressTypeOK' /\ TransferTypeOK'
    BY <1>16 DEF PeerCloses
  <2>3. (PreparerInv /\ PreparedInv /\ WorkerInv)'
    BY <2>1, <1>16 DEF PeerCloses
  <2> QED
    BY <2>1, <2>2, <2>3 DEF IInv
<1> QED
  BY <1>1, <1>2, <1>3, <1>4, <1>5, <1>6, <1>7, <1>8, <1>9,
     <1>10, <1>11, <1>12, <1>13, <1>14, <1>15, <1>16
     DEF WorkerStep

\* The prepare thread: what it knows of its own file, and that it has touched
\* none of the later ones.
LEMMA PreparerIInv ==
  ASSUME IInv, PreparerStep
  PROVE  IInv'
<1> TypeOK /\ PreparerInv /\ PreparedInv /\ WorkerInv
  BY DEF IInv
<1> USE DEF PMove, translatorVars, progressVars, recordVars, workerVars,
        threadVars, TypeOK, TranslatorTypeOK, ProgressTypeOK, TransferTypeOK,
        Ids, Holding, Opened, PreparerInv, PreparedInv, WorkerInv
<1>1. CASE Prepare
  <2>1. TypeOK'
    BY <1>1 DEF Prepare, PrepareBegin
  <2>2. (PreparerInv /\ PreparedInv /\ WorkerInv)'
    BY <1>1 DEF Prepare, PrepareBegin
  <2> QED
    BY <2>1, <2>2 DEF IInv
<1>2. CASE Fill
  <2>1. CASE ReadPack(pidx) /\ UNCHANGED ppc
    <3>1. pidx \in Files
      BY <1>2 DEF Fill
    <3>2. TranslatorTypeOK'
      BY <2>1, <3>1, ReadPackType
    <3>3. ProgressTypeOK' /\ TransferTypeOK'
      BY <1>2, <2>1 DEF Fill
    <3>4. (PreparerInv /\ PreparedInv /\ WorkerInv)'
      BY <1>2, <2>1 DEF Fill, ReadPack
    <3> QED
      BY <3>2, <3>3, <3>4 DEF IInv
  <2>2. CASE PrepareEnd(pidx) /\ ppc' = "count"
    <3>1. TypeOK'
      BY <1>2, <2>2 DEF Fill, PrepareEnd
    <3>2. PreparerInv' /\ WorkerInv'
      BY <1>2, <2>2 DEF Fill
    <3>3. PreparedInv'
      <4>1. /\ ppc = "fill" /\ pidx \in Files /\ readyCount = pidx - 1
            /\ UNCHANGED <<pidx, readyCount>>
        BY <1>2 DEF Fill
      <4>2. /\ prep' = [prep EXCEPT ![pidx] = "prepared"]
            /\ queue' = queue /\ queue[pidx] = Packs[pidx]
        BY <2>2 DEF PrepareEnd
      <4> QED
        BY <4>1, <4>2, <2>2
    <3> QED
      BY <3>1, <3>2, <3>3 DEF IInv
  <2> QED
    BY <1>2, <2>1, <2>2 DEF Fill
<1>3. CASE Count
  <2>1. TranslatorTypeOK' /\ ProgressTypeOK'
    BY <1>3 DEF Count
  <2>2. TransferTypeOK'
    BY <1>3 DEF Count
  <2>3. (PreparerInv /\ PreparedInv /\ WorkerInv)'
    BY <1>3 DEF Count
  <2> QED
    BY <2>1, <2>2, <2>3 DEF IInv
<1>4. CASE NotifyOne
  <2>1. program' \in {program, "segv"}
    BY <1>4 DEF NotifyOne, Fault
  <2>2. TranslatorTypeOK' /\ ProgressTypeOK'
    BY <1>4, <2>1 DEF NotifyOne
  <2>3. TransferTypeOK'
    BY <1>4 DEF NotifyOne
  <2>4. PreparerInv' /\ PreparedInv'
    BY <1>4 DEF NotifyOne
  <2>5. WorkerInv'
    BY <1>4 DEF NotifyOne
  <2> QED
    BY <2>2, <2>3, <2>4, <2>5 DEF IInv
<1>5. CASE BeginLoop
  <2>1. program' \in {program, "segv"}
    BY <1>5 DEF BeginLoop, Fault
  <2>2. TypeOK'
    BY <1>5, <2>1 DEF BeginLoop
  <2>3. (PreparerInv /\ PreparedInv /\ WorkerInv)'
    BY <1>5 DEF BeginLoop
  <2> QED
    BY <2>2, <2>3 DEF IInv
<1> QED
  BY <1>1, <1>2, <1>3, <1>4, <1>5 DEF PreparerStep

\* A progress thread changes only its own locals, the mutex and program.
LEMMA ThreadType ==
  ASSUME ProgressTypeOK, TranslatorTypeOK, NEW i \in Files,
         ThreadStep(i) \/ SpuriousWake(i)
  PROVE  ProgressTypeOK' /\ UNCHANGED <<translatorVars, recordVars, alive>>
<1> USE DEF Move, recordVars, sharedVars, ProgressTypeOK, Ids, Holding
<1>1. CASE Wait(i)
  BY <1>1 DEF Wait
<1>2. CASE Timeout(i)
  BY <1>2 DEF Timeout
<1>3. CASE SpuriousWake(i)
  BY <1>3 DEF SpuriousWake
<1>4. CASE Reacquire(i)
  BY <1>4 DEF Reacquire
<1>5. CASE Read(i)
  <2>1. program' \in {program, "segv"}
    BY <1>5 DEF Read, Fault
  <2>2. Visited(id[i]) \in SUBSET Files
    BY DEF Visited
  <2>3. SentValues(i) \subseteq {Garbage} \cup 0 .. Ulong - 1
    BY DEF SentValues, TranslatorTypeOK
  <2>4. PICK v \in {Garbage} \cup 0 .. Ulong - 1 : sent' = [sent EXCEPT ![i] = v]
    BY <1>5, <2>3 DEF Read
  <2> QED
    BY <1>5, <2>1, <2>2, <2>4 DEF Read
<1>6. CASE Search(i)
  <2>1. program' \in {program, "segv"}
    BY <1>6 DEF Search, Fault
  <2>2. FirstMatch(id[i]) \in SUBSET Files
    BY DEF FirstMatch, Matches
  <2>3. walk' = [walk EXCEPT ![i] = FirstMatch(id[i])] \/ walk' = [walk EXCEPT ![i] = @ \ notDone]
    BY <1>6 DEF Search
  <2>4. walk' \in [Files -> SUBSET Files]
    <3>1. walk[i] \ notDone \in SUBSET Files
      OBVIOUS
    <3> QED
      BY <2>2, <2>3, <3>1
  <2> QED
    BY <1>6, <2>1, <2>4 DEF Search
<1>7. CASE Write(i)
  BY <1>7 DEF Write
<1>8. CASE ShowBar(i)
  BY <1>8 DEF ShowBar
<1>9. CASE Final(i)
  <2>1. sent' \in [Files -> {Garbage} \cup 0 .. Ulong - 1]
    BY <1>9 DEF Final
  <2>2. old' \in [Files -> {Garbage} \cup 0 .. Ulong - 1]
    BY <1>9 DEF Final
  <2> QED
    BY <1>9, <2>1, <2>2 DEF Final
<1> QED
  BY <1>1, <1>2, <1>3, <1>4, <1>5, <1>6, <1>7, <1>8, <1>9 DEF ThreadStep

LEMMA ThreadIInv ==
  ASSUME IInv, NEW i \in Files, ThreadStep(i) \/ SpuriousWake(i),
         UNCHANGED <<workerVars, preparerVars>>
  PROVE  IInv'
<1>1. ProgressTypeOK' /\ UNCHANGED <<translatorVars, recordVars, alive>>
  BY ThreadType DEF IInv, TypeOK
<1> QED
  BY <1>1 DEF IInv, TypeOK, TranslatorTypeOK, TransferTypeOK, PreparerInv,
     PreparedInv, WorkerInv, translatorVars, workerVars, preparerVars, Opened

LEMMA NextIInv == IInv /\ [Next]_vars => IInv'
<1> SUFFICES ASSUME IInv, [Next]_vars PROVE IInv'
  OBVIOUS
<1>1. CASE WorkerStep \/ WorkerWakes \/ PeerCloses
  BY <1>1, WorkerIInv
<1>2. CASE PreparerStep
  BY <1>2, PreparerIInv
<1>3. CASE \E i \in Files :
            (ThreadStep(i) \/ SpuriousWake(i)) /\ UNCHANGED <<workerVars, preparerVars>>
  BY <1>3, ThreadIInv
<1>4. CASE UNCHANGED vars
  <2>1. UNCHANGED <<translatorVars, progressVars, recordVars, alive, program,
                    workerVars, preparerVars>>
    BY <1>4 DEF vars
  <2> USE DEF translatorVars, progressVars, recordVars, workerVars, preparerVars
  <2>2. TranslatorTypeOK' /\ TransferTypeOK'
    BY <2>1 DEF IInv, TypeOK, TranslatorTypeOK, TransferTypeOK, Opened
  <2>3. ProgressTypeOK'
    BY <2>1 DEF IInv, TypeOK, ProgressTypeOK, Holding, Ids
  <2>4. PreparerInv' /\ PreparedInv' /\ WorkerInv'
    BY <2>1 DEF IInv, PreparerInv, PreparedInv, WorkerInv, Opened
  <2> QED
    BY <2>2, <2>3, <2>4 DEF IInv, TypeOK
<1> QED
  BY <1>1, <1>2, <1>3, <1>4 DEF Next

LEMMA SpecIInv == Spec => []IInv
  BY InitIInv, NextIInv, PTL DEF Spec

-----------------------------------------------------------------------------
(* What follows from IInv alone. *)

\* Every variable keeps its type; in particular cur, pidx and ready_count stay
\* within the N translators that multiRun was given.
THEOREM TypeCorrect == Spec => []TypeOK
<1>1. IInv => TypeOK
  BY DEF IInv
<1> QED
  BY <1>1, SpecIInv, PTL

\* The worker never opens a file whose content is not completely queued, for
\* any number of files: the gate on ready_count is sound although its writer
\* and its reader lock different mutexes.
THEOREM SendOnlyPreparedHolds == Spec => []SendOnlyPrepared
<1>1. IInv => SendOnlyPrepared
  BY DEF IInv, TypeOK, TransferTypeOK, PreparedInv, WorkerInv, SendOnlyPrepared, Opened
<1> QED
  BY <1>1, SpecIInv, PTL

\* When multiRun returns, the prepare thread has at most its last notify_one to
\* do, with the step out of its loop, or, if there was no file, the start of its
\* loop: for any number of files, also none, no other access of that thread to
\* the frames can come too late.
THEOREM FrameOutlivesPreparerHolds == Spec => []FrameOutlivesPreparer
<1>1. IInv => FrameOutlivesPreparer
  BY DEF IInv, TypeOK, TransferTypeOK, PreparerInv, WorkerInv, FrameOutlivesPreparer
<1> QED
  BY <1>1, SpecIInv, PTL

-----------------------------------------------------------------------------
(* The recorder's lists *)

\* Between the copy and the erasure, the record is in both lists.
RecordInv ==
  /\ RecordAlwaysListed
  /\ wpc = "erase" => FirstMatch(id[cur]) \subseteq hasDone

LEMMA RecordStep == IInv /\ RecordInv /\ [Next]_vars => RecordInv'
<1> SUFFICES ASSUME IInv, RecordInv, [Next]_vars PROVE RecordInv'
  OBVIOUS
<1>t. TypeOK /\ TypeOK' /\ PreparerInv
  BY NextIInv DEF IInv
<1> USE DEF RecordInv, RecordAlwaysListed, FirstMatch, Matches
<1>1. CASE WorkerStep \/ WorkerWakes \/ PeerCloses
  <2> USE DEF WMove, recordVars
  <2>1. CASE Start
    BY <2>1, <1>t DEF Start, TypeOK, ProgressTypeOK
  <2>2. CASE CopyRecord
    BY <2>2 DEF CopyRecord
  <2>3. CASE EraseRecord
    BY <2>3 DEF EraseRecord
  <2>4. CASE UNCHANGED recordVars /\ wpc # "start" /\ wpc' # "erase"
    BY <2>4
  <2> QED
    BY <1>1, <2>1, <2>2, <2>3, <2>4
       DEF WorkerStep, WorkerWakes, Check, Return, Block, ConnectCur, Spawn,
           BeginSend, SendHead, SendPacks, PeerCloses, AtEmptyPacket, NotifyAll,
           Report, NextFile
<1>2. CASE PreparerStep
  <2>1. CASE BeginLoop \/ Prepare \/ Fill \/ Count
    BY <2>1 DEF BeginLoop, Prepare, Fill, Count, threadVars, workerVars, recordVars
  <2>2. CASE NotifyOne
    BY <2>2 DEF NotifyOne, recordVars
  <2> QED
    BY <1>2, <2>1, <2>2 DEF PreparerStep
<1>3. CASE \E i \in Files :
            (ThreadStep(i) \/ SpuriousWake(i)) /\ UNCHANGED <<workerVars, preparerVars>>
  <2>1. UNCHANGED <<recordVars, workerVars>>
    BY <1>3, <1>t, ThreadType DEF TypeOK
  <2> QED
    BY <2>1 DEF recordVars, workerVars
<1>4. CASE UNCHANGED vars
  BY <1>4 DEF vars, recordVars, workerVars
<1> QED
  BY <1>1, <1>2, <1>3, <1>4 DEF Next

\* The record of a file is at all times in one list or the other, so the
\* pointer that a progress thread writes through is never null.
THEOREM RecordAlwaysListedHolds == Spec => []RecordAlwaysListed
<1>1. Init => RecordInv
  BY DEF Init, RecordInv, RecordAlwaysListed
<1>2. RecordInv => RecordAlwaysListed
  BY DEF RecordInv
<1> QED
  BY <1>1, <1>2, RecordStep, SpecIInv, PTL DEF Spec

-----------------------------------------------------------------------------
(* The refinement of SequentialSend *)

USE NAssumption, PacksAssumption DEF Files

\* The verdicts already given are those of the files before cur, and isok
\* tells whether one of them is "failed".
OutcomeInv ==
  /\ \A j \in Files : j < cur => outcome[j] # "pending"
  /\ \A j \in Files : j > cur => outcome[j] = "pending"
  /\ cur \in Files => (outcome[cur] = "pending" <=> wpc \notin {"copy", "erase", "sleep"})
  /\ isok <=> \A j \in Files : outcome[j] # "failed"

LEMMA OutcomeStep == IInv /\ OutcomeInv /\ [Next]_vars => OutcomeInv'
<1> SUFFICES ASSUME IInv, OutcomeInv, [Next]_vars PROVE OutcomeInv'
  OBVIOUS
<1>t. TypeOK /\ WorkerInv
  BY DEF IInv
<1> USE DEF OutcomeInv
<1>1. CASE WorkerStep \/ WorkerWakes \/ PeerCloses
  <2> USE DEF WMove
  <2>1. CASE ConnectCur
    <3>1. PICK ok \in BOOLEAN :
            /\ wpc' = IF ok THEN "spawn" ELSE "sleep"
            /\ outcome' = IF ok THEN outcome ELSE [outcome EXCEPT ![cur] = "failed"]
            /\ isok' = (isok /\ ok)
      BY <2>1 DEF ConnectCur
    <3>2. wpc = "connect" /\ cur' = cur /\ cur \in Files
      BY <2>1, <1>t DEF ConnectCur, WorkerInv, Opened, TypeOK, TransferTypeOK
    <3>3. CASE ok
      BY <3>1, <3>2, <3>3
    <3>4. CASE ~ok
      BY <3>1, <3>2, <3>4, <1>t DEF TypeOK, TransferTypeOK
    <3> QED
      BY <3>3, <3>4
  <2>2. CASE Report
    BY <2>2, <1>t DEF Report, WorkerInv, Opened, TypeOK, TransferTypeOK
  <2>3. CASE NextFile
    BY <2>3, <1>t DEF NextFile, WorkerInv, TypeOK, TransferTypeOK
  <2>4. CASE /\ UNCHANGED <<cur, outcome, isok>>
             /\ (wpc \in {"copy", "erase", "sleep"}) = (wpc' \in {"copy", "erase", "sleep"})
    BY <2>4
  <2> QED
    BY <1>1, <2>1, <2>2, <2>3, <2>4
       DEF WorkerStep, WorkerWakes, Start, Check, Return, Block, Spawn,
           BeginSend, SendHead, SendPacks, PeerCloses, AtEmptyPacket, NotifyAll,
           CopyRecord, EraseRecord
<1>2. CASE PreparerStep
  <2>1. CASE BeginLoop \/ Prepare \/ Fill \/ Count
    BY <2>1 DEF BeginLoop, Prepare, Fill, Count, threadVars, workerVars
  <2>2. CASE NotifyOne
    BY <2>2 DEF NotifyOne
  <2> QED
    BY <1>2, <2>1, <2>2 DEF PreparerStep
<1>3. CASE UNCHANGED workerVars
  BY <1>3 DEF workerVars
<1> QED
  BY <1>1, <1>2, <1>3 DEF Next, vars

LEMMA SpecOutcomeInv == Spec => []OutcomeInv
<1>1. Init => OutcomeInv
  BY DEF Init, OutcomeInv
<1> QED
  BY <1>1, OutcomeStep, SpecIInv, PTL DEF Spec

-----------------------------------------------------------------------------

LEMMA RefinesInit == Init => Abstract!Init
  BY DEF Init, Abstract!Init, Opened, Abstract!Files

LEMMA RefinesStep ==
  ASSUME IInv, OutcomeInv, [Next]_vars
  PROVE  [Abstract!Next]_Abstract!vars
<1>t. TypeOK /\ WorkerInv /\ PreparerInv /\ OutcomeInv
  BY DEF IInv
<1>f. wpc \in Opened \cup {"copy", "erase", "sleep"} => cur \in Files
  BY <1>t DEF WorkerInv, TypeOK, TransferTypeOK
<1> USE DEF WMove, Abstract!vars
<1>1. CASE Check
  <2>1. CASE readyCount >= cur
    <3>1. cur \in Files /\ Abstract!Open(cur)
      BY <1>1, <2>1, <1>t
         DEF Check, Abstract!Open, Abstract!Files, OutcomeInv, Opened, TypeOK,
             TransferTypeOK, preparerVars
    <3> QED
      BY <3>1 DEF Abstract!Next, Abstract!Files
  <2>2. CASE ~(readyCount >= cur)
    BY <1>1, <2>2 DEF Check, Opened, preparerVars
  <2> QED
    BY <2>1, <2>2
<1>2. CASE Return
  <2>1. Abstract!Return
    BY <1>2, <1>t
       DEF Return, Abstract!Return, Abstract!Files, OutcomeInv, Opened, TypeOK,
           TransferTypeOK, preparerVars
  <2> QED
    BY <2>1 DEF Abstract!Next
<1>3. CASE ConnectCur
  <2>1. PICK ok \in BOOLEAN :
          /\ wpc' = IF ok THEN "spawn" ELSE "sleep"
          /\ outcome' = IF ok THEN outcome ELSE [outcome EXCEPT ![cur] = "failed"]
    BY <1>3 DEF ConnectCur
  <2>2. /\ wpc = "connect" /\ cur' = cur /\ readyCount' = readyCount
        /\ cur \in Files
    BY <1>3, <1>f DEF ConnectCur, preparerVars, Opened
  <2>3. CASE ok
    BY <2>1, <2>2, <2>3 DEF Opened
  <2>4. CASE ~ok
    <3>1. Abstract!Decide(cur, "failed")
      BY <2>1, <2>2, <2>4 DEF Abstract!Decide, Opened
    <3> QED
      BY <2>2, <3>1 DEF Abstract!Next, Abstract!Files
  <2> QED
    BY <2>3, <2>4
<1>4. CASE Report
  <2>1. cur \in Files /\ Abstract!Decide(cur, "sent")
    BY <1>4, <1>f DEF Report, Abstract!Decide, Opened, preparerVars
  <2> QED
    BY <2>1 DEF Abstract!Next, Abstract!Files
<1>5. CASE Count
  <2>1. Abstract!Prepare
    BY <1>5, <1>t
       DEF Count, PMove, Abstract!Prepare, PreparerInv, TypeOK, TransferTypeOK,
           threadVars, workerVars
  <2> QED
    BY <2>1 DEF Abstract!Next
<1>6. CASE /\ UNCHANGED <<outcome, isok, readyCount>>
           /\ \/ wpc' = wpc /\ cur' = cur
              \/ {wpc, wpc'} \cap (Opened \cup {"returned"}) = {}
              \/ {wpc, wpc'} \subseteq Opened /\ cur' = cur
  BY <1>6 DEF Opened
<1>7. CASE BeginSend
  <2>1. prep[cur] = "prepared"
    BY <1>7, <1>f, <1>t DEF BeginSend, IInv, PreparedInv, WorkerInv, Opened
  <2> QED
    BY <2>1, <1>7, <1>6 DEF BeginSend, Opened, preparerVars
<1>8. CASE PreparerStep
  BY <1>8, <1>5, <1>6
     DEF PreparerStep, BeginLoop, PMove, Prepare, Fill, NotifyOne, threadVars, workerVars, Opened
<1>9. CASE Start \/ Block \/ Spawn \/ SendHead \/ SendPacks \/ PeerCloses \/ NotifyAll
  BY <1>9, <1>6
     DEF Start, Block, Spawn, SendHead, SendPacks, PeerCloses, NotifyAll, Opened,
         preparerVars
<1>10. CASE CopyRecord \/ EraseRecord \/ NextFile \/ WorkerWakes
  BY <1>10, <1>6
     DEF CopyRecord, EraseRecord, NextFile, WorkerWakes, Opened, preparerVars
<1>11. CASE UNCHANGED <<workerVars, preparerVars>>
  BY <1>11, <1>6 DEF workerVars, preparerVars
<1> QED
  BY <1>1, <1>2, <1>3, <1>4, <1>7, <1>8, <1>9, <1>10, <1>11
     DEF Next, WorkerStep, vars

\* multiRun implements SequentialSend.
THEOREM RefinesHolds == Spec => Refines
<1>1. IInv /\ OutcomeInv /\ [Next]_vars => [Abstract!Next]_Abstract!vars
  BY RefinesStep
<1> QED
  BY RefinesInit, <1>1, SpecIInv, SpecOutcomeInv, PTL DEF Spec, Refines, Abstract!Spec

-----------------------------------------------------------------------------
(* What the detached progress threads cannot do wrong, for any number of      *)
(* files: while the transfer they watch is undecided they use no freed        *)
(* memory, and while multiRun runs the counts that they read of a file that   *)
(* fits the counter only grow.  And                                           *)
(* what becomes of the recorder's two lists that they search, for any ids     *)
(* that the clock gave the records: turnToDone moves one record for each      *)
(* file that was reported as sent.                                            *)

USE NAssumption, PacksAssumption, EmptyLastAssumption, UlongAssumption
    DEF Files, Garbage, Free

\* A thread exists only for a file whose sendingAction has run.
SpawnInv ==
  \A i \in Files : tpc[i] # "none" =>
    \/ i < cur
    \/ i = cur /\ wpc \notin {"start", "check", "block", "asleep", "connect",
                              "spawn", "returned"}

\* hassent is unwritten until sendPreparedData resets it, and then counts no
\* more than the header and the packets that were sent.
UnsentInv ==
  /\ \A i \in Files :
       \/ i > cur
       \/ i = cur /\ wpc \in {"start", "check", "block", "asleep", "connect",
                              "spawn", "begin"}
       => hassent[i] = Garbage
  /\ wpc = "head" => hassent[cur] = 0
  /\ wpc = "packs" => 0 <= hassent[cur] /\ hassent[cur] <= 1 + pos

\* While the translators live, no thread of a file that fits has seen more than
\* was counted, nor, after a count, anything less.
Counted(i) ==
  /\ sent[i] > 0 => sent[i] <= hassent[i]
  /\ old[i] > 0 => old[i] <= hassent[i]
  /\ tpc[i] \in {"search", "write", "print", "relocked"} /\ old[i] > 0 =>
       sent[i] >= old[i]
  /\ tpc[i] = "relocked" => sent[i] = 0

CountInv == alive => \A i \in Files : Fits(i) => Counted(i)

\* Until the verdict, the nodes a thread uses are in the list.
WalkInv ==
  \A i \in Files :
    tpc[i] \in {"search", "write"} /\ outcome[i] = "pending" => walk[i] \subseteq notDone

ThreadInv == SpawnInv /\ UnsentInv /\ CountInv /\ WalkInv

LEMMA InitThreadInv == Init => ThreadInv
  BY DEF Init, TranslatorInit, ProgressInit, ThreadInv, SpawnInv, UnsentInv,
         CountInv, Counted, WalkInv

\* What the threads have seen stays below a counter that only grows.
LEMMA CounterGrows ==
  ASSUME TypeOK, CountInv, UNCHANGED <<progressVars, alive>>,
         \A i \in Files : hassent'[i] \in Int /\ (Fits(i) => hassent'[i] >= hassent[i])
  PROVE  CountInv'
<1> SUFFICES ASSUME alive, NEW i \in Files, Fits(i) PROVE Counted(i)'
  BY DEF CountInv, Fits, Total
<1>1. /\ Counted(i) /\ hassent[i] \in Int /\ hassent'[i] \in Int
      /\ hassent'[i] >= hassent[i] /\ sent[i] \in Int /\ old[i] \in Int
  BY DEF CountInv, TypeOK, TranslatorTypeOK, ProgressTypeOK
<1> QED
  BY <1>1 DEF Counted, progressVars

\* One more on the counter, which wraps behind its last value.
LEMMA OneMore ==
  ASSUME NEW h \in 0 .. Ulong - 1
  PROVE  (h + 1) % Ulong = IF h + 1 < Ulong THEN h + 1 ELSE 0
  OBVIOUS

LEMMA SendUnitGrows ==
  ASSUME TranslatorTypeOK, NEW j \in Files, NEW ok \in BOOLEAN, SendUnit(j, ok),
         0 <= hassent[j], ok => hassent[j] < Total(j)
  PROVE  /\ \A i \in Files : /\ hassent'[i] \in Int
                             /\ Fits(i) => hassent'[i] >= hassent[i]
                             /\ i # j => hassent'[i] = hassent[i]
         /\ 0 <= hassent'[j]
         /\ hassent'[j] <= IF ok THEN hassent[j] + 1 ELSE hassent[j]
<1>1. hassent[j] \in 0 .. Ulong - 1 /\ \A i \in Files : hassent[i] \in Int
  BY DEF TranslatorTypeOK
<1>2. \A i \in Files : i # j => hassent'[i] = hassent[i]
  BY DEF SendUnit, TranslatorTypeOK
<1>3. hassent'[j] = IF ok THEN (hassent[j] + 1) % Ulong ELSE hassent[j]
  BY DEF SendUnit, TranslatorTypeOK
<1>4. Total(j) \in Int
  BY DEF Total
<1>5. /\ hassent'[j] \in Int
      /\ 0 <= hassent'[j]
      /\ hassent'[j] <= IF ok THEN hassent[j] + 1 ELSE hassent[j]
      /\ Fits(j) => hassent'[j] >= hassent[j]
  BY <1>1, <1>3, <1>4, OneMore DEF Fits
<1> QED
  BY <1>1, <1>2, <1>5

LEMMA WorkerThreadInv ==
  ASSUME IInv, OutcomeInv, ThreadInv, WorkerStep \/ WorkerWakes \/ PeerCloses
  PROVE  ThreadInv'
<1>t. TypeOK /\ PreparedInv /\ WorkerInv /\ SpawnInv /\ UnsentInv /\ CountInv /\ WalkInv
  BY DEF IInv, ThreadInv
<1>f. wpc \in Opened \cup {"copy", "erase", "sleep"} => cur \in Files
  BY <1>t DEF WorkerInv, TypeOK, TransferTypeOK
<1> USE <1>t DEF WMove, TypeOK, TranslatorTypeOK, ProgressTypeOK, TransferTypeOK,
        translatorVars, progressVars, recordVars, ThreadInv, SpawnInv, UnsentInv,
        CountInv, Counted, WalkInv
<1>1. CASE Start
  BY <1>1 DEF Start, WorkerInv
<1>2. CASE Check
  BY <1>2 DEF Check
<1>3. CASE Return
  BY <1>3 DEF Return
<1>4. CASE Block \/ WorkerWakes
  <2>1. SpawnInv' /\ WalkInv'
    BY <1>4 DEF Block, WorkerWakes
  <2>2. UnsentInv'
    BY <1>4 DEF Block, WorkerWakes
  <2>3. CountInv'
    BY <1>4, CounterGrows DEF Block, WorkerWakes
  <2> QED
    BY <2>1, <2>2, <2>3
<1>5. CASE ConnectCur
  BY <1>5 DEF ConnectCur, Connect
<1>6. CASE Spawn
  BY <1>6, <1>f DEF Spawn, Opened
<1>7. CASE BeginSend
  <2>1. prep[cur] = "prepared" /\ cur \in Files
    BY <1>7, <1>f DEF BeginSend, PreparedInv, WorkerInv, Opened
  <2>2. UnsentInv' /\ CountInv'
    <3>1. /\ hassent[cur] = Garbage /\ hassent' = [hassent EXCEPT ![cur] = 0]
          /\ wpc = "begin" /\ wpc' = "head"
          /\ UNCHANGED <<cur, progressVars, alive>>
      BY <1>7, <2>1 DEF BeginSend, ResetSent
    <3>2. CountInv'
      <4>1. \A i \in Files : hassent'[i] >= hassent[i] /\ hassent'[i] \in Int
        BY <3>1
      <4> QED
        BY <3>1, <4>1, CounterGrows
    <3>3. UnsentInv'
      BY <2>1, <3>1
    <3> QED
      BY <3>2, <3>3
  <2>3. SpawnInv'
    BY <1>7, <2>1 DEF BeginSend
  <2>4. WalkInv'
    BY <1>7, <2>1 DEF BeginSend
  <2> QED
    BY <1>7, <2>1, <2>2, <2>3, <2>4
<1>8. CASE SendHead \/ (SendPacks /\ pos < queue[cur])
  <2>1. PICK ok \in BOOLEAN :
          /\ SendUnit(cur, ok)
          /\ \/ wpc = "head" /\ pos' = pos
             \/ /\ wpc = "packs" /\ ~AtEmptyPacket /\ pos < queue[cur]
                /\ pos' = IF ok THEN pos + 1 ELSE pos
    BY <1>8 DEF SendHead, SendPacks
  <2>2. /\ wpc \in {"head", "packs"} /\ wpc' \in {"packs", "notify"}
        /\ wpc = "head" => wpc' = "packs"
        /\ UNCHANGED <<cur, progressVars, recordVars, outcome, alive>>
    BY <1>8 DEF SendHead, SendPacks
  <2>3. cur \in Files /\ queue[cur] = Packs[cur] /\ pos \in Nat
    BY <2>2, <1>f DEF PreparedInv, WorkerInv, Opened
  <2>4. 0 <= hassent[cur] /\ (ok => hassent[cur] < Total(cur))
    <3>1. Packs[cur] \in Nat \ {0} /\ hassent[cur] \in Int
      BY <2>3
    <3>2. CASE wpc = "head"
      BY <3>1, <3>2 DEF Total
    <3>3. CASE wpc = "packs"
      <4>1. /\ 0 <= hassent[cur] /\ hassent[cur] <= 1 + pos /\ pos < Packs[cur]
            /\ ~AtEmptyPacket
        BY <2>1, <2>3, <3>3
      <4>2. ok => ~(cur \in EmptyLast /\ pos = Packs[cur] - 1)
        BY <2>1, <3>3, <4>1 DEF SendUnit, AtEmptyPacket
      <4>3. CASE cur \in EmptyLast
        <5>1. Total(cur) = Packs[cur]
          BY <4>3 DEF Total
        <5> QED
          BY <2>3, <3>1, <4>1, <4>2, <4>3, <5>1
      <4>4. CASE cur \notin EmptyLast
        <5>1. Total(cur) = 1 + Packs[cur]
          BY <4>4 DEF Total
        <5> QED
          BY <2>3, <3>1, <4>1, <5>1
      <4> QED
        BY <4>3, <4>4
    <3> QED
      BY <2>2, <3>2, <3>3
  <2>5. /\ \A i \in Files : /\ hassent'[i] \in Int
                            /\ Fits(i) => hassent'[i] >= hassent[i]
                            /\ i # cur => hassent'[i] = hassent[i]
        /\ 0 <= hassent'[cur]
        /\ hassent'[cur] <= IF ok THEN hassent[cur] + 1 ELSE hassent[cur]
    BY <2>1, <2>3, <2>4, SendUnitGrows
  <2>6. CountInv'
    BY <2>2, <2>5, CounterGrows
  <2>7. SpawnInv' /\ WalkInv'
    BY <2>2
  <2>8. UnsentInv'
    <3>1. \A i \in Files : i > cur => hassent'[i] = Garbage
      BY <2>3, <2>5
    <3>2. wpc' = "packs" => hassent'[cur] <= 1 + pos'
      <4>1. hassent[cur] \in Int /\ hassent'[cur] \in Int
        BY <2>3, <2>5
      <4>2. CASE wpc = "head"
        BY <2>1, <2>3, <2>5, <4>1, <4>2
      <4>3. CASE wpc = "packs"
        BY <2>1, <2>3, <2>5, <4>1, <4>3
      <4> QED
        BY <2>2, <4>2, <4>3
    <3> QED
      BY <2>2, <2>5, <3>1, <3>2
  <2> QED
    BY <2>6, <2>7, <2>8
<1>9. CASE SendPacks /\ ~(pos < queue[cur])
  BY <1>9 DEF SendPacks
<1>10. CASE NotifyAll
  BY <1>10 DEF NotifyAll
<1>11. CASE Report
  BY <1>11 DEF Report
<1>12. CASE CopyRecord
  BY <1>12 DEF CopyRecord
<1>13. CASE EraseRecord
  BY <1>13, <1>f DEF EraseRecord, OutcomeInv
<1>14. CASE NextFile
  BY <1>14 DEF NextFile
<1>15. CASE PeerCloses
  <2>1. /\ wpc = "packs" /\ pos' = pos + 1 /\ cur \in Files
        /\ UNCHANGED <<wpc, cur, hassent, progressVars, recordVars, outcome, alive>>
    BY <1>15, <1>f DEF PeerCloses, AtEmptyPacket, SendNothing, Opened
  <2>2. SpawnInv' /\ WalkInv'
    BY <2>1
  <2>3. UnsentInv'
    <3>1. /\ 0 <= hassent[cur] /\ hassent[cur] <= 1 + pos /\ pos \in Nat
          /\ hassent[cur] \in Int
      BY <2>1
    <3>2. hassent[cur] <= 1 + (pos + 1)
      BY <3>1
    <3> QED
      BY <2>1, <3>1, <3>2
  <2>4. CountInv'
    BY <2>1, CounterGrows
  <2> QED
    BY <2>2, <2>3, <2>4
<1> QED
  BY <1>1, <1>2, <1>3, <1>4, <1>5, <1>6, <1>7, <1>8, <1>9, <1>10, <1>11, <1>12,
     <1>13, <1>14, <1>15 DEF WorkerStep

\* The prepare thread resets a counter only of a translator it prepares again,
\* and multiRun prepares each of them once.
LEMMA PreparerThreadInv ==
  ASSUME IInv, ThreadInv, PreparerStep
  PROVE  ThreadInv'
<1>t. TypeOK /\ PreparerInv /\ PreparedInv /\ SpawnInv /\ UnsentInv /\ CountInv /\ WalkInv
  BY DEF IInv, ThreadInv
<1>1. UNCHANGED hassent
  <2>1. CASE Prepare
    BY <2>1, <1>t DEF Prepare, PMove, PrepareBegin, PreparerInv, PreparedInv,
       TypeOK, TransferTypeOK, TranslatorTypeOK
  <2>2. CASE BeginLoop \/ Fill \/ Count \/ NotifyOne
    BY <2>2 DEF BeginLoop, Fill, ReadPack, PrepareEnd, Count, NotifyOne, translatorVars
  <2> QED
    BY <2>1, <2>2 DEF PreparerStep
<1>2. /\ UNCHANGED <<tpc, done, sent, old, walk, finishMut, notDone, alive, cur, pos,
                     outcome>>
      /\ wpc' = wpc \/ (wpc = "asleep" /\ wpc' = "check")
  <2>1. CASE BeginLoop \/ Prepare \/ Fill \/ Count
    BY <2>1 DEF BeginLoop, Prepare, Fill, Count, threadVars, workerVars, recordVars, progressVars
  <2>2. CASE NotifyOne
    BY <2>2 DEF NotifyOne, recordVars, progressVars
  <2> QED
    BY <2>1, <2>2 DEF PreparerStep
<1>3. SpawnInv' /\ UnsentInv'
  BY <1>t, <1>1, <1>2 DEF SpawnInv, UnsentInv
<1>4. CountInv' /\ WalkInv'
  BY <1>t, <1>1, <1>2 DEF CountInv, Counted, WalkInv
<1> QED
  BY <1>3, <1>4 DEF ThreadInv

\* A progress thread's own steps.
LEMMA ProgressThreadInv ==
  ASSUME IInv, ThreadInv, NEW i \in Files, ThreadStep(i) \/ SpuriousWake(i),
         UNCHANGED <<workerVars, preparerVars>>
  PROVE  ThreadInv'
<1>t. TypeOK /\ SpawnInv /\ UnsentInv /\ CountInv /\ WalkInv
  BY DEF IInv, ThreadInv
<1>u. UNCHANGED <<hassent, notDone, alive, cur, pos, wpc, outcome, id>>
  BY <1>t, ThreadType DEF TypeOK, translatorVars, recordVars, workerVars
<1>m. tpc[i] # "none" /\ \E to : tpc' = [tpc EXCEPT ![i] = to]
  BY DEF ThreadStep, Wait, Timeout, SpuriousWake, Reacquire, Read, Search, Write,
         ShowBar, Final, Move
<1>1. SpawnInv' /\ UnsentInv'
  BY <1>t, <1>u, <1>m DEF SpawnInv, UnsentInv, TypeOK, ProgressTypeOK
<1> USE DEF Move, TypeOK, ProgressTypeOK, TranslatorTypeOK
<1>2. CountInv' /\ WalkInv'
  <2> SUFFICES ASSUME NEW j \in Files
               PROVE  /\ alive /\ Fits(j) => Counted(j)'
                      /\ tpc'[j] \in {"search", "write"} /\ outcome[j] = "pending" =>
                           walk'[j] \subseteq notDone
    BY <1>u DEF CountInv, WalkInv, Fits, Total
  <2>0. /\ alive /\ Fits(j) => Counted(j)
        /\ tpc[j] \in {"search", "write"} /\ outcome[j] = "pending" => walk[j] \subseteq notDone
    BY <1>t DEF CountInv, WalkInv
  <2>1. CASE Wait(i) \/ Timeout(i) \/ SpuriousWake(i) \/ Reacquire(i) \/ Final(i)
    BY <1>t, <1>u, <2>0, <2>1
       DEF Wait, Timeout, SpuriousWake, Reacquire, Final, Counted
  <2>2. CASE Read(i)
    <3>1. PICK v \in SentValues(i) : sent' = [sent EXCEPT ![i] = v]
      BY <2>2 DEF Read
    <3>2. Visited(id[i]) \subseteq notDone
      BY DEF Visited
    <3>3. /\ tpc[i] = "read" /\ tpc' = [tpc EXCEPT ![i] = "search"]
          /\ walk' = [walk EXCEPT ![i] = Visited(id[i])] /\ old' = old
      BY <2>2 DEF Read
    <3>4. CASE j = i
      <4>1. alive => v = hassent[i] \/ (hassent[i] = Garbage /\ v \in {0, Garbage})
        BY DEF SentValues
      <4>2. alive /\ Fits(i) /\ old[i] > 0 => v >= old[i]
        <5>1. old[i] \in Int /\ hassent[i] \in Int
          BY <1>t
        <5>2. alive /\ Fits(i) /\ old[i] > 0 => old[i] <= hassent[i]
          BY <2>0, <3>4 DEF Counted
        <5> QED
          BY <4>1, <5>1, <5>2
      <4>3. /\ sent'[i] = v /\ old'[i] = old[i] /\ tpc'[i] = "search"
            /\ walk'[i] = Visited(id[i])
        BY <3>1, <3>3, <1>t
      <4>4. v > 0 /\ alive => v <= hassent[i]
        BY <4>1, <1>t
      <4>5. alive /\ Fits(i) => Counted(i)'
        BY <1>u, <2>0, <3>4, <4>2, <4>3, <4>4 DEF Counted
      <4> QED
        BY <1>u, <3>2, <3>4, <4>3, <4>5
    <3>5. CASE j # i
      BY <1>t, <1>u, <2>0, <3>1, <3>3, <3>5 DEF Counted
    <3> QED
      BY <3>4, <3>5
  <2>3. CASE Search(i)
    BY <1>t, <1>u, <2>0, <2>3 DEF Search, FirstMatch, Matches, Counted
  <2>4. CASE Write(i)
    BY <1>t, <1>u, <2>0, <2>4 DEF Write, Counted
  <2>5. CASE ShowBar(i)
    BY <1>t, <1>u, <2>0, <2>5 DEF ShowBar, Counted
  <2> QED
    BY <2>1, <2>2, <2>3, <2>4, <2>5 DEF ThreadStep
<1> QED
  BY <1>1, <1>2 DEF ThreadInv

LEMMA NextThreadInv == IInv /\ OutcomeInv /\ ThreadInv /\ [Next]_vars => ThreadInv'
<1> SUFFICES ASSUME IInv, OutcomeInv, ThreadInv, [Next]_vars PROVE ThreadInv'
  OBVIOUS
<1>1. CASE UNCHANGED vars
  <2>1. UNCHANGED <<translatorVars, progressVars, recordVars, alive, workerVars>>
    BY <1>1 DEF vars
  <2> QED
    BY <2>1 DEF ThreadInv, SpawnInv, UnsentInv, CountInv, Counted, WalkInv,
       translatorVars, progressVars, recordVars, workerVars
<1> QED
  BY <1>1, WorkerThreadInv, PreparerThreadInv, ProgressThreadInv DEF Next

LEMMA SpecThreadInv == Spec => [](IInv /\ OutcomeInv /\ ThreadInv)
  BY InitThreadInv, NextThreadInv, SpecIInv, SpecOutcomeInv, PTL DEF Spec

-----------------------------------------------------------------------------

\* The detached threads' uses of freed translators and of erased list nodes all
\* come after the verdict on their file.
THEOREM DanglesOnlyAfterVerdictHolds == Spec => []DanglesOnlyAfterVerdict
<1>1. IInv /\ OutcomeInv /\ ThreadInv => DanglesOnlyAfterVerdict
  BY DEF IInv, WorkerInv, OutcomeInv, ThreadInv, WalkInv, DanglesOnlyAfterVerdict
<1> QED
  BY <1>1, SpecThreadInv, PTL

\* The second lk.lock() of the continue branch hits only a thread that has shown
\* no count but what it read of the unwritten counter, for a file of any length
\* below the counter's range.
THEOREM CrashOnlyBeforeCountHolds == Spec => []CrashOnlyBeforeCount
<1>1. IInv /\ ThreadInv => CrashOnlyBeforeCount
  <2> SUFFICES ASSUME IInv, ThreadInv, NEW i \in Files,
                      tpc[i] = "relocked", alive, Fits(i)
               PROVE  old[i] \in {0, Garbage}
    BY DEF CrashOnlyBeforeCount
  <2>1. Counted(i)
    BY DEF ThreadInv, CountInv
  <2>2. old[i] \in {Garbage} \cup 0 .. Ulong - 1
    BY DEF IInv, TypeOK, ProgressTypeOK
  <2> QED
    BY <2>1, <2>2 DEF Counted
<1> QED
  BY <1>1, SpecThreadInv, PTL

\* Of a file whose length is below the counter's range, a reading after a count
\* is of the counter, and not less: sent - old, a subtraction of size_t, does not
\* wrap around.
THEOREM SpeedNeverWrapsHolds == Spec => []SpeedNeverWraps
<1>1. IInv /\ ThreadInv => SpeedNeverWraps
  <2> SUFFICES ASSUME IInv, ThreadInv, NEW i \in Files,
                      tpc[i] = "print", alive, Fits(i), old[i] \notin {0, Garbage}
               PROVE  sent[i] >= old[i]
    BY DEF SpeedNeverWraps
  <2>1. Counted(i)
    BY DEF ThreadInv, CountInv
  <2>2. old[i] \in {Garbage} \cup 0 .. Ulong - 1
    BY DEF IInv, TypeOK, ProgressTypeOK
  <2> QED
    BY <2>1, <2>2 DEF Counted
<1> QED
  BY <1>1, SpecThreadInv, PTL

-----------------------------------------------------------------------------
(* The recorder's two lists *)

\* The worker has copied the record of cur, or has given the file up.
Moved == wpc \in {"erase", "sleep"}

\* A search takes the first record with an id, and the files are sent in the
\* order of their records: those of the files still to come stay in place.
PlaceInv ==
  /\ wpc = "start" => hasDone = {}
  /\ wpc # "start" => \A j \in Files :
       j > cur \/ (j = cur /\ ~Moved) => j \in notDone
  /\ hasDone \cap notDone = IF wpc = "erase" THEN FirstMatch(id[cur]) ELSE {}
  /\ \A j \in hasDone : j < cur \/ (j = cur /\ Moved)
  /\ wpc = "copy" => outcome[cur] = "sent"

\* The files whose record must be in m_has_done.
SentMoved == {i \in Files : outcome[i] = "sent"} \ (IF wpc = "copy" THEN {cur} ELSE {})

LEMMA SentIsFinite == IsFiniteSet(SentMoved) /\ (TypeOK => IsFiniteSet(hasDone))
<1>1. IsFiniteSet(Files)
  BY FS_Interval
<1> QED
  BY <1>1, FS_Subset DEF SentMoved, TypeOK, ProgressTypeOK

LEMMA FirstMatchIsOne ==
  ASSUME TypeOK, NEW k \in Files, NEW c \in Files, c \in notDone, id[c] = k
  PROVE  \E m \in Files : FirstMatch(k) = {m} /\ m \in notDone /\ id[m] = k /\ m <= c
<1>1. Matches(notDone, k) \subseteq Files /\ notDone \subseteq Files
  BY DEF Matches, TypeOK, ProgressTypeOK
<1>2. c \in Matches(notDone, k)
  BY DEF Matches
<1>3. Matches(notDone, k) \subseteq Nat
  BY <1>1
<1>4. PICK m \in Matches(notDone, k) :
        \A l \in Matches(notDone, k) : ~(<<l, m>> \in OpToRel(<, Nat))
  BY <1>2, <1>3, NatLessThanWellFounded, WFMin
<1>5. \A l \in Matches(notDone, k) : m <= l
  <2> SUFFICES ASSUME NEW l \in Matches(notDone, k) PROVE m <= l
    OBVIOUS
  <2>1. <<l, m>> \in Nat \X Nat /\ l \in Nat /\ m \in Nat
    BY <1>3
  <2>2. ~(l < m)
    BY <1>4, <2>1 DEF OpToRel
  <2> QED
    BY <2>1, <2>2
<1>6. FirstMatch(k) = {m}
  BY <1>3, <1>5 DEF FirstMatch
<1>7. m \in notDone /\ id[m] = k /\ m \in Files
  BY <1>1 DEF Matches
<1> QED
  BY <1>2, <1>5, <1>6, <1>7

\* The worker's step that copies a record copies a new one, and counts a file
\* that was not counted.
LEMMA CopyOne ==
  ASSUME IInv, PlaceInv, OneDonePerSent, CopyRecord
  PROVE  PlaceInv' /\ OneDonePerSent'
<1>1. /\ TypeOK /\ cur \in Files /\ id[cur] \in Files /\ wpc = "copy" /\ wpc' = "erase"
      /\ UNCHANGED <<notDone, id, cur, outcome>>
  BY DEF CopyRecord, WMove, IInv, WorkerInv, TypeOK, TransferTypeOK, ProgressTypeOK, Ids
<1>2. cur \in notDone /\ hasDone \cap notDone = {} /\ outcome[cur] = "sent"
  BY <1>1 DEF PlaceInv, Moved
<1>3. PICK m \in Files : FirstMatch(id[cur]) = {m} /\ m \in notDone /\ m <= cur
  BY <1>1, <1>2, FirstMatchIsOne
<1>4. hasDone' = hasDone \cup {m} /\ m \notin hasDone /\ FirstMatch(id[cur])' = {m}
  BY <1>1, <1>2, <1>3 DEF CopyRecord, FirstMatch, Matches
<1>5. PlaceInv'
  BY <1>1, <1>2, <1>3, <1>4 DEF PlaceInv, Moved
<1>6. Cardinality(hasDone') = Cardinality(hasDone) + 1
  BY <1>1, <1>4, SentIsFinite, FS_AddElement
<1>7. SentMoved' = SentMoved \cup {cur} /\ cur \notin SentMoved
  BY <1>1, <1>2 DEF SentMoved
<1>8. Cardinality(SentMoved') = Cardinality(SentMoved) + 1
  BY <1>7, SentIsFinite, FS_AddElement
<1> QED
  BY <1>5, <1>6, <1>8 DEF OneDonePerSent, SentMoved

\* The other steps move no record into m_has_done.
LEMMA OtherStep ==
  ASSUME IInv, OutcomeInv, PlaceInv, [Next]_vars, ~CopyRecord
  PROVE  PlaceInv' /\ UNCHANGED <<hasDone, SentMoved>>
<1>t. TypeOK /\ WorkerInv /\ PreparerInv
  BY DEF IInv
<1> USE DEF PlaceInv, SentMoved, Moved, FirstMatch, Matches
<1>1. CASE WorkerStep \/ WorkerWakes \/ PeerCloses
  <2> USE DEF WMove, recordVars
  <2>1. CASE Start
    BY <2>1, <1>t DEF Start, TypeOK, ProgressTypeOK
  <2>2. CASE EraseRecord
    <3>1. /\ wpc = "erase" /\ wpc' = "sleep" /\ UNCHANGED <<id, cur, outcome, hasDone>>
          /\ notDone' = notDone \ (hasDone \cap notDone)
      BY <2>2 DEF EraseRecord
    <3>2. \A j \in Files : j > cur => j \notin hasDone
      BY <1>t DEF TypeOK, TransferTypeOK, ProgressTypeOK
    <3> QED
      BY <3>1, <3>2
  <2>3. CASE Report
    <3>1. cur \in Files /\ outcome[cur] = "pending"
      BY <2>3, <1>t DEF Report, WorkerInv, Opened, OutcomeInv, TypeOK, TransferTypeOK
    <3>2. /\ wpc = "report" /\ wpc' = "copy" /\ UNCHANGED <<recordVars, cur>>
          /\ outcome' = [outcome EXCEPT ![cur] = "sent"]
      BY <2>3 DEF Report
    <3>3. SentMoved' = SentMoved
      BY <3>1, <3>2, <1>t DEF TypeOK, TransferTypeOK
    <3> QED
      BY <3>1, <3>2, <3>3, <1>t DEF TypeOK, TransferTypeOK
  <2>4. CASE ConnectCur
    BY <2>4, <1>t DEF ConnectCur, OutcomeInv, TypeOK, TransferTypeOK
  <2>5. CASE NextFile
    BY <2>5, <1>t DEF NextFile, TypeOK, TransferTypeOK, ProgressTypeOK
  <2>6. CASE UNCHANGED <<recordVars, cur, outcome>> /\ {wpc, wpc'} \cap {"start", "copy", "erase", "sleep"} = {}
    BY <2>6
  <2> QED
    BY <1>1, <2>1, <2>2, <2>3, <2>4, <2>5, <2>6
       DEF WorkerStep, WorkerWakes, Check, Return, Block, Spawn,
           BeginSend, SendHead, SendPacks, PeerCloses, AtEmptyPacket, NotifyAll
<1>2. CASE PreparerStep
  <2>1. CASE BeginLoop \/ Prepare \/ Fill \/ Count
    BY <2>1 DEF BeginLoop, Prepare, Fill, Count, threadVars, workerVars, recordVars
  <2>2. CASE NotifyOne
    BY <2>2 DEF NotifyOne, recordVars
  <2> QED
    BY <1>2, <2>1, <2>2 DEF PreparerStep
<1>3. CASE \E i \in Files :
            (ThreadStep(i) \/ SpuriousWake(i)) /\ UNCHANGED <<workerVars, preparerVars>>
  <2>1. UNCHANGED <<recordVars, workerVars>>
    BY <1>3, <1>t, ThreadType DEF TypeOK
  <2> QED
    BY <2>1 DEF recordVars, workerVars
<1>4. CASE UNCHANGED vars
  BY <1>4 DEF vars, recordVars, workerVars
<1> QED
  BY <1>1, <1>2, <1>3, <1>4 DEF Next

\* Whatever ids the clock gave, m_has_done grows by one record for each file
\* reported as sent, and by none for a file that failed.
THEOREM OneDonePerSentHolds == Spec => []OneDonePerSent
<1>1. Init => PlaceInv /\ OneDonePerSent
  <2> SUFFICES ASSUME Init PROVE PlaceInv /\ OneDonePerSent
    OBVIOUS
  <2>1. PlaceInv
    BY DEF Init, ProgressInit, PlaceInv
  <2>2. hasDone = {} /\ {i \in Files : outcome[i] = "sent"} = {} /\ wpc = "start"
    BY DEF Init, ProgressInit
  <2> QED
    BY <2>1, <2>2, FS_EmptySet DEF OneDonePerSent
<1>2. IInv /\ OutcomeInv /\ PlaceInv /\ OneDonePerSent /\ [Next]_vars
        => PlaceInv' /\ OneDonePerSent'
  <2>1. IInv /\ OutcomeInv /\ PlaceInv /\ OneDonePerSent /\ CopyRecord
          => PlaceInv' /\ OneDonePerSent'
    BY CopyOne
  <2>2. IInv /\ OutcomeInv /\ PlaceInv /\ OneDonePerSent /\ [Next]_vars /\ ~CopyRecord
          => PlaceInv' /\ OneDonePerSent'
    BY OtherStep DEF OneDonePerSent, SentMoved
  <2> QED
    BY <2>1, <2>2
<1> QED
  BY <1>1, <1>2, SpecIInv, SpecOutcomeInv, PTL DEF Spec

=============================================================================
