------------------------------ MODULE Transfer ------------------------------
(***************************************************************************)
(* multiRun, runit and finishAction (source/App.cpp): the worker that      *)
(* sends the files of one run command one after the other, the detached    *)
(* prepare thread that reads them ahead of it, and the progress threads of *)
(* module Progress.  The worker and the prepare thread share ready_count   *)
(* and ready_control, which live in multiRun's frame; ready_mut belongs to *)
(* the worker alone, because the prepare thread locks a mutex of its own.  *)
(***************************************************************************)
EXTENDS Progress, FiniteSets

VARIABLES
  wpc,         \* where the worker is
  cur,         \* its loop index i
  pos,         \* packets of file cur that sendPreparedData has written
  isok,        \* multiRun's result so far
  outcome,     \* what runit returned for each file
  ppc,         \* where the prepare thread is
  pidx,        \* the file it works on
  readyCount   \* ready_count

workerVars == <<wpc, cur, pos, isok, outcome>>
preparerVars == <<ppc, pidx, readyCount>>

vars == <<translatorVars, progressVars, recordVars, alive, program,
          workerVars, preparerVars>>

\* In the order of the code; "threw" is an exception out of sendPreparedData.
Opened == {"connect", "spawn", "begin", "head", "packs", "notify", "report"}

TransferTypeOK ==
  /\ wpc \in {"start", "check", "block", "asleep", "copy", "erase", "sleep",
              "returned", "threw"} \cup Opened
  /\ cur \in 0 .. N
  /\ pos \in Nat
  /\ isok \in BOOLEAN
  /\ outcome \in [Files -> {"pending", "sent", "failed"}]
  /\ ppc \in {"none", "begin", "prepare", "fill", "count", "notify", "end"}
  /\ pidx \in 0 .. N
  /\ readyCount \in -1 .. N - 1

TypeOK == TranslatorTypeOK /\ ProgressTypeOK /\ TransferTypeOK

Init ==
  /\ TranslatorInit
  /\ ProgressInit
  /\ wpc = "start"
  /\ cur = 0
  /\ pos = 0
  /\ isok = TRUE
  /\ outcome = [i \in Files |-> "pending"]
  /\ ppc = "none"
  /\ pidx = 0
  /\ readyCount = -1

WMove(from, to) ==
  /\ wpc = from
  /\ wpc' = to

-----------------------------------------------------------------------------
(* The worker *)

\* pushRecord for every file, then the prepare thread is created.
Start ==
  /\ WMove("start", "check")
  /\ notDone' = Files
  /\ ppc' = "begin"
  /\ UNCHANGED <<translatorVars, progressVars, id, hasDone, alive, program,
                 cur, pos, isok, outcome, pidx, readyCount>>

\* Mutated Check: ready_count taken for the number of prepared files.
CheckOffByOne ==
  /\ wpc = "check"
  /\ cur < N
  /\ wpc' = IF readyCount >= cur - 1 THEN "connect" ELSE "block"
  /\ UNCHANGED <<translatorVars, progressVars, recordVars, alive, program,
                 cur, pos, isok, outcome, preparerVars>>

\* Mutated Check: the worker does not wait.
CheckNoWait ==
  /\ WMove("check", "connect")
  /\ cur < N
  /\ UNCHANGED <<translatorVars, progressVars, recordVars, alive, program,
                 cur, pos, isok, outcome, preparerVars>>

\* ready_control.wait evaluates its predicate.
Check ==
  /\ wpc = "check"
  /\ cur < N
  /\ wpc' = IF readyCount >= cur THEN "connect" ELSE "block"
  /\ UNCHANGED <<translatorVars, progressVars, recordVars, alive, program,
                 cur, pos, isok, outcome, preparerVars>>

\* After the last file multiRun returns isok.  Its frame goes, and with it,
\* in the caller's frame, the translators.
Return ==
  /\ WMove("check", "returned")
  /\ cur = N
  /\ alive' = FALSE
  /\ UNCHANGED <<translatorVars, progressVars, recordVars, program,
                 cur, pos, isok, outcome, preparerVars>>

\* It registers as a waiter.  ready_count may have moved since the check: its
\* writer does not hold ready_mut.
Block ==
  /\ WMove("block", "asleep")
  /\ UNCHANGED <<translatorVars, progressVars, recordVars, alive, program,
                 cur, pos, isok, outcome, preparerVars>>

\* A spurious wakeup of the worker.
WorkerWakes ==
  /\ WMove("asleep", "check")
  /\ UNCHANGED <<translatorVars, progressVars, recordVars, alive, program,
                 cur, pos, isok, outcome, preparerVars>>

\* Mutated ConnectCur: a later file's success hides an earlier failure.
ConnectForgets ==
  /\ wpc = "connect"
  /\ \E ok \in BOOLEAN :
       /\ Connect(cur, ok)
       /\ wpc' = IF ok THEN "spawn" ELSE "sleep"
       /\ outcome' = IF ok THEN outcome ELSE [outcome EXCEPT ![cur] = "failed"]
       /\ isok' = ok
  /\ UNCHANGED <<progressVars, recordVars, alive, program, cur, pos,
                 preparerVars>>

\* runit up to translator.Connect().
ConnectCur ==
  /\ wpc = "connect"
  /\ \E ok \in BOOLEAN :
       /\ Connect(cur, ok)
       /\ wpc' = IF ok THEN "spawn" ELSE "sleep"
       /\ outcome' = IF ok THEN outcome ELSE [outcome EXCEPT ![cur] = "failed"]
       /\ isok' = (isok /\ ok)
  /\ UNCHANGED <<progressVars, recordVars, alive, program, cur, pos,
                 preparerVars>>

\* sendingAction creates the progress thread.
Spawn ==
  /\ WMove("spawn", "begin")
  /\ tpc' = [tpc EXCEPT ![cur] = "lock"]
  /\ UNCHANGED <<translatorVars, done, sent, old, walk, finishMut, recordVars,
                 alive, program, cur, pos, isok, outcome, preparerVars>>

\* sendPreparedData up to the header; it throws for an unprepared file.
BeginSend ==
  /\ wpc = "begin"
  /\ IF prep[cur] = "prepared"
       THEN wpc' = "head" /\ ResetSent(cur) /\ UNCHANGED alive
       ELSE wpc' = "threw" /\ alive' = FALSE /\ UNCHANGED translatorVars
  /\ pos' = 0
  /\ UNCHANGED <<progressVars, recordVars, program,
                 cur, isok, outcome, preparerVars>>

\* sendAction(b_tmp, headlen), whose result is dropped.
SendHead ==
  /\ WMove("head", "packs")
  /\ \E ok \in BOOLEAN : SendUnit(cur, ok)
  /\ UNCHANGED <<progressVars, recordVars, alive, program,
                 cur, pos, isok, outcome, preparerVars>>

\* The next packet is an empty one, and the client connected.
AtEmptyPacket ==
  /\ wpc = "packs"
  /\ cur \in EmptyLast /\ pos = Packs[cur] - 1
  /\ conn[cur]

\* One packet of _data_q, or the end of sendPreparedData: after the last
\* packet, or at the first one that fails.
SendPacks ==
  /\ wpc = "packs" /\ ~AtEmptyPacket
  /\ IF pos < queue[cur]
       THEN \E ok \in BOOLEAN :
              /\ SendUnit(cur, ok)
              /\ wpc' = IF ok THEN "packs" ELSE "notify"
              /\ pos' = IF ok THEN pos + 1 ELSE pos
       ELSE wpc' = "notify" /\ UNCHANGED <<translatorVars, pos>>
  /\ UNCHANGED <<progressVars, recordVars, alive, program,
                 cur, isok, outcome, preparerVars>>

\* The peer closes the connection, which ends the send of an empty packet.
PeerCloses ==
  /\ AtEmptyPacket
  /\ SendNothing(cur)
  /\ pos' = pos + 1
  /\ UNCHANGED <<progressVars, recordVars, alive, program,
                 wpc, cur, isok, outcome, preparerVars>>

\* finishAction: finish_control.notify_all(), without the mutex.
NotifyAll ==
  /\ WMove("notify", "report")
  /\ tpc' = [i \in Files |-> IF tpc[i] = "waiting" THEN "woken" ELSE tpc[i]]
  /\ UNCHANGED <<translatorVars, done, sent, old, walk, finishMut, recordVars,
                 alive, program, cur, pos, isok, outcome, preparerVars>>

\* finishAction prints its summary under finish_mut; runit returns true
\* whatever sendPreparedData returned.
Report ==
  /\ WMove("report", "copy")
  /\ finishMut = Free
  /\ outcome' = [outcome EXCEPT ![cur] = "sent"]
  /\ UNCHANGED <<translatorVars, progressVars, recordVars, alive, program,
                 cur, pos, isok, preparerVars>>

\* Mutated CopyRecord: the node is erased before it is copied.
CopyAfterErase ==
  /\ WMove("copy", "erase")
  /\ notDone' = notDone \ FirstMatch(id[cur])
  /\ UNCHANGED <<translatorVars, progressVars, id, hasDone, alive, program,
                 cur, pos, isok, outcome, preparerVars>>

\* turnToDone finds the record and copies it into m_has_done ...
CopyRecord ==
  /\ WMove("copy", "erase")
  /\ hasDone' = hasDone \cup FirstMatch(id[cur])
  /\ UNCHANGED <<translatorVars, progressVars, id, notDone, alive, program,
                 cur, pos, isok, outcome, preparerVars>>

\* ... and then erases it from m_not_done.
EraseRecord ==
  /\ WMove("erase", "sleep")
  /\ notDone' = notDone \ FirstMatch(id[cur])
  /\ UNCHANGED <<translatorVars, progressVars, id, hasDone, alive, program,
                 cur, pos, isok, outcome, preparerVars>>

\* sleep_for(100 ms), ++i.
NextFile ==
  /\ WMove("sleep", "check")
  /\ cur' = cur + 1
  /\ UNCHANGED <<translatorVars, progressVars, recordVars, alive, program,
                 pos, isok, outcome, preparerVars>>

WorkerStep ==
  \/ Start \/ Check \/ Return \/ Block \/ ConnectCur \/ Spawn
  \/ BeginSend \/ SendHead \/ SendPacks \/ NotifyAll \/ Report
  \/ CopyRecord \/ EraseRecord \/ NextFile

-----------------------------------------------------------------------------
(* The prepare thread *)

PMove(from, to) ==
  /\ ppc = from
  /\ ppc' = to

threadVars == <<progressVars, recordVars, alive, workerVars>>

\* The loop over translators, which the thread knows by reference, asks the
\* deque for its begin and its end.  If multiRun has returned, it is gone.
BeginLoop ==
  /\ PMove("begin", IF N > 0 THEN "prepare" ELSE "end")
  /\ IF alive THEN UNCHANGED program ELSE Fault
  /\ UNCHANGED <<translatorVars, threadVars, pidx, readyCount>>

\* lt.prepareData(), up to readFile.
Prepare ==
  /\ PMove("prepare", "fill")
  /\ PrepareBegin(pidx)
  /\ UNCHANGED <<threadVars, program, pidx, readyCount>>

\* readFile's callback, and the end of prepareData.
Fill ==
  /\ ppc = "fill"
  /\ \/ ReadPack(pidx) /\ UNCHANGED ppc
     \/ PrepareEnd(pidx) /\ ppc' = "count"
  /\ UNCHANGED <<threadVars, program, pidx, readyCount>>

\* ++ready_count, under tp_lock, which no one else locks.
Count ==
  /\ PMove("count", "notify")
  /\ readyCount' = readyCount + 1
  /\ UNCHANGED <<translatorVars, threadVars, program, pidx>>

\* ready_control.notify_one(), which wakes the worker if it is asleep, and the
\* loop's step to the next file.  If multiRun has returned, ready_control and
\* the deque are gone.
NotifyOne ==
  /\ ppc = "notify"
  /\ pidx' = pidx + 1
  /\ ppc' = IF pidx' < N THEN "prepare" ELSE "end"
  /\ wpc' = IF wpc = "asleep" THEN "check" ELSE wpc
  /\ IF alive THEN UNCHANGED program ELSE Fault
  /\ UNCHANGED <<translatorVars, progressVars, recordVars, alive, cur, pos,
                 isok, outcome, readyCount>>

PreparerStep == BeginLoop \/ Prepare \/ Fill \/ Count \/ NotifyOne

-----------------------------------------------------------------------------

Next ==
  /\ program = "up"
  /\ \/ WorkerStep
     \/ WorkerWakes
     \/ PeerCloses
     \/ PreparerStep
     \/ \E i \in Files :
          (ThreadStep(i) \/ SpuriousWake(i)) /\ UNCHANGED <<workerVars, preparerVars>>

Spec == Init /\ [][Next]_vars

\* The scheduler runs every thread that can run, a send of some bytes ends, a
\* wait of 500 ms ends, and finish_mut does not starve one of those that ask
\* for it again and again.  Spurious wakeups may happen but need not, and
\* nothing makes the peer close the connection.
Fairness ==
  /\ SF_vars(WorkerStep)
  /\ WF_vars(PreparerStep)
  /\ \A i \in Files : SF_vars(ThreadStep(i) /\ UNCHANGED <<workerVars, preparerVars>>)

FairSpec == Spec /\ Fairness

-----------------------------------------------------------------------------
(* Properties *)

\* sendPreparedData only ever runs on a file whose whole content is queued,
\* although ready_count is published under the wrong mutex.
SendOnlyPrepared ==
  wpc \in Opened =>
    /\ prep[cur] = "prepared"
    /\ queue[cur] = Packs[cur]

\* What the prepare thread can be late with.  Of a run of some files, the frames
\* of multiRun and of its caller outlive every access that the thread makes to
\* them but the last: the notification of the last file, with the step out of
\* the loop.  A run of no file (a -retry with nothing to retry) returns at once,
\* and all that the thread does may come after it: the start of its loop.
FrameOutlivesPreparer ==
  \/ alive
  \/ ppc = "end"
  \/ ppc = "notify" /\ pidx = N - 1
  \/ ppc = "begin" /\ N = 0

\* From the moment they are pushed, the record of every file is in one of the
\* recorder's two lists, so that the pointer getRecord returns is never null.
RecordAlwaysListed ==
  wpc # "start" => notDone \cup hasDone = Files

\* Whatever ids the clock gave, turnToDone moves exactly one record for each
\* file that was reported as sent.
OneDonePerSent ==
  LET moving == IF wpc = "copy" THEN {cur} ELSE {}
      sentFiles == {i \in Files : outcome[i] = "sent"}
  IN Cardinality(hasDone) = Cardinality(sentFiles \ moving)

\* No progress thread uses a translator or a list node that is gone while the
\* transfer it watches is still undecided: the dangling uses that the detached
\* thread does make all come after the verdict on its file.
DanglesOnlyAfterVerdict ==
  \A i \in Files :
    \/ tpc[i] = "read" /\ ~alive
    \/ tpc[i] \in {"search", "write"} /\ ~(walk[i] \subseteq notDone)
    => outcome[i] # "pending"

\* The second lk.lock() of the "continue", while multiRun runs: it hits only a
\* thread whose last bar, if it printed one, showed the unwritten counter.  Once
\* a thread has shown a count, it does not bring the process down, as long as
\* the file fits the counter: one that does not can make it 0 again.
CrashOnlyBeforeCount ==
  \A i \in Files :
    tpc[i] = "relocked" /\ alive /\ Fits(i) => old[i] \in {0, Garbage}

\* The speed is computed in size_t: while multiRun runs, sent - old does not
\* wrap around after a bar that showed a count, as long as the file fits the
\* counter.  After a bar that showed the unwritten counter it may.
SpeedNeverWraps ==
  \A i \in Files :
    tpc[i] = "print" /\ alive /\ Fits(i) /\ old[i] \notin {0, Garbage} =>
      sent[i] >= old[i]

\* Under the fairness above, multiRun returns or the process dies, unless the
\* worker stays asleep, all notifications having come before it slept, or in the
\* send of an empty packet, with a peer that never closes.
RunEnds ==
  \/ <>(wpc = "returned" \/ program # "up")
  \/ <>[](wpc = "asleep" /\ ppc = "end")
  \/ <>[]AtEmptyPacket

\* multiRun implements its abstract specification.
Abstract == INSTANCE SequentialSend WITH
  ready <- readyCount + 1,
  active <- IF wpc \in Opened THEN {cur} ELSE {},
  verdict <- outcome,
  result <- IF wpc # "returned" THEN "running"
            ELSE IF isok THEN "true" ELSE "false"

Refines == Abstract!Spec

\* What forH's usage text says of run, "send file to target": every file of
\* the command gets its turn, unless the process dies.
EveryFileTried ==
  <>(program # "up" \/ \A i \in Files : outcome[i] # "pending")

\* What "send success" says: the peer was sent the header and every packet.
SuccessMeansSent ==
  \A i \in Files : outcome[i] = "sent" => hassent[i] = Total(i) % Ulong

\* What "done History number" says of the records it counts.
DoneMeansSent ==
  \A i \in hasDone : outcome[i] = "sent"

=============================================================================
