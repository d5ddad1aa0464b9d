------------------------------ MODULE Progress ------------------------------
(***************************************************************************)
(* The detached progress threads of sendingAction (source/App.cpp), one    *)
(* per connected file, and what they share with the worker: the            *)
(* translators, finish_mut and finish_control, and the two lists of the    *)
(* global TranslateRecorder.  Each thread waits on finish_control for at   *)
(* most 500 ms, copies the translator's hassent into the file's record and *)
(* prints a progress bar, until it believes it was notified.               *)
(*                                                                         *)
(* The threads are detached and keep a pointer to a translator that lives  *)
(* in the frame of multiRun's caller, and a pointer into a std::list that  *)
(* the worker erases from without a lock.  A use of freed memory either    *)
(* goes unnoticed or ends the process.                                     *)
(***************************************************************************)
EXTENDS Translator

VARIABLES
  tpc,        \* where each file's progress thread is
  done, sent, old,  \* its locals of those names
  walk,       \* nodes of m_not_done its getRecord or record pointer uses
  finishMut,  \* the file whose thread holds finish_mut, or Free
  id,         \* ids[i]: the record id of each file
  notDone,    \* files whose record is in m_not_done
  hasDone,    \* files whose record is in m_has_done
  alive,      \* multiRun and the deque of translators still exist
  program     \* "up", or how the process died

progressVars == <<tpc, done, sent, old, walk, finishMut>>
recordVars == <<id, notDone, hasDone>>

Free == -1

\* A clock reading: successive pushRecord calls may draw the same id.  Only
\* which of them are equal matters, so an id is named by the first file that
\* drew it.
Ids == {f \in [Files -> Files] : \A i \in Files : f[i] <= i /\ f[f[i]] = f[i]}

Holding == {"read", "search", "write", "print"}

ProgressTypeOK ==
  /\ tpc \in [Files -> {"none", "lock", "waiting", "woken", "timedout",
                        "final", "end", "relocked"} \cup Holding]
  /\ done \in [Files -> BOOLEAN]
  /\ sent \in [Files -> {Garbage} \cup 0 .. Ulong - 1]
  /\ old \in [Files -> {Garbage} \cup 0 .. Ulong - 1]
  /\ walk \in [Files -> SUBSET Files]
  /\ finishMut \in Files \cup {Free}
  /\ id \in Ids
  /\ notDone \subseteq Files
  /\ hasDone \subseteq Files
  /\ alive \in BOOLEAN
  /\ program \in {"up", "terminate", "segv"}

ProgressInit ==
  /\ tpc = [i \in Files |-> "none"]
  /\ done = [i \in Files |-> FALSE]
  /\ sent = [i \in Files |-> 0]
  /\ old = [i \in Files |-> 0]
  /\ walk = [i \in Files |-> {}]
  /\ finishMut = Free
  /\ id \in Ids
  /\ notDone = {}
  /\ hasDone = {}
  /\ alive = TRUE
  /\ program = "up"

-----------------------------------------------------------------------------
(* The recorder's lists.  m_not_done keeps the order in which the files    *)
(* were pushed, which is the order of their indices.                       *)

Matches(S, k) == {j \in S : id[j] = k}

\* Mutated FirstMatch: the search does not stop at the first node.
EveryMatch(k) == Matches(notDone, k)

\* The node at which a search of m_not_done for k stops, as a set.
FirstMatch(k) ==
  {j \in Matches(notDone, k) : \A l \in Matches(notDone, k) : j <= l}

\* The nodes a search for k looks at.
Visited(k) == {j \in notDone : \A l \in FirstMatch(k) : j <= l}

\* A use of freed memory goes unnoticed or kills the process.
Fault == program' \in {program, "segv"}

-----------------------------------------------------------------------------
(* The loop of the progress thread *)

Move(i, from, to) ==
  /\ tpc[i] = from
  /\ tpc' = [tpc EXCEPT ![i] = to]

sharedVars == <<translatorVars, recordVars, alive>>

\* lk.lock(), then wait_for releases the mutex as it starts to wait.
Wait(i) ==
  /\ finishMut = Free
  /\ Move(i, "lock", "waiting")
  /\ UNCHANGED <<done, sent, old, walk, finishMut, sharedVars, program>>

\* 500 ms have passed without a notification.
Timeout(i) ==
  /\ Move(i, "waiting", "timedout")
  /\ UNCHANGED <<done, sent, old, walk, finishMut, sharedVars, program>>

\* wait_for has no predicate: the condition variable may wake on its own.
SpuriousWake(i) ==
  /\ Move(i, "waiting", "woken")
  /\ UNCHANGED <<done, sent, old, walk, finishMut, sharedVars, program>>

\* wait_for has the mutex again.  Its result compares the clock with the
\* deadline once the lock is held, so a thread that was notified but got
\* the lock late is told cv_status::timeout.
Reacquire(i) ==
  /\ finishMut = Free
  /\ finishMut' = i
  /\ \/ /\ Move(i, "timedout", "read")
        /\ UNCHANGED done
     \/ /\ Move(i, "woken", "read")
        /\ \E b \in BOOLEAN : done' = [done EXCEPT ![i] = done[i] \/ b]
  /\ UNCHANGED <<sent, old, walk, sharedVars, program>>

\* Mutated SentValues: any value that the counter has had, as a copy of it might.
SentValuesStale(i) ==
  IF alive /\ hassent[i] # Garbage THEN 0 .. hassent[i] ELSE {0, Garbage}

\* What owner->getSent() can return: anything when the translator is gone
\* or its counter was never written.
SentValues(i) ==
  IF alive /\ hassent[i] # Garbage THEN {hassent[i]} ELSE {0, Garbage}

\* sent = owner->getSent(), and getRecord starts down m_not_done.
Read(i) ==
  /\ Move(i, "read", "search")
  /\ \E v \in SentValues(i) : sent' = [sent EXCEPT ![i] = v]
  /\ walk' = [walk EXCEPT ![i] = Visited(id[i])]
  /\ IF alive THEN UNCHANGED program ELSE Fault
  /\ UNCHANGED <<done, old, finishMut, sharedVars>>

\* getRecord returns the first record with the id, unless a node was erased
\* while the search was on it: then rc or the search itself dangles.
Search(i) ==
  /\ Move(i, "search", "write")
  /\ \/ /\ walk' = [walk EXCEPT ![i] = FirstMatch(id[i])]
        /\ program' = IF Matches(notDone \cup hasDone, id[i]) = {}
                        THEN "segv"   \* rc is null
                        ELSE program
     \/ /\ walk[i] \ notDone # {}
        /\ walk' = [walk EXCEPT ![i] = @ \ notDone]
        /\ Fault
  /\ UNCHANGED <<done, sent, old, finishMut, sharedVars>>

\* rc->_sent = sent; then "if (sent == 0) continue" with the mutex held: the
\* next lk.lock() throws in a thread that catches nothing, and a thread that
\* is done leaves the loop still holding it.
Write(i) ==
  LET dangles == walk[i] \ notDone # {}
      then == IF sent[i] # 0 THEN "print"
              ELSE IF done[i] THEN "final" ELSE "relocked"
  IN /\ Move(i, "write", then)
     /\ \/ program' = IF then = "relocked" THEN "terminate" ELSE program
        \/ dangles /\ program' = "segv"
     /\ walk' = [walk EXCEPT ![i] = {}]
     /\ UNCHANGED <<done, sent, old, finishMut, sharedVars>>

\* old = sent, printProgress, lk.unlock().
ShowBar(i) ==
  /\ Move(i, "print", IF done[i] THEN "final" ELSE "lock")
  /\ old' = [old EXCEPT ![i] = sent[i]]
  /\ finishMut' = Free
  /\ UNCHANGED <<done, sent, walk, sharedVars, program>>

\* Mutated Final: a mutex locked by hand, so that leaving the loop through
\* "continue" leaves it locked.
FinalKeepsLock(i) ==
  /\ Move(i, "final", "end")
  /\ done' = [done EXCEPT ![i] = FALSE]
  /\ sent' = [sent EXCEPT ![i] = 0]
  /\ old' = [old EXCEPT ![i] = 0]
  /\ UNCHANGED <<walk, finishMut, sharedVars, program>>

\* The last printProgress; then the locals go, and lk's destructor unlocks
\* what is still locked.
Final(i) ==
  /\ Move(i, "final", "end")
  /\ finishMut' = IF finishMut = i THEN Free ELSE finishMut
  /\ done' = [done EXCEPT ![i] = FALSE]
  /\ sent' = [sent EXCEPT ![i] = 0]
  /\ old' = [old EXCEPT ![i] = 0]
  /\ UNCHANGED <<walk, sharedVars, program>>

ThreadStep(i) ==
  \/ Wait(i) \/ Timeout(i) \/ Reacquire(i) \/ Read(i)
  \/ Search(i) \/ Write(i) \/ ShowBar(i) \/ Final(i)

=============================================================================
